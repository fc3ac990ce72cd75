-------------------------- MODULE LineReader_proofs --------------------------
(***************************************************************************)
(* The line reader for every cap, every sequence of appends and every      *)
(* count: what its two offsets mean, and that buffer, offsets and          *)
(* compaction together are the plain byte stream of ByteStream.            *)
(***************************************************************************)
EXTENDS LineReader, SequenceTheorems, TLAPS

-----------------------------------------------------------------------------
(* The unread bytes.                                                       *)

Unread == SubSeq(buffer, begin + 1, Size)

\* A CRLF begins p bytes into the buffer.
CrlfAt(p) == p + 2 <= Size /\ buffer[p + 1] = "CR" /\ buffer[p + 2] = "LF"

\* A part of a sequence, by its bounds.
LEMMA PartOf ==
    ASSUME NEW s \in Seq(Bytes), NEW m \in Nat, NEW n \in Nat, m <= n, n <= Len(s)
    PROVE  /\ SubSeq(s, m + 1, n) \in Seq(Bytes)
           /\ Len(SubSeq(s, m + 1, n)) = n - m
           /\ \A i \in 1..(n - m) : SubSeq(s, m + 1, n)[i] = s[m + i]
<1>1. \A i \in (m + 1)..n : s[i] \in Bytes
    BY ElementOfSeq, LenProperties
<1>2. /\ SubSeq(s, m + 1, n) \in Seq(Bytes)
      /\ Len(SubSeq(s, m + 1, n)) = IF m + 1 <= n THEN n - (m + 1) + 1 ELSE 0
      /\ \A i \in 1..(n - (m + 1) + 1) : SubSeq(s, m + 1, n)[i] = s[m + 1 + i - 1]
    BY <1>1, SubSeqProperties
<1>3. n - (m + 1) + 1 = n - m /\ \A i \in 1..(n - m) : m + 1 + i - 1 = m + i
    OBVIOUS
<1>4. QED
    BY <1>2, <1>3

\* A part of what follows an offset is a part of the whole.
LEMMA PartOfARest ==
    ASSUME NEW s \in Seq(Bytes), NEW at \in 0..Len(s),
           NEW m \in Nat, NEW n \in Nat, m <= n, at + n <= Len(s)
    PROVE  SubSeq(SubSeq(s, at + 1, Len(s)), m + 1, n) = SubSeq(s, at + m + 1, at + n)
<1> DEFINE rest == SubSeq(s, at + 1, Len(s))
           part == SubSeq(rest, m + 1, n)
           same == SubSeq(s, at + m + 1, at + n)
<1>0. Len(s) \in Nat /\ at \in Nat /\ at <= Len(s) /\ at + m \in Nat /\ at + n \in Nat
    BY LenProperties
<1>1. /\ rest \in Seq(Bytes) /\ Len(rest) = Len(s) - at
      /\ \A i \in 1..(Len(s) - at) : rest[i] = s[at + i]
    BY <1>0, PartOf
<1> HIDE DEF rest
<1>2. /\ part \in Seq(Bytes) /\ Len(part) = n - m
      /\ \A i \in 1..(n - m) : part[i] = rest[m + i]
    BY <1>0, <1>1, PartOf
<1>3. /\ same \in Seq(Bytes) /\ Len(same) = n - m
      /\ \A i \in 1..(n - m) : same[i] = s[at + m + i]
    <2>1. (at + n) - (at + m) = n - m /\ at + m <= at + n
        BY <1>0
    <2>2. QED
        BY <1>0, <2>1, PartOf
<1> HIDE DEF part, same
<1>4. \A i \in 1..Len(part) : part[i] = same[i]
    <2>1. ASSUME NEW i \in 1..(n - m)
          PROVE  part[i] = same[i]
        <3>1. m + i \in 1..(Len(s) - at) /\ at + (m + i) = at + m + i
            BY <1>0
        <3>2. QED
            BY <1>1, <1>2, <1>3, <3>1
    <2>2. QED
        BY <1>2, <2>1
<1>5. part = same
    BY <1>2, <1>3, <1>4, SeqEqual
<1>6. QED
    BY <1>5 DEF part, same, rest

\* What follows an offset grows with the whole.
LEMMA RestOfLonger ==
    ASSUME NEW s \in Seq(Bytes), NEW at \in 0..Len(s), NEW more \in Seq(Bytes)
    PROVE  SubSeq(s \o more, at + 1, Len(s \o more)) = SubSeq(s, at + 1, Len(s)) \o more
<1> DEFINE longer == s \o more
           rest   == SubSeq(s, at + 1, Len(s))
           left   == SubSeq(longer, at + 1, Len(longer))
           right  == rest \o more
<1>0. Len(s) \in Nat /\ Len(more) \in Nat /\ at \in Nat /\ at <= Len(s)
    BY LenProperties
<1>1. /\ longer \in Seq(Bytes) /\ Len(longer) = Len(s) + Len(more)
      /\ \A i \in 1..(Len(s) + Len(more)) :
             longer[i] = IF i <= Len(s) THEN s[i] ELSE more[i - Len(s)]
    BY ConcatProperties
<1>2. /\ rest \in Seq(Bytes) /\ Len(rest) = Len(s) - at
      /\ \A i \in 1..(Len(s) - at) : rest[i] = s[at + i]
    BY <1>0, PartOf
<1> HIDE DEF longer, rest
<1>3. /\ right \in Seq(Bytes) /\ Len(right) = Len(rest) + Len(more)
      /\ \A i \in 1..(Len(rest) + Len(more)) :
             right[i] = IF i <= Len(rest) THEN rest[i] ELSE more[i - Len(rest)]
    BY <1>2, ConcatProperties
<1>4. /\ left \in Seq(Bytes) /\ Len(left) = Len(longer) - at
      /\ \A i \in 1..(Len(longer) - at) : left[i] = longer[at + i]
    <2>1. at <= Len(longer) /\ Len(longer) \in Nat
        BY <1>0, <1>1
    <2>2. QED
        BY <1>0, <1>1, <2>1, PartOf
<1> HIDE DEF left, right
<1>5. ASSUME NEW i \in 1..Len(left)
      PROVE  left[i] = right[i]
    <2>1. i \in 1..(Len(s) + Len(more) - at) /\ at + i \in 1..(Len(s) + Len(more))
        BY <1>0, <1>1, <1>4
    <2>2. CASE i <= Len(s) - at
        <3>1. at + i <= Len(s) /\ i \in 1..(Len(s) - at) /\ i \in 1..(Len(rest) + Len(more))
            BY <1>0, <1>2, <2>1, <2>2
        <3>2. left[i] = s[at + i]
            BY <1>1, <1>4, <2>1, <3>1
        <3>3. i <= Len(rest) /\ right[i] = rest[i] /\ rest[i] = s[at + i]
            BY <1>2, <1>3, <2>2, <3>1
        <3>4. QED
            BY <3>2, <3>3
    <2>3. CASE i > Len(s) - at
        <3>1. /\ ~(at + i <= Len(s)) /\ ~(i <= Len(rest))
              /\ i \in 1..(Len(rest) + Len(more))
              /\ at + i - Len(s) = i - Len(rest)
            BY <1>0, <1>2, <2>1, <2>3
        <3>2. left[i] = more[at + i - Len(s)]
            BY <1>1, <1>4, <2>1, <3>1
        <3>3. right[i] = more[i - Len(rest)]
            BY <1>3, <3>1
        <3>4. QED
            BY <3>1, <3>2, <3>3
    <2>4. QED
        BY <1>0, <2>1, <2>2, <2>3
<1>6. Len(left) = Len(right)
    BY <1>0, <1>1, <1>2, <1>3, <1>4
<1>7. left = right
    BY <1>3, <1>4, <1>5, <1>6, SeqEqual
<1>8. QED
    BY <1>7 DEF left, right, longer, rest

-----------------------------------------------------------------------------
(* The invariant.                                                          *)

\* Where a search gives up it keeps the last byte, which may be a CR: nothing
\* that arrives later can complete a terminator that begins before scanned_.
HalfTerminatorKept == scanned = begin \/ scanned < Size

ReaderInv == TypeOK /\ NoTerminatorBeforeScanned /\ HalfTerminatorKept

LEMMA InitReaderInv == Init => ReaderInv
BY LineReaderAssumption, EmptySeq
   DEF LineReaderAssumption, Init, ReaderInv, TypeOK, NoTerminatorBeforeScanned,
       HalfTerminatorKept, Size, Results

\* What the invariant says in plain numbers.
LEMMA Offsets ==
    ASSUME ReaderInv
    PROVE  /\ buffer \in Seq(Bytes) /\ Size \in Nat
           /\ begin \in Nat /\ begin <= Size
           /\ scanned \in Nat /\ begin <= scanned /\ scanned <= Size
           /\ total \in Nat /\ total <= MaxTotal /\ MaxTotal \in Nat /\ MaxLine \in Nat
           /\ \A p \in begin..(scanned - 1) : ~CrlfAt(p)
           /\ scanned = begin \/ scanned < Size
BY LineReaderAssumption, LenProperties
   DEF LineReaderAssumption, ReaderInv, TypeOK, NoTerminatorBeforeScanned,
       HalfTerminatorKept, Size, CrlfAt

\* An append, with or without compaction: the unread bytes grow, and both
\* offsets keep their place in them.
LEMMA AppendGrows ==
    ASSUME ReaderInv, NEW bytes \in Chunks, AppendBytes(bytes)
    PROVE  /\ buffer' \in Seq(Bytes) /\ bytes \in Seq(Bytes)
           /\ begin' \in Nat /\ scanned' - begin' = scanned - begin /\ scanned' \in Nat
           /\ begin' <= Size'
           /\ Size' - begin' = Size - begin + Len(bytes)
           /\ Unread' = Unread \o bytes
           /\ \A i \in 1..(Size - begin) : buffer'[begin' + i] = buffer[begin + i]
<1>0. bytes \in Seq(Bytes) /\ Len(bytes) \in Nat
    BY LineReaderAssumption, LenProperties DEF LineReaderAssumption
<1>1. /\ buffer \in Seq(Bytes) /\ Size \in Nat /\ begin \in Nat /\ begin <= Size
      /\ scanned \in Nat /\ begin <= scanned
    BY Offsets
<1>2. /\ Unread \in Seq(Bytes) /\ Len(Unread) = Size - begin
      /\ \A i \in 1..(Size - begin) : Unread[i] = buffer[begin + i]
    BY <1>1, PartOf DEF Unread, Size
<1>3. CASE Compacts
    <2>1. buffer' = Unread \o bytes /\ begin' = 0 /\ scanned' = scanned - begin
        BY <1>3 DEF AppendBytes, Unread
    <2>2. /\ buffer' \in Seq(Bytes) /\ Len(buffer') = Size - begin + Len(bytes)
          /\ \A i \in 1..(Size - begin) : buffer'[i] = Unread[i]
        <3>1. /\ buffer' \in Seq(Bytes) /\ Len(buffer') = Len(Unread) + Len(bytes)
              /\ \A i \in 1..(Len(Unread) + Len(bytes)) :
                     buffer'[i] = IF i <= Len(Unread) THEN Unread[i]
                                                      ELSE bytes[i - Len(Unread)]
            BY <1>0, <1>2, <2>1, ConcatProperties
        <3>2. QED
            BY <1>0, <1>1, <1>2, <3>1
    <2>3. Unread' = buffer'
        <3>1. begin' + 1 = 1
            BY <2>1
        <3>2. SubSeq(buffer', 1, Len(buffer')) = buffer'
            BY <2>2, SubSeqFull
        <3>3. QED
            BY <3>1, <3>2 DEF Unread, Size
    <2>4. \A i \in 1..(Size - begin) : begin' + i = i
        BY <1>1, <2>1
    <2>5. QED
        BY <1>0, <1>1, <1>2, <2>1, <2>2, <2>3, <2>4 DEF Size
<1>4. CASE ~Compacts
    <2>1. buffer' = buffer \o bytes /\ begin' = begin /\ scanned' = scanned
        BY <1>4 DEF AppendBytes
    <2>2. /\ buffer' \in Seq(Bytes) /\ Len(buffer') = Size + Len(bytes)
          /\ \A i \in 1..(Size + Len(bytes)) :
                 buffer'[i] = IF i <= Size THEN buffer[i] ELSE bytes[i - Size]
        BY <1>0, <1>1, <2>1, ConcatProperties DEF Size
    <2>3. \A i \in 1..(Size - begin) : buffer'[begin + i] = buffer[begin + i]
        BY <1>0, <1>1, <2>2
    <2>4. Unread' = Unread \o bytes
        <3>1. begin \in 0..Len(buffer)
            BY <1>1 DEF Size
        <3>2. QED
            BY <1>0, <1>1, <2>1, <3>1, RestOfLonger DEF Unread, Size
    <2>5. QED
        BY <1>0, <1>1, <2>1, <2>2, <2>3, <2>4 DEF Size
<1>5. QED
    BY <1>3, <1>4

\* Where offsets b, s in z bytes go when their prefix is dropped or not and n
\* bytes are added: s stays in reach, and every place before it was one.
LEMMA OffsetsMove ==
    ASSUME NEW b \in Nat, NEW s \in Nat, NEW z \in Nat, b <= s, s <= z, s = b \/ s < z,
           NEW c \in Nat, NEW t \in Nat, NEW y \in Nat, NEW n \in Nat,
           t - c = s - b, y - c = (z - b) + n
    PROVE  /\ t \in c..y /\ (t = c \/ t < y)
           /\ \A p \in c..(t - 1) :
                 \E k \in Nat : /\ p + 1 = c + (k + 1) /\ p + 2 = c + (k + 2)
                                /\ k + 1 \in 1..(z - b) /\ k + 2 \in 1..(z - b)
                                /\ b + k \in b..(s - 1) /\ (b + k) + 2 <= z
                                /\ (b + k) + 1 = b + (k + 1) /\ (b + k) + 2 = b + (k + 2)
<1>1. ASSUME NEW p \in c..(t - 1)
      PROVE  \E k \in Nat : /\ p + 1 = c + (k + 1) /\ p + 2 = c + (k + 2)
                            /\ k + 1 \in 1..(z - b) /\ k + 2 \in 1..(z - b)
                            /\ b + k \in b..(s - 1) /\ (b + k) + 2 <= z
                            /\ (b + k) + 1 = b + (k + 1) /\ (b + k) + 2 = b + (k + 2)
    <2>1. p - c \in Nat /\ p + 1 = c + ((p - c) + 1) /\ p + 2 = c + ((p - c) + 2)
        BY <1>1
    <2>2. /\ b + (p - c) \in b..(s - 1) /\ (b + (p - c)) + 2 <= z
          /\ (p - c) + 1 \in 1..(z - b) /\ (p - c) + 2 \in 1..(z - b)
        BY <1>1
    <2>3. (b + (p - c)) + 1 = b + ((p - c) + 1) /\ (b + (p - c)) + 2 = b + ((p - c) + 2)
        BY <1>1
    <2>4. QED
        BY <2>1, <2>2, <2>3
<1>2. QED
    BY <1>1

\* Appending never completes a terminator before the resume point.
LEMMA AppendKeeps ==
    ASSUME ReaderInv, NEW bytes \in Chunks, AppendBytes(bytes)
    PROVE  ReaderInv'
<1>1. PICK b \in Nat, s \in Nat, z \in Nat : b = begin /\ s = scanned /\ z = Len(buffer)
    BY Offsets DEF Size
<1>2. /\ begin' \in Nat /\ scanned' \in Nat /\ Len(buffer') \in Nat /\ Len(bytes) \in Nat
      /\ buffer' \in Seq(Bytes)
    BY AppendGrows, LenProperties DEF Size
<1>3. PICK c \in Nat, t \in Nat, y \in Nat, n \in Nat :
          c = begin' /\ t = scanned' /\ y = Len(buffer') /\ n = Len(bytes)
    BY <1>2
<1>4. b <= s /\ s <= z /\ (s = b \/ s < z)
    BY <1>1, Offsets DEF Size
<1>5. c <= y /\ t - c = s - b /\ y - c = (z - b) + n
    BY <1>1, <1>3, AppendGrows DEF Size
<1>6. \A i \in 1..(z - b) : buffer'[c + i] = buffer[b + i]
    BY <1>1, <1>3, AppendGrows DEF Size
<1>7. \A p \in b..(s - 1) : ~(p + 2 <= z /\ buffer[p + 1] = "CR" /\ buffer[p + 2] = "LF")
    BY <1>1, Offsets DEF CrlfAt, Size
<1>8. TypeOK'
    <2>1. total' \in 0..MaxTotal
        <3>1. PICK old \in Nat, max \in Nat : old = total /\ max = MaxTotal
            BY Offsets
        <3>2. old + n <= max /\ total' = old + n
            BY <1>3, <3>1 DEF AppendBytes
        <3>3. QED
            BY <3>1, <3>2
    <2>2. result' \in Results
        BY DEF AppendBytes, Results
    <2>3. begin' \in 0..Len(buffer')
        BY <1>3, <1>5
    <2>4. QED
        BY <1>2, <2>1, <2>2, <2>3 DEF TypeOK, Size
<1>9. t \in c..y /\ (t = c \/ t < y)
    BY <1>4, <1>5, OffsetsMove
<1>10. ASSUME NEW p \in c..(t - 1)
       PROVE  ~(p + 2 <= y /\ buffer'[p + 1] = "CR" /\ buffer'[p + 2] = "LF")
    <2>1. PICK k \in Nat : /\ p + 1 = c + (k + 1) /\ p + 2 = c + (k + 2)
                           /\ k + 1 \in 1..(z - b) /\ k + 2 \in 1..(z - b)
                           /\ b + k \in b..(s - 1) /\ (b + k) + 2 <= z
                           /\ (b + k) + 1 = b + (k + 1) /\ (b + k) + 2 = b + (k + 2)
        BY <1>4, <1>5, <1>10, OffsetsMove
    <2>2. buffer'[p + 1] = buffer[(b + k) + 1] /\ buffer'[p + 2] = buffer[(b + k) + 2]
        BY <1>6, <2>1
    <2>3. QED
        BY <1>7, <2>1, <2>2
<1>11. NoTerminatorBeforeScanned'
    BY <1>3, <1>9, <1>10 DEF NoTerminatorBeforeScanned, Size
<1>12. HalfTerminatorKept'
    BY <1>3, <1>9 DEF HalfTerminatorKept, Size
<1>13. QED
    BY <1>8, <1>11, <1>12 DEF ReaderInv

\* The unread bytes, by their length and their elements.
LEMMA UnreadBytes ==
    ASSUME ReaderInv
    PROVE  /\ Unread \in Seq(Bytes) /\ Len(Unread) = Size - begin /\ Len(Unread) \in Nat
           /\ \A i \in 1..(Size - begin) : Unread[i] = buffer[begin + i]
<1>1. buffer \in Seq(Bytes) /\ begin \in Nat /\ Len(buffer) \in Nat /\ begin <= Len(buffer)
    BY Offsets DEF Size
<1>2. /\ Unread \in Seq(Bytes) /\ Len(Unread) = Len(buffer) - begin
      /\ \A i \in 1..(Len(buffer) - begin) : Unread[i] = buffer[begin + i]
    BY <1>1, PartOf DEF Unread, Size
<1>3. QED
    BY <1>2, LenProperties DEF Size

\* A call that consumes n bytes drops them from the stream.
LEMMA ConsumeDrops ==
    ASSUME ReaderInv, NEW n \in Nat, n <= Size - begin,
           begin' = begin + n, scanned' = begin + n, UNCHANGED <<buffer, total>>,
           result' \in Results
    PROVE  ReaderInv' /\ Unread' = Abstract!Drop(Unread, n)
<1>1. PICK b \in Nat, z \in Nat : b = begin /\ z = Len(buffer) /\ b <= z
    BY Offsets DEF Size
<1>2. PICK c \in Nat : c = begin' /\ c = scanned' /\ c = b + n
    BY <1>1
<1>3. c <= z
    BY <1>1, <1>2 DEF Size
<1>4. TypeOK'
    BY <1>1, <1>2, <1>3 DEF ReaderInv, TypeOK, Size
<1>5. NoTerminatorBeforeScanned' /\ HalfTerminatorKept'
    BY <1>1, <1>2, <1>3 DEF NoTerminatorBeforeScanned, HalfTerminatorKept, Size
<1>6. Unread' = Abstract!Drop(Unread, n)
    <2>1. buffer \in Seq(Bytes) /\ b \in 0..Len(buffer)
        BY <1>1, Offsets
    <2>2. Len(Unread) = z - b
        BY <1>1, UnreadBytes DEF Size
    <2>3. z - b \in Nat /\ n <= z - b /\ b + (z - b) = z /\ (b + n) + 1 = b + n + 1
        BY <1>1, <1>2, <1>3
    <2>4. SubSeq(SubSeq(buffer, b + 1, Len(buffer)), n + 1, z - b) =
              SubSeq(buffer, b + n + 1, b + (z - b))
        BY <1>1, <2>1, <2>3, PartOfARest
    <2>5. Unread' = SubSeq(buffer, (b + n) + 1, z)
        BY <1>1, <1>2 DEF Unread, Size
    <2>6. QED
        BY <1>1, <2>2, <2>3, <2>4, <2>5 DEF Unread, Size, Abstract!Drop
<1>7. QED
    BY <1>4, <1>5, <1>6 DEF ReaderInv

\* What is handed out is the head of the stream.
LEMMA HandedOut ==
    ASSUME ReaderInv, NEW n \in Nat, n <= Size - begin
    PROVE  /\ SubSeq(buffer, begin + 1, begin + n) = SubSeq(Unread, 1, n)
           /\ SubSeq(buffer, begin + 1, begin + n) \in Seq(Bytes)
<1>1. PICK b \in Nat, z \in Nat : b = begin /\ z = Len(buffer) /\ b <= z
    BY Offsets DEF Size
<1>2. buffer \in Seq(Bytes) /\ b \in 0..Len(buffer)
    BY <1>1, Offsets
<1>3. 0 \in Nat /\ 0 <= n /\ b + n <= z /\ 0 + 1 = 1 /\ b + 0 + 1 = b + 1 /\ b <= b + n
    BY <1>1 DEF Size
<1>4. SubSeq(SubSeq(buffer, b + 1, Len(buffer)), 0 + 1, n) = SubSeq(buffer, b + 0 + 1, b + n)
    BY <1>1, <1>2, <1>3, PartOfARest
<1>5. SubSeq(buffer, b + 1, b + n) \in Seq(Bytes)
    BY <1>1, <1>2, <1>3, PartOf
<1>6. QED
    BY <1>1, <1>3, <1>4, <1>5 DEF Unread, Size

\* A call that consumes nothing.
LEMMA LooksOnly ==
    ASSUME ReaderInv, UNCHANGED <<buffer, begin, scanned, total>>, result' \in Results
    PROVE  ReaderInv' /\ UNCHANGED Unread
<1>1. TypeOK'
    BY DEF ReaderInv, TypeOK, Size
<1>2. NoTerminatorBeforeScanned' /\ HalfTerminatorKept'
    BY DEF ReaderInv, NoTerminatorBeforeScanned, HalfTerminatorKept, Size
<1>3. QED
    BY <1>1, <1>2 DEF ReaderInv, Unread, Size

-----------------------------------------------------------------------------
(* Each call is the stream's.                                              *)

LEMMA AppendArrives ==
    ASSUME ReaderInv, NEW bytes \in Chunks, AppendBytes(bytes)
    PROVE  Abstract!Arrive
BY AppendGrows DEF AppendBytes, Abstract!Arrive, Unread

LEMMA TakeIsTakeBytes ==
    ASSUME ReaderInv, NEW n \in Counts, Take(n)
    PROVE  ReaderInv' /\ Abstract!TakeBytes
<1>1. n \in Nat /\ Size - begin \in Int /\ Len(Unread) = Size - begin
    BY LineReaderAssumption, UnreadBytes DEF LineReaderAssumption
<1>2. CASE Size - begin < n
    <2>1. UNCHANGED <<buffer, begin, scanned, total>> /\ result' = [kind |-> "nothing yet"]
        BY <1>2 DEF Take
    <2>2. ReaderInv' /\ UNCHANGED Unread
        BY <2>1, LooksOnly DEF Results
    <2>3. ~(n <= Len(Unread))
        BY <1>1, <1>2
    <2>4. QED
        BY <2>1, <2>2, <2>3 DEF Abstract!TakeBytes, Unread
<1>3. CASE ~(Size - begin < n)
    <2>1. n <= Size - begin /\ n <= Len(Unread)
        BY <1>1, <1>3
    <2>2. /\ begin' = begin + n /\ scanned' = begin + n /\ UNCHANGED <<buffer, total>>
          /\ result' = [kind |-> "taken", bytes |-> SubSeq(buffer, begin + 1, begin + n)]
        BY <1>3 DEF Take
    <2>3. result' = [kind |-> "taken", bytes |-> SubSeq(Unread, 1, n)] /\ result' \in Results
        BY <1>1, <2>1, <2>2, HandedOut DEF Results
    <2>4. ReaderInv' /\ Unread' = Abstract!Drop(Unread, n)
        BY <1>1, <2>1, <2>2, <2>3, ConsumeDrops
    <2>5. QED
        BY <2>1, <2>3, <2>4 DEF Abstract!TakeBytes, Unread
<1>4. QED
    BY <1>2, <1>3

LEMMA DiscardIsDiscardBytes ==
    ASSUME ReaderInv, NEW n \in Counts, Discard(n)
    PROVE  ReaderInv' /\ Abstract!DiscardBytes
<1> DEFINE dropped == IF n <= Size - begin THEN n ELSE Size - begin
<1>1. n \in Nat /\ Size - begin \in Nat /\ Len(Unread) = Size - begin
    BY LineReaderAssumption, UnreadBytes DEF LineReaderAssumption
<1>2. dropped \in Nat /\ dropped <= Size - begin
    BY <1>1
<1>3. /\ begin' = begin + dropped /\ scanned' = begin + dropped /\ UNCHANGED <<buffer, total>>
      /\ result' = [kind |-> "dropped", count |-> dropped]
    BY DEF Discard
<1>4. ReaderInv' /\ Unread' = Abstract!Drop(Unread, dropped)
    <2>1. result' \in Results
        BY <1>2, <1>3 DEF Results
    <2> HIDE DEF dropped
    <2>2. QED
        BY <1>2, <1>3, <2>1, ConsumeDrops
<1>5. QED
    BY <1>1, <1>3, <1>4 DEF Abstract!DiscardBytes, Unread

\* A line ends n bytes into the stream where a CRLF begins in the buffer.
LEMMA EndsAreCrlfs ==
    ASSUME ReaderInv
    PROVE  \A n \in Nat : Abstract!EndsAfter(Unread, n) <=> CrlfAt(begin + n)
<1> SUFFICES ASSUME NEW n \in Nat
             PROVE  Abstract!EndsAfter(Unread, n) <=> CrlfAt(begin + n)
    OBVIOUS
<1>1. PICK b \in Nat, z \in Nat : b = begin /\ z = Len(buffer) /\ b <= z
    BY Offsets DEF Size
<1>2. /\ Len(Unread) = z - b
      /\ \A i \in 1..(z - b) : Unread[i] = buffer[b + i]
    BY <1>1, UnreadBytes DEF Size
<1>3. n + 2 <= z - b <=> (b + n) + 2 <= z
    OBVIOUS
<1>4. ASSUME n + 2 <= z - b
      PROVE  Unread[n + 1] = buffer[(b + n) + 1] /\ Unread[n + 2] = buffer[(b + n) + 2]
    <2>1. /\ n + 1 \in 1..(z - b) /\ n + 2 \in 1..(z - b)
          /\ b + (n + 1) = (b + n) + 1 /\ b + (n + 2) = (b + n) + 2
        BY <1>4
    <2>2. QED
        BY <1>2, <2>1
<1>5. QED
    BY <1>1, <1>2, <1>3, <1>4
       DEF CrlfAt, Size, Abstract!EndsAfter, Abstract!CR, Abstract!LF

\* A search from the resume point misses no terminator of the unread bytes.
LEMMA SearchMissesNothing ==
    ASSUME ReaderInv
    PROVE  /\ \A n \in Nat : CrlfAt(begin + n) => begin + n \in CrlfsFrom(scanned)
           /\ \A p \in CrlfsFrom(scanned) : CrlfAt(p) /\ p - begin \in Nat /\ p + 2 <= Size
<1>1. PICK b \in Nat, s \in Nat, z \in Nat :
          b = begin /\ s = scanned /\ z = Len(buffer) /\ b <= s /\ s <= z
    BY Offsets DEF Size
<1>2. \A p \in b..(s - 1) : ~(p + 2 <= z /\ buffer[p + 1] = "CR" /\ buffer[p + 2] = "LF")
    BY <1>1, Offsets DEF CrlfAt, Size
<1>3. CrlfsFrom(scanned) = {p \in s..(z - 2) : buffer[p + 1] = "CR" /\ buffer[p + 2] = "LF"}
    BY <1>1 DEF CrlfsFrom, Size
<1>4. ASSUME NEW n \in Nat, CrlfAt(b + n)
      PROVE  b + n \in CrlfsFrom(scanned)
    <2>1. (b + n) + 2 <= z /\ buffer[(b + n) + 1] = "CR" /\ buffer[(b + n) + 2] = "LF"
        BY <1>1, <1>4 DEF CrlfAt, Size
    <2>2. ~(b + n \in b..(s - 1))
        BY <1>2, <2>1
    <2>3. b + n \in s..(z - 2)
        BY <2>1, <2>2
    <2>4. QED
        BY <1>3, <2>1, <2>3
<1>5. ASSUME NEW p \in CrlfsFrom(scanned)
      PROVE  CrlfAt(p) /\ p - b \in Nat /\ p + 2 <= z
    <2>1. p \in s..(z - 2) /\ buffer[p + 1] = "CR" /\ buffer[p + 2] = "LF"
        BY <1>3, <1>5
    <2>2. p - b \in Nat /\ p + 2 <= z
        BY <1>1, <2>1
    <2>3. QED
        BY <1>1, <2>1, <2>2 DEF CrlfAt, Size
<1>6. QED
    BY <1>1, <1>4, <1>5 DEF Size

LEMMA NoTerminatorReadsNoLine ==
    ASSUME ReaderInv, NoTerminator
    PROVE  ReaderInv' /\ Abstract!ReadLine
<1>1. PICK b \in Nat, s \in Nat, z \in Nat :
          b = begin /\ s = scanned /\ z = Len(buffer) /\ b <= z
    BY Offsets DEF Size
<1>2. Len(Unread) = z - b /\ MaxLine \in Nat /\ UNCHANGED <<buffer, begin, total>>
    BY <1>1, UnreadBytes, Offsets DEF Size, NoTerminator
<1>3. \A n \in Nat : ~CrlfAt(begin + n)
    BY SearchMissesNothing DEF NoTerminator
<1>4. \A n \in 0..Len(Unread) : ~Abstract!EndsAfter(Unread, n)
    BY <1>2, <1>3, EndsAreCrlfs
<1>5. result' = [kind |-> IF Len(Unread) > MaxLine THEN "too long" ELSE "nothing yet"]
    BY <1>1, <1>2 DEF NoTerminator, Size
<1>6. UNCHANGED Unread
    BY <1>2 DEF Unread, Size
<1>7. Abstract!ReadLine
    BY <1>4, <1>5, <1>6 DEF Abstract!ReadLine, Unread
<1>8. TypeOK' /\ HalfTerminatorKept' /\ scanned' \in begin'..Size'
    <2>1. result' \in Results
        BY <1>5 DEF Results
    <2>2. \/ scanned' = scanned
          \/ scanned' = IF z < b + 1 THEN b ELSE z - 1
        BY <1>1 DEF NoTerminator, Size, Lookback
    <2>3. CASE scanned' = scanned
        BY <1>2, <2>1, <2>3
           DEF ReaderInv, TypeOK, HalfTerminatorKept, NoTerminatorBeforeScanned, Size
    <2>4. CASE scanned' = IF z < b + 1 THEN b ELSE z - 1
        <3>1. PICK t \in Nat : t = scanned' /\ t \in b..z /\ (t = b \/ t < z)
            BY <1>1, <2>4
        <3>2. HalfTerminatorKept' /\ scanned' \in begin'..Size'
            BY <1>1, <1>2, <3>1 DEF HalfTerminatorKept, Size
        <3>3. QED
            BY <1>2, <2>1, <3>1, <3>2 DEF ReaderInv, TypeOK, Size
    <2>5. QED
        BY <2>2, <2>3, <2>4
<1>9. ASSUME NEW p \in begin'..(scanned' - 1)
      PROVE  ~(p + 2 <= Size' /\ buffer'[p + 1] = "CR" /\ buffer'[p + 2] = "LF")
    <2>1. PICK n \in Nat : p = b + n
        <3>1. scanned' \in Nat /\ p \in b..(scanned' - 1)
            BY <1>1, <1>2, <1>8, <1>9 DEF TypeOK
        <3>2. PICK t \in Nat : t = scanned'
            BY <3>1
        <3>3. p - b \in Nat /\ p = b + (p - b)
            BY <3>1, <3>2
        <3>4. QED
            BY <3>3
    <2>2. ~CrlfAt(p)
        BY <1>1, <1>3, <2>1
    <2>3. QED
        BY <1>2, <2>2 DEF CrlfAt, Size
<1>10. NoTerminatorBeforeScanned'
    BY <1>8, <1>9 DEF NoTerminatorBeforeScanned
<1>11. QED
    BY <1>7, <1>8, <1>10 DEF ReaderInv

LEMMA TerminatedReadsALine ==
    ASSUME ReaderInv, Terminated
    PROVE  ReaderInv' /\ Abstract!ReadLine
<1>1. PICK b \in Nat, z \in Nat : b = begin /\ z = Len(buffer) /\ b <= z
    BY Offsets DEF Size
<1>2. PICK p \in CrlfsFrom(scanned) :
          /\ IsCrlfPos(p)
          /\ IF p - begin > MaxLine
             THEN result' = [kind |-> "too long"] /\ UNCHANGED <<begin, scanned>>
             ELSE /\ result' = [kind |-> "line", bytes |-> SubSeq(buffer, begin + 1, p)]
                  /\ begin' = p + 2
                  /\ scanned' = p + 2
    BY DEF Terminated
<1>3. UNCHANGED <<buffer, total>>
    BY DEF Terminated
<1>4. PICK n \in Nat : n = p - b /\ p = b + n /\ p + 2 <= z
    <2>1. p - b \in Nat /\ p + 2 <= z
        BY <1>1, SearchMissesNothing DEF Size
    <2>2. p \in Int
        BY <1>1, Offsets DEF CrlfsFrom, Size
    <2>3. p = b + (p - b)
        BY <2>2
    <2>4. QED
        BY <2>1, <2>3
<1>5. Len(Unread) = z - b /\ MaxLine \in Nat /\ n + 2 <= z - b /\ n \in 0..(z - b)
    <2>1. Len(Unread) = z - b /\ MaxLine \in Nat
        BY <1>1, UnreadBytes, Offsets DEF Size
    <2>2. (b + n) + 2 <= z
        BY <1>4
    <2>3. n + 2 <= z - b /\ n \in 0..(z - b)
        BY <1>1, <1>4, <2>2
    <2>4. QED
        BY <2>1, <2>3
<1>6. Abstract!FirstEndsAfter(Unread, n)
    <2>1. Abstract!EndsAfter(Unread, n)
        BY <1>1, <1>4, SearchMissesNothing, EndsAreCrlfs
    <2>2. ASSUME NEW m \in 0..(n - 1), Abstract!EndsAfter(Unread, m)
          PROVE  FALSE
        <3>1. m \in Nat /\ b + m < p
            BY <1>4, <2>2
        <3>2. b + m \in CrlfsFrom(scanned)
            BY <1>1, <2>2, <3>1, EndsAreCrlfs, SearchMissesNothing
        <3>3. p <= b + m
            BY <1>2, <3>2 DEF IsCrlfPos
        <3>4. QED
            BY <1>4, <3>1, <3>3
    <2>3. QED
        BY <2>1, <2>2 DEF Abstract!FirstEndsAfter
<1>7. CASE n > MaxLine
    <2>1. result' = [kind |-> "too long"] /\ UNCHANGED <<begin, scanned>>
        BY <1>1, <1>2, <1>4, <1>7
    <2>2. ReaderInv' /\ UNCHANGED Unread
        BY <1>3, <2>1, LooksOnly DEF Results
    <2>3. QED
        BY <1>5, <1>6, <1>7, <2>1, <2>2 DEF Abstract!ReadLine, Unread
<1>8. CASE ~(n > MaxLine)
    <2>1. /\ result' = [kind |-> "line", bytes |-> SubSeq(buffer, begin + 1, begin + n)]
          /\ begin' = begin + (n + 2) /\ scanned' = begin + (n + 2)
        <3>1. p + 2 = b + (n + 2)
            BY <1>4
        <3>2. QED
            BY <1>1, <1>2, <1>4, <1>8, <3>1
    <2>2. n <= Size - begin /\ n + 2 <= Size - begin /\ n + 2 \in Nat
        BY <1>1, <1>5 DEF Size
    <2>3. result' = [kind |-> "line", bytes |-> SubSeq(Unread, 1, n)] /\ result' \in Results
        BY <2>1, <2>2, HandedOut DEF Results
    <2>4. ReaderInv' /\ Unread' = Abstract!Drop(Unread, n + 2)
        BY <1>3, <2>1, <2>2, <2>3, ConsumeDrops
    <2>5. QED
        BY <1>5, <1>6, <1>8, <2>3, <2>4 DEF Abstract!ReadLine, Unread
<1>9. QED
    BY <1>7, <1>8

-----------------------------------------------------------------------------
(* The theorems.                                                           *)

\* Every call keeps the invariant and is the stream's, whatever came before.
LEMMA NextReads ==
    ReaderInv /\ [Next]_vars => ReaderInv' /\ [Abstract!BNext]_(Abstract!streamVars)
<1> SUFFICES ASSUME ReaderInv, [Next]_vars
             PROVE  ReaderInv' /\ (Abstract!BNext \/ UNCHANGED Abstract!streamVars)
    OBVIOUS
<1>1. ASSUME NEW bytes \in Chunks, AppendBytes(bytes)
      PROVE  ReaderInv' /\ Abstract!BNext
    BY <1>1, AppendKeeps, AppendArrives DEF Abstract!BNext
<1>2. CASE NextLine
    BY <1>2, NoTerminatorReadsNoLine, TerminatedReadsALine DEF NextLine, Abstract!BNext
<1>3. ASSUME NEW n \in Counts, Take(n)
      PROVE  ReaderInv' /\ Abstract!BNext
    BY <1>3, TakeIsTakeBytes DEF Abstract!BNext
<1>4. ASSUME NEW n \in Counts, Discard(n)
      PROVE  ReaderInv' /\ Abstract!BNext
    BY <1>4, DiscardIsDiscardBytes DEF Abstract!BNext
<1>5. CASE UNCHANGED vars
    <2>1. UNCHANGED <<buffer, begin, scanned, total, result>>
        BY <1>5 DEF vars
    <2>2. ReaderInv' /\ UNCHANGED Unread
        BY <2>1, LooksOnly DEF ReaderInv, TypeOK
    <2>3. QED
        BY <2>1, <2>2 DEF Abstract!streamVars, Unread
<1>6. QED
    BY <1>1, <1>2, <1>3, <1>4, <1>5 DEF Next

LEMMA AlwaysReaderInv == Spec => []ReaderInv
<1>1. ReaderInv /\ [Next]_vars => ReaderInv'
    BY NextReads
<1>2. QED
    BY <1>1, InitReaderInv, PTL DEF Spec

\* Every variable keeps its type: offsets never pass the end of the buffer and
\* compaction never takes them below zero (line_reader.cpp:11-19).
THEOREM ReaderTypeCorrect == Spec => []TypeOK
<1>1. ReaderInv => TypeOK
    BY DEF ReaderInv
<1>2. QED
    BY <1>1, AlwaysReaderInv, PTL

\* The resume point lies in the unread bytes and no terminator begins before
\* it, however appends cut a CR from its LF (line_reader.hpp:50-51).
THEOREM NoTerminatorIsSkipped == Spec => []NoTerminatorBeforeScanned
<1>1. ReaderInv => NoTerminatorBeforeScanned
    BY DEF ReaderInv
<1>2. QED
    BY <1>1, AlwaysReaderInv, PTL

(* Buffer, offsets and compaction are the plain byte stream: every call    *)
(* returns what it would on the unread bytes alone, for every cap and any  *)
(* sequence of calls (line_reader.cpp:11-77).                              *)
THEOREM ReaderIsAByteStream == Spec => ImplementsByteStream
<1>1. Init => Abstract!BInit
    BY DEF Init, Abstract!BInit, Size
<1>2. ReaderInv /\ [Next]_vars => [Abstract!BNext]_(Abstract!streamVars)
    BY NextReads
<1>3. QED
    BY <1>1, <1>2, AlwaysReaderInv, PTL DEF Spec, ImplementsByteStream, Abstract!BSpec
=============================================================================
