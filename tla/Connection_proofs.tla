-------------------------- MODULE Connection_proofs --------------------------
(***************************************************************************)
(* Proofs about one connection, for every stream of requests, every limit, *)
(* every size of send buffer and every number of signals.                  *)
(***************************************************************************)
EXTENDS Connection, FiniteSetTheorems, SequenceTheorems, WellFoundedInduction, TLAPS

-----------------------------------------------------------------------------
(* Limits and what is made of them.                                        *)

LEMMA Limits ==
    /\ Longest \in Nat /\ Longest > 0
    /\ IdleLimit \in Nat /\ IdleLimit > 0 /\ IdleLimit <= Longest
    /\ RequestLimit \in Nat /\ RequestLimit > 0 /\ RequestLimit <= Longest
    /\ MaxSignals \in Nat /\ SendBuffer \in Nat /\ SendBuffer > 0 /\ Representable \in Nat
    /\ 2 * Longest \in Nat /\ 0 \in 0..(2 * Longest) /\ Longest + 1 \in Nat
BY ConnectionAssumption, SocketAssumption DEF ConnectionAssumption, SocketAssumption

\* What a deadline comes to when it is read, waited on or renewed.
LEMMA Timeouts ==
    /\ \A limit \in 0..Longest : Timeout(limit) \in {Never} \cup 1..Longest
    /\ \A limit \in 0..Longest : limit > 0 => Timeout(limit) = limit
    /\ Deadline(RequestLimit) \subseteq 0..RequestLimit
    /\ RequestLimit <= Representable => Deadline(RequestLimit) = {RequestLimit}
BY Limits DEF Timeout, Deadline, Never

LEMMA Passing ==
    /\ \A n \in Nat : \A left \in 0..n : Less(left) \in 0..n
    /\ \A left \in {Never} \cup 0..Longest : Less(left) \in {Never} \cup 0..Longest
    /\ \A left \in Nat : left > 0 => Less(left) = left - 1
    /\ Less(0) = 0
BY Limits DEF Less, Never

LEMMA OneTickLess ==
    ASSUME NEW past \in Nat, NEW left \in Nat, NEW now \in Nat, NEW limit \in Nat,
           left > 0, now <= past + 1
    PROVE  /\ past + left <= limit => now + (left - 1) <= limit /\ now + 0 <= limit
           /\ past + left < limit => now + (left - 1) < limit
OBVIOUS

LEMMA Counting ==
    ASSUME NEW cap \in Nat, NEW clock \in 0..cap
    PROVE  /\ More(clock, cap) \in 0..cap
           /\ clock <= More(clock, cap) /\ More(clock, cap) <= clock + 1
           /\ More(clock, cap) = clock + 1 \/ (More(clock, cap) = clock /\ clock = cap)
BY DEF More

\* Room for every restart of every recv.
LEMMA Restarts ==
    ASSUME NEW limit \in Nat, NEW s \in Nat
    PROVE  /\ limit * (1 + s) \in Nat
           /\ limit * (1 + (s + 1)) = limit * (1 + s) + limit
           /\ limit <= limit * (1 + s)
           /\ \A more \in Nat : (limit + more) * (1 + s) = limit * (1 + s) + more * (1 + s)
OBVIOUS

LEMMA WaitedCapType == WaitedCap \in Nat
<1> DEFINE all == RequestLimit + IdleLimit
<1>1. all \in Nat /\ MaxSignals \in Nat
    BY Limits
<1> HIDE DEF all
<1>2. all * (1 + MaxSignals) \in Nat
    BY <1>1, Restarts
<1>3. QED
    BY <1>2 DEF WaitedCap, all

-----------------------------------------------------------------------------
(* Types.                                                                  *)

\* Where the worker is, what it has in hand and where Socket::write is.
ControlInv ==
    /\ call = "none" <=> pc # "write"
    /\ call = "none" => moved = 0
    /\ pc \in {"answer", "write"} => verdict # Nothing
    /\ pc \in {"parse", "arm", "armed", "read"} => verdict = Nothing
    /\ reason = "none" <=> pc # "closed"

LEMMA StreamType == TypeOK => stream \in Seq(Units)
BY ConnectionAssumption DEF ConnectionAssumption, TypeOK

LEMMA WritingType ==
    ASSUME SocketTypeOK, Writing
    PROVE  SocketTypeOK' /\ call' # "none"
<1> USE Limits DEF SocketTypeOK
<1>1. CASE Round
    <2>1. writeLeft \in 0..Longest
        OBVIOUS
    <2>2. Timeout(RoundLimit) \in {Never} \cup 0..Longest
        BY <2>1, Timeouts DEF RoundLimit
    <2>3. QED
        BY <1>1, <2>2 DEF Round, timeVars, peerVars
<1>2. CASE SendMoves
    <2>1. moved + 1 \in 1..Len(unsent) /\ Len(unsent) \in Nat
        BY <1>2, LenProperties DEF SendMoves
    <2>2. unsent[moved + 1] \in {"head", "body"}
        BY <2>1, ElementOfSeq
    <2>3. delivered' \in Seq({"head", "body"}) /\ Len(delivered') = Len(delivered) + 1
        BY <1>2, <2>2, AppendProperties DEF SendMoves
    <2>4. Len(delivered) \in Nat
        BY LenProperties
    <2>5. unread' \in 0..SendBuffer /\ unread' <= Len(delivered')
        BY <1>2, <2>3, <2>4 DEF SendMoves
    <2>6. moved' \in 0..Len(unsent')
        BY <1>2, <2>1 DEF SendMoves
    <2>7. QED
        BY <1>2, <2>3, <2>5, <2>6 DEF SendMoves, timeVars
<1>3. CASE SendReturns \/ SendInterrupted
    <2>1. /\ unsent' = Rest(moved) /\ call' = "round" /\ moved' = 0
          /\ in_time' = FALSE
          /\ UNCHANGED <<writeLeft, sendLeft, blocked, spent, delivered, unread, gone>>
        BY <1>3 DEF SendReturns, SendInterrupted, SendComesBack, peerVars
    <2>2. signals' \in 0..MaxSignals
        BY <1>3 DEF SendReturns, SendInterrupted
    <2>3. Rest(moved) \in Seq({"head", "body"})
        <3>1. Len(unsent) \in Nat /\ moved + 1 \in 1..(Len(unsent) + 1)
            BY LenProperties
        <3>2. QED
            BY <3>1, SubSeqProperties DEF Rest
    <2>4. moved' \in 0..Len(unsent')
        BY <2>1, <2>3, LenProperties
    <2>5. QED
        BY <2>1, <2>2, <2>3, <2>4
<1>4. CASE SendTimesOut \/ SendFails
    BY <1>4 DEF SendTimesOut, SendFails, timeVars, peerVars
<1>5. CASE SendBegins
    BY <1>5 DEF SendBegins, peerVars
<1>6. QED
    BY <1>1, <1>2, <1>3, <1>4, <1>5 DEF Writing, SendEnds

LEMMA WriteBeginsType ==
    ASSUME SocketTypeOK, moved = 0, NEW with_body, Write(Serialize(with_body), RequestLimit)
    PROVE  SocketTypeOK' /\ call' = "round"
<1>1. unsent' \in Seq({"head", "body"})
    <2>1. <<"head", "body">> \in Seq({"head", "body"}) /\ <<"head">> \in Seq({"head", "body"})
        OBVIOUS
    <2>2. Serialize(with_body) \in {<<"head", "body">>, <<"head">>}
        BY DEF Serialize
    <2>3. QED
        BY <2>1, <2>2 DEF Write
<1>2. writeLeft' \in 0..Longest
    BY Limits, Timeouts DEF Write
<1>3. moved' \in 0..Len(unsent')
    BY <1>1, LenProperties DEF Write
<1>4. QED
    BY <1>1, <1>2, <1>3, Limits DEF SocketTypeOK, Write, peerVars

LEMMA WriteReturnsType ==
    ASSUME SocketTypeOK, NEW how, WriteReturns(how)
    PROVE  SocketTypeOK' /\ call' = "none" /\ moved' = 0
<1>1. unsent' = <<>> /\ moved' \in 0..Len(unsent')
    BY DEF WriteReturns
<1>2. /\ spent' \in 0..(2 * Longest) /\ blocked' \in 0..(Longest + 1)
      /\ writeLeft' \in 0..Longest /\ sendLeft' \in {Never} \cup 0..Longest
    BY Limits DEF WriteReturns
<1>3. unsent' \in Seq({"head", "body"}) /\ in_time' \in BOOLEAN
    BY <1>1, EmptySeq DEF WriteReturns
<1>4. /\ call' = "none" /\ moved' = 0
      /\ UNCHANGED <<delivered, unread, gone, signals>>
    BY DEF WriteReturns, peerVars
<1>5. QED
    BY <1>1, <1>2, <1>3, <1>4 DEF SocketTypeOK

LEMMA PeerReadsType ==
    ASSUME SocketTypeOK, PeerReads
    PROVE  SocketTypeOK'
<1>1. Len(delivered) \in Nat
    BY LenProperties DEF SocketTypeOK
<1>2. QED
    BY <1>1, Limits DEF SocketTypeOK, PeerReads, sendVars, timeVars

LEMMA SocketTickType ==
    ASSUME SocketTypeOK, SocketTick
    PROVE  SocketTypeOK' /\ call' = call /\ moved' = moved
<1>1. /\ writeLeft' \in 0..Longest
      /\ Less(sendLeft) \in {Never} \cup 0..Longest
    BY Limits, Passing DEF SocketTypeOK, SocketTick
<1>2. blocked' \in 0..(Longest + 1)
    <2>1. blocked \in 0..(Longest + 1)
        BY DEF SocketTypeOK
    <2>2. More(blocked, Longest + 1) \in 0..(Longest + 1)
        BY <2>1, Limits, Counting
    <2>3. QED
        BY <2>1, <2>2 DEF SocketTick
<1>3. spent' \in 0..(2 * Longest)
    <2>1. spent \in 0..(2 * Longest)
        BY DEF SocketTypeOK
    <2>2. More(spent, 2 * Longest) \in 0..(2 * Longest)
        BY <2>1, Limits, Counting
    <2>3. QED
        BY <2>1, <2>2 DEF SocketTick
<1>4. QED
    BY <1>1, <1>2, <1>3 DEF SocketTypeOK, SocketTick, peerVars

TypeInv == TypeOK /\ ControlInv

LEMMA InitType == Init => TypeInv
<1> SUFFICES ASSUME Init PROVE TypeInv
    OBVIOUS
<1>1. SocketTypeOK
    <2>1. /\ writeLeft \in 0..Longest /\ sendLeft \in {Never} \cup 0..Longest
          /\ blocked \in 0..(Longest + 1) /\ spent \in 0..(2 * Longest)
          /\ unread \in 0..SendBuffer /\ signals \in 0..MaxSignals
        BY Limits DEF Init, SocketInit
    <2>2. /\ unsent \in Seq({"head", "body"}) /\ delivered \in Seq({"head", "body"})
          /\ moved \in 0..Len(unsent) /\ unread <= Len(delivered)
        BY EmptySeq DEF Init, SocketInit
    <2>3. in_time \in BOOLEAN /\ gone \in BOOLEAN
        BY DEF Init, SocketInit
    <2>4. call = "none"
        BY DEF Init, SocketInit
    <2>5. QED
        BY <2>1, <2>2, <2>3, <2>4 DEF SocketTypeOK
<1>2. stream \in Seq(Units) /\ sent \in 0..Len(stream)
    BY ConnectionAssumption, LenProperties DEF ConnectionAssumption, Init
<1>3. requestLeft \in 0..RequestLimit /\ age \in 0..RequestLimit /\ waited \in 0..WaitedCap
    BY Limits, WaitedCapType DEF Init
<1>4. /\ wire \in Seq(Units) /\ buffered \in Seq(Units)
      /\ replies \in Seq([to : Units \cup {Late}, close : BOOLEAN])
    BY EmptySeq DEF Init
<1>5. TypeOK
    BY <1>1, <1>2, <1>3, <1>4 DEF TypeOK, Init
<1>6. ControlInv
    BY DEF ControlInv, Init, SocketInit
<1>7. QED
    BY <1>5, <1>6 DEF TypeInv

LEMMA ClientType ==
    ASSUME TypeInv, Send \/ Fin \/ ClientReads
    PROVE  TypeInv'
<1> USE DEF TypeInv
<1>1. CASE Send
    <2>1. sent + 1 \in 1..Len(stream) /\ stream[sent + 1] \in Units
        <3>1. stream \in Seq(Units) /\ Len(stream) \in Nat /\ sent \in Nat /\ sent < Len(stream)
            BY <1>1, StreamType, LenProperties DEF Send, TypeOK
        <3>2. sent + 1 \in 1..Len(stream)
            BY <3>1
        <3>3. QED
            BY <3>1, <3>2, ElementOfSeq
    <2>2. wire' \in Seq(Units)
        BY <1>1, <2>1, AppendProperties DEF Send, TypeOK
    <2>3. sent' \in 0..Len(stream)
        BY <1>1, <2>1 DEF Send, TypeOK
    <2>4. QED
        BY <1>1, <2>2, <2>3
           DEF Send, TypeOK, ControlInv, SocketTypeOK, readerVars, clockVars, ageVars, socketVars,
               sendVars, timeVars, peerVars
<1>2. CASE Fin
    BY <1>2 DEF Fin, TypeOK, ControlInv, SocketTypeOK, readerVars, clockVars, ageVars, socketVars,
                sendVars, timeVars, peerVars
<1>3. CASE ClientReads
    <2>1. SocketTypeOK' /\ UNCHANGED <<call, moved>>
        BY <1>3, PeerReadsType DEF ClientReads, TypeOK, PeerReads, sendVars, timeVars
    <2>2. QED
        BY <1>3, <2>1 DEF ClientReads, TypeOK, ControlInv, clientVars, readerVars, clockVars, ageVars
<1>4. QED
    BY <1>1, <1>2, <1>3

LEMMA SocketUntouched ==
    ASSUME SocketTypeOK, UNCHANGED socketVars
    PROVE  SocketTypeOK' /\ UNCHANGED <<call, moved>>
BY DEF SocketTypeOK, socketVars, sendVars, timeVars, peerVars

\* The clocks start over or stand still.
LEMMA ClocksMove ==
    /\ \A units : RequestsEnd(units) => (age' = 0 /\ waited' = 0) \/ (age' = age /\ waited' = waited)
    /\ RequestContinues => (age' = 0 /\ waited' = 0 /\ ~partial) \/ (age' = age /\ waited' = waited /\ partial)
BY DEF RequestsEnd, RequestContinues, ageVars

\* The first result among the units buffered, or none.
LEMMA ParseFinds ==
    ASSUME TypeInv, Parse
    PROVE  \/ \E i \in 1..Len(buffered) :
                  /\ IsResult(buffered[i]) /\ buffered[i] \in Units
                  /\ \A j \in 1..(i - 1) : ~IsResult(buffered[j])
                  /\ verdict' = buffered[i]
                  /\ buffered' = SubSeq(buffered, i + 1, Len(buffered))
                  /\ partial' = (buffered[i].what = "refused")
                  /\ in_progress' = FlagAfter(buffered[i])
                  /\ requestLeft' = IF in_progress' THEN requestLeft ELSE 0
                  /\ RequestsEnd(SubSeq(buffered, 1, i))
                  /\ pc' = "answer"
           \/ /\ \A i \in 1..Len(buffered) : ~IsResult(buffered[i])
              /\ buffered' = <<>>
              /\ partial' = IF buffered = <<>> THEN partial ELSE Last(buffered).what # "drained"
              /\ pc' = "arm"
              /\ RequestsEnd(buffered)
              /\ UNCHANGED <<in_progress, requestLeft, verdict>>
<1>1. buffered \in Seq(Units) /\ Len(buffered) \in Nat
    BY LenProperties DEF TypeInv, TypeOK
<1>2. \A i \in 1..Len(buffered) : buffered[i] \in Units
    BY <1>1, ElementOfSeq
<1> DEFINE at == {i \in 1..Len(buffered) : IsResult(buffered[i])}
<1>3. ASSUME NEW i \in at, \A j \in at : i <= j
      PROVE  \A j \in 1..(i - 1) : ~IsResult(buffered[j])
    BY <1>1, <1>3
<1>4. QED
    BY <1>2, <1>3 DEF Parse

LEMMA ParseType ==
    ASSUME TypeInv, Parse
    PROVE  TypeInv'
<1> USE DEF TypeInv
<1>1. SocketTypeOK' /\ UNCHANGED <<call, moved>> /\ pc = "parse"
    BY SocketUntouched DEF Parse, TypeOK
<1>2. /\ UNCHANGED <<stream, eager, sent, fin, wire, readTimeout, readLeft, replies, reason>>
    BY DEF Parse, clientVars
<1>3. buffered \in Seq(Units) /\ Len(buffered) \in Nat
    BY LenProperties DEF TypeOK
<1>4. 0 \in 0..RequestLimit
    BY Limits
<1>5. /\ buffered' \in Seq(Units)
      /\ partial' \in BOOLEAN /\ in_progress' \in BOOLEAN
      /\ requestLeft' \in 0..RequestLimit
      /\ \/ pc' = "answer" /\ verdict' \in Units /\ verdict' # Nothing
         \/ pc' = "arm" /\ verdict' = verdict
    <2>1. ASSUME NEW i \in 1..Len(buffered), IsResult(buffered[i])
          PROVE  /\ SubSeq(buffered, i + 1, Len(buffered)) \in Seq(Units)
                 /\ buffered[i] # Nothing
        <3>1. SubSeq(buffered, i + 1, Len(buffered)) \in Seq(Units)
            BY <1>3, SubSeqProperties
        <3>2. QED
            BY <2>1, <3>1 DEF IsResult, Results, Nothing
    <2>2. \A r : FlagAfter(r) \in BOOLEAN
        BY DEF FlagAfter, TypeOK
    <2>3. CASE pc' = "answer"
        <3>1. PICK i \in 1..Len(buffered) :
                  /\ IsResult(buffered[i]) /\ buffered[i] \in Units
                  /\ verdict' = buffered[i]
                  /\ buffered' = SubSeq(buffered, i + 1, Len(buffered))
                  /\ partial' = (buffered[i].what = "refused")
                  /\ in_progress' = FlagAfter(buffered[i])
                  /\ requestLeft' = IF in_progress' THEN requestLeft ELSE 0
            BY <2>3, ParseFinds
        <3>2. buffered' \in Seq(Units) /\ verdict' # Nothing /\ in_progress' \in BOOLEAN
            BY <2>1, <2>2, <3>1
        <3>3. requestLeft' \in 0..RequestLimit
            BY <1>4, <3>1 DEF TypeOK
        <3>4. QED
            BY <2>3, <3>1, <3>2, <3>3
    <2>4. CASE pc' # "answer"
        <3>1. /\ buffered' = <<>> /\ pc' = "arm"
              /\ partial' = IF buffered = <<>> THEN partial ELSE Last(buffered).what # "drained"
              /\ UNCHANGED <<in_progress, requestLeft, verdict>>
            BY <2>4, ParseFinds
        <3>2. buffered' \in Seq(Units)
            BY <3>1, EmptySeq
        <3>3. partial' \in BOOLEAN
            BY <3>1 DEF TypeOK
        <3>4. QED
            BY <3>1, <3>2, <3>3 DEF TypeOK
    <2>5. QED
        BY <2>3, <2>4
<1>6. age' \in 0..RequestLimit /\ waited' \in 0..WaitedCap
    <2>1. (age' = 0 /\ waited' = 0) \/ (age' = age /\ waited' = waited)
        BY ParseFinds, ClocksMove
    <2>2. QED
        BY <2>1, Limits, WaitedCapType DEF TypeOK
<1>7. TypeOK'
    BY <1>1, <1>2, <1>5, <1>6 DEF TypeOK
<1>8. ControlInv'
    BY <1>1, <1>2, <1>5 DEF ControlInv
<1>9. QED
    BY <1>7, <1>8

\* What is waited for is never nothing.
LEMMA ReadLimitType ==
    ASSUME TypeOK, in_progress => HasTimeLeft(requestLeft)
    PROVE  /\ ReadLimit \in 1..Longest
           /\ Timeout(ReadLimit) = ReadLimit
<1>1. ReadLimit \in 1..Longest
    BY Limits DEF TypeOK, HasTimeLeft, ReadLimit
<1>2. QED
    BY <1>1, Limits, Timeouts

LEMMA ReadType ==
    ASSUME TypeInv,
           \/ Arm \/ RecvBegins \/ Read \/ ReadInterrupted \/ ReadEnds \/ ReadFails
           \/ ReadTimesOut \/ ReadGivesUp
    PROVE  TypeInv'
<1> USE DEF TypeInv
<1>1. CASE Arm
    <2>1. SocketTypeOK' /\ UNCHANGED <<call, moved>> /\ pc = "arm"
        BY <1>1, SocketUntouched DEF Arm, TypeOK
    <2>2. CASE in_progress /\ ~HasTimeLeft(requestLeft)
        BY <1>1, <2>1, <2>2
           DEF Arm, TimedOut, End, TypeOK, ControlInv, clientVars, readerVars, ageVars, Late, Nothing
    <2>3. CASE ~(in_progress /\ ~HasTimeLeft(requestLeft))
        <3>1. Timeout(ReadLimit) \in 1..Longest
            BY <2>3, ReadLimitType
        <3>2. readTimeout' \in 1..Longest
            BY <1>1, <2>3, <3>1 DEF Arm
        <3>3. QED
            BY <1>1, <2>1, <2>3, <3>2 DEF Arm, TypeOK, ControlInv, clientVars, readerVars, ageVars
    <2>4. QED
        BY <2>2, <2>3
<1>2. CASE Read
    <2>1. SocketTypeOK' /\ UNCHANGED <<call, moved>> /\ pc = "read"
        BY <1>2, SocketUntouched DEF Read, TypeOK
    <2>2. PICK n \in 1..Len(wire) : /\ Receives(SubSeq(wire, 1, n))
                                    /\ wire' = SubSeq(wire, n + 1, Len(wire))
        BY <1>2 DEF Read
    <2>3. /\ SubSeq(wire, 1, n) \in Seq(Units)
          /\ SubSeq(wire, n + 1, Len(wire)) \in Seq(Units)
        <3>1. wire \in Seq(Units) /\ Len(wire) \in Nat
            BY LenProperties DEF TypeOK
        <3>2. QED
            BY <3>1, SubSeqProperties
    <2>4. buffered' \in Seq(Units)
        BY <2>2, <2>3, ConcatProperties DEF Receives, TypeOK
    <2>5. requestLeft' \in 0..RequestLimit /\ age' \in 0..RequestLimit /\ waited' \in 0..WaitedCap
        <3>1. 0 \in 0..RequestLimit /\ 0 \in 0..WaitedCap
            BY Limits, WaitedCapType
        <3>2. (age' = 0 /\ waited' = 0) \/ (age' = age /\ waited' = waited)
            BY <2>2, ClocksMove DEF Receives
        <3>3. QED
            BY <2>2, <3>1, <3>2, Timeouts DEF Receives, TypeOK
    <2>6. QED
        BY <1>2, <2>1, <2>2, <2>3, <2>4, <2>5
           DEF Read, Receives, RecvEnds, TypeOK, ControlInv, clientVars
<1>3. CASE ReadInterrupted
    <2>1. SocketTypeOK' /\ UNCHANGED <<call, moved>>
        BY <1>3, Limits DEF ReadInterrupted, TypeOK, SocketTypeOK, sendVars, timeVars, peerVars
    <2>2. readLeft' \in {Never} \cup 0..Longest
        BY <1>3, Limits DEF ReadInterrupted, TypeOK
    <2>3. QED
        BY <1>3, <2>1, <2>2 DEF ReadInterrupted, TypeOK, ControlInv, clientVars, readerVars, ageVars
<1>4. CASE ReadEnds \/ ReadFails
    <2>1. SocketTypeOK' /\ UNCHANGED <<call, moved>> /\ pc \in {"arm", "read"}
        BY <1>4, SocketUntouched DEF ReadEnds, ReadFails, TypeOK
    <2>2. QED
        BY <1>4, <2>1
           DEF ReadEnds, ReadFails, End, RecvEnds, TypeOK, ControlInv, clientVars, readerVars, ageVars
<1>5. CASE ReadTimesOut
    <2>1. SocketTypeOK' /\ UNCHANGED <<call, moved>> /\ pc = "read"
        BY <1>5, SocketUntouched DEF ReadTimesOut, TypeOK
    <2>2. QED
        BY <1>5, <2>1
           DEF ReadTimesOut, TimedOut, End, RecvEnds, TypeOK, ControlInv, clientVars, readerVars,
               ageVars, Late, Nothing
<1>6. CASE ReadGivesUp
    <2>1. SocketTypeOK' /\ UNCHANGED <<call, moved>> /\ pc = "read"
        BY <1>6 DEF ReadGivesUp, TypeOK, SocketTypeOK, sendVars, timeVars
    <2>2. QED
        BY <1>6, <2>1
           DEF ReadGivesUp, TimedOut, End, RecvEnds, TypeOK, ControlInv, clientVars, readerVars,
               ageVars, Late, Nothing
<1>7. CASE RecvBegins
    <2>1. SocketTypeOK' /\ UNCHANGED <<call, moved>> /\ pc = "armed"
        BY <1>7, SocketUntouched DEF RecvBegins, TypeOK
    <2>2. readLeft' \in {Never} \cup 0..Longest
        BY <1>7, Limits DEF RecvBegins, TypeOK
    <2>3. QED
        BY <1>7, <2>1, <2>2 DEF RecvBegins, TypeOK, ControlInv, clientVars, readerVars, ageVars
<1>8. QED
    BY <1>1, <1>2, <1>3, <1>4, <1>5, <1>6, <1>7

LEMMA AnswerType ==
    ASSUME TypeInv, Answer \/ WriteStep \/ Answered \/ WriteFails
    PROVE  TypeInv'
<1> USE DEF TypeInv
<1>1. CASE Answer
    <2>1. pc = "answer" /\ moved = 0
        BY <1>1 DEF Answer, ControlInv
    <2>2. SocketTypeOK' /\ call' = "round"
        BY <1>1, <2>1, WriteBeginsType DEF Answer, TypeOK
    <2>3. QED
        BY <1>1, <2>1, <2>2 DEF Answer, TypeOK, ControlInv, clientVars, readerVars, clockVars, ageVars
<1>2. CASE WriteStep
    <2>1. SocketTypeOK' /\ call' # "none" /\ pc = "write"
        BY <1>2, WritingType
           DEF WriteStep, TypeOK, ControlInv, Writing, Round, SendBegins, SendEnds, SendMoves,
               SendReturns, SendTimesOut, SendInterrupted, SendFails
    <2>2. QED
        BY <1>2, <2>1 DEF WriteStep, TypeOK, ControlInv, clientVars, readerVars, clockVars, ageVars
<1>3. CASE Answered
    <2>1. SocketTypeOK' /\ call' = "none" /\ moved' = 0 /\ pc = "write"
        BY <1>3, WriteReturnsType DEF Answered, TypeOK, ControlInv, WriteReturns
    <2>2. verdict \in Units \cup {Late}
        BY <2>1 DEF TypeOK, ControlInv
    <2>3. Closing(verdict) \in BOOLEAN
        BY DEF Closing, ClientWantsClose
    <2>4. replies' \in Seq([to : Units \cup {Late}, close : BOOLEAN])
        <3>1. [to |-> verdict, close |-> Closing(verdict)] \in [to : Units \cup {Late}, close : BOOLEAN]
            BY <2>2, <2>3
        <3>2. QED
            BY <1>3, <3>1, AppendProperties DEF Answered, TypeOK
    <2>5. QED
        BY <1>3, <2>1, <2>4 DEF Answered, End, TypeOK, ControlInv, clientVars, readerVars, clockVars, ageVars
<1>4. CASE WriteFails
    <2>1. SocketTypeOK' /\ call' = "none" /\ moved' = 0 /\ pc = "write"
        BY <1>4, WriteReturnsType DEF WriteFails, TypeOK, ControlInv, WriteReturns
    <2>2. QED
        BY <1>4, <2>1 DEF WriteFails, End, TypeOK, ControlInv, clientVars, readerVars, clockVars, ageVars
<1>5. QED
    BY <1>1, <1>2, <1>3, <1>4

LEMMA TickType ==
    ASSUME TypeInv, Tick
    PROVE  TypeInv'
<1> USE DEF TypeInv
<1>1. SocketTypeOK' /\ call' = call /\ moved' = moved
    BY SocketTickType DEF Tick, TypeOK
<1>2. /\ requestLeft' \in 0..RequestLimit
      /\ readLeft' \in {Never} \cup 0..Longest
    BY Limits, Passing DEF Tick, TypeOK
<1>3. age' \in 0..RequestLimit /\ waited' \in 0..WaitedCap
    BY Limits, WaitedCapType, Counting DEF Tick, TypeOK
<1>4. QED
    BY <1>1, <1>2, <1>3 DEF Tick, TypeOK, ControlInv, clientVars, readerVars

LEMMA NextType == TypeInv /\ [Next]_vars => TypeInv'
<1> SUFFICES ASSUME TypeInv, [Next]_vars
             PROVE  TypeInv'
    OBVIOUS
<1>1. CASE UNCHANGED vars
    BY <1>1 DEF vars, clientVars, readerVars, clockVars, ageVars, socketVars, sendVars, timeVars, peerVars,
                TypeInv, TypeOK, SocketTypeOK, ControlInv
<1>2. QED
    BY <1>1, ClientType, ParseType, ReadType, AnswerType, TickType
       DEF Next, ServerStep, Closed

LEMMA TypeInvariant == Spec => []TypeInv
BY InitType, NextType, PTL DEF Spec

\* Every variable of the connection stays in its type: no timeout is negative,
\* none is longer than the limits, no send moves more than it was given
\* (socket.cpp:55-108, connection.cpp:15-73).
THEOREM ConnectionTypeCorrect == Spec => []TypeOK
<1>1. TypeInv => TypeOK
    BY DEF TypeInv
<1>2. QED
    BY <1>1, TypeInvariant, PTL

-----------------------------------------------------------------------------
(* One deadline over a whole write.                                        *)

\* What a write has spent in send and what the send may still take are the limit
\* at most, and by the clock it is on time until the deadline; a send that began
\* before it ends before as much again is over.
SendInv ==
    /\ blocked + writeLeft <= RequestLimit
    /\ call \in {"armed", "send"} => sendLeft >= 0 /\ blocked + sendLeft <= RequestLimit
    /\ writeLeft > 0 => spent + writeLeft <= RequestLimit
    /\ call = "send" /\ in_time => spent + sendLeft < 2 * RequestLimit

LEMMA SendTypes ==
    TypeInv => /\ writeLeft \in Nat /\ blocked \in Nat /\ spent \in Nat
               /\ writeLeft \in 0..Longest
               /\ blocked \in 0..(Longest + 1) /\ spent \in 0..(2 * Longest)
               /\ sendLeft \in Int /\ sendLeft \in {Never} \cup 0..Longest
<1> SUFFICES ASSUME TypeInv PROVE
        /\ writeLeft \in 0..Longest
        /\ blocked \in 0..(Longest + 1) /\ spent \in 0..(2 * Longest)
        /\ sendLeft \in {Never} \cup 0..Longest
    BY Limits DEF Never
<1>1. QED
    BY DEF TypeInv, TypeOK, SocketTypeOK

LEMMA SendWrites ==
    ASSUME TypeInv, SendInv, WriteStep
    PROVE  SendInv'
<1>0. /\ UNCHANGED <<writeLeft, blocked, spent>>
      /\ RequestLimit \in Nat
    BY Limits DEF WriteStep, Writing, Round, SendBegins, SendEnds, SendMoves, SendReturns, SendTimesOut,
                  SendInterrupted, SendFails, SendComesBack, timeVars
<1>1. CASE Round
    <2>1. call' = "armed" => sendLeft' = Timeout(writeLeft) /\ writeLeft > 0
        BY <1>1 DEF Round, RoundLimit, HasTimeLeft
    <2>2. call' = "armed" => sendLeft' = writeLeft
        BY <2>1, SendTypes, Timeouts
    <2>3. call' # "send"
        BY <1>1 DEF Round
    <2>4. QED
        BY <1>0, <2>2, <2>3, SendTypes DEF SendInv
<1>2. CASE SendBegins
    <2>1. call = "armed" /\ in_time' = (writeLeft > 0) /\ UNCHANGED sendLeft
        BY <1>2 DEF SendBegins
    <2>2. PICK l \in Nat, b \in Nat, s \in Nat, w \in Nat :
              l = sendLeft /\ b = blocked /\ s = spent /\ w = writeLeft /\ b + l <= RequestLimit
        BY <2>1, SendTypes DEF SendInv
    <2>3. w > 0 => s + w <= RequestLimit
        BY <2>2 DEF SendInv
    <2>4. w > 0 => s + l < 2 * RequestLimit
        BY <1>0, <2>2, <2>3
    <2>5. QED
        BY <1>0, <2>1, <2>2, <2>4 DEF SendInv
<1>3. CASE SendMoves
    BY <1>0, <1>3 DEF SendMoves, SendInv, timeVars
<1>4. CASE SendReturns \/ SendTimesOut \/ SendInterrupted \/ SendFails
    <2>1. call' \in {"round", "failed"}
        BY <1>4 DEF SendReturns, SendTimesOut, SendInterrupted, SendFails, SendComesBack
    <2>2. QED
        BY <1>0, <2>1 DEF SendInv
<1>5. QED
    BY <1>1, <1>2, <1>3, <1>4 DEF WriteStep, Writing, SendEnds

LEMMA SendTicks ==
    ASSUME TypeInv, SendInv, Tick
    PROVE  SendInv'
<1>0. /\ SendMayWait /\ call' = call /\ in_time' = in_time
      /\ writeLeft' = Less(writeLeft)
      /\ IF call = "send" THEN sendLeft' = Less(sendLeft) /\ blocked' = More(blocked, Longest + 1)
                          ELSE UNCHANGED <<sendLeft, blocked>>
      /\ spent' = IF call \in {"round", "armed", "send"} THEN More(spent, 2 * Longest) ELSE spent
    BY DEF Tick, SocketTick
<1>1. PICK w \in Nat, b \in Nat, s \in Nat, R \in Nat :
          /\ w = writeLeft /\ b = blocked /\ s = spent /\ R = RequestLimit
          /\ b + w <= R /\ (w > 0 => s + w <= R)
    BY SendTypes, Limits DEF SendInv
<1>2. PICK w1 \in Nat : w1 = writeLeft' /\ w1 = IF w > 0 THEN w - 1 ELSE 0
    BY <1>0, <1>1 DEF Less
<1>3. PICK s1 \in Nat : s1 = spent' /\ s1 <= s + 1
    <2>1. /\ More(spent, 2 * Longest) \in 0..(2 * Longest)
          /\ More(spent, 2 * Longest) <= spent + 1
        BY SendTypes, Limits, Counting
    <2>2. QED
        BY <1>0, <1>1, <2>1, Limits
<1>4. w1 > 0 => s1 + w1 <= R
    <2>1. SUFFICES ASSUME w1 > 0 PROVE s1 + w1 <= R
        OBVIOUS
    <2>2. w > 0 /\ w1 = w - 1
        BY <1>2, <2>1
    <2>3. s + w <= R
        BY <1>1, <2>2
    <2>4. QED
        BY <1>3, <2>2, <2>3, OneTickLess
<1>5. CASE call # "send"
    BY <1>0, <1>1, <1>2, <1>3, <1>4, <1>5 DEF SendInv
<1>6. CASE call = "send"
    <2>1. PICK l \in Nat : l = sendLeft /\ l > 0 /\ b + l <= R
        <3>1. sendLeft \in Int /\ sendLeft >= 0 /\ blocked + sendLeft <= RequestLimit
            BY <1>6, SendTypes DEF SendInv
        <3>2. sendLeft # 0
            BY <1>0, <1>6 DEF SendMayWait
        <3>3. sendLeft \in Nat /\ sendLeft > 0
            BY <3>1, <3>2
        <3>4. QED
            BY <1>1, <3>1, <3>3
    <2>2. PICK l1 \in Nat : l1 = sendLeft' /\ l1 = l - 1
        BY <1>0, <1>6, <2>1 DEF Less
    <2>3. PICK b1 \in Nat : b1 = blocked' /\ b1 <= b + 1
        <3>1. /\ More(blocked, Longest + 1) \in 0..(Longest + 1)
              /\ More(blocked, Longest + 1) <= blocked + 1
            BY SendTypes, Limits, Counting
        <3>2. QED
            BY <1>0, <1>1, <1>6, <3>1, Limits
    <2>4. b1 + l1 <= R /\ b1 + w1 <= R
        <3>1. b1 + (l - 1) <= R /\ b1 + 0 <= R
            BY <2>1, <2>3, OneTickLess
        <3>2. w > 0 => b1 + (w - 1) <= R
            BY <1>1, <2>3, OneTickLess
        <3>3. QED
            BY <1>2, <2>2, <3>1, <3>2
    <2>5. ASSUME in_time' PROVE s1 + l1 < 2 * R
        <3>1. spent + sendLeft < 2 * RequestLimit
            BY <1>0, <1>6, <2>5 DEF SendInv
        <3>2. s + l < 2 * R /\ 2 * R \in Nat
            BY <1>1, <2>1, <3>1
        <3>3. s1 + (l - 1) < 2 * R
            BY <1>3, <2>1, <3>2, OneTickLess
        <3>4. QED
            BY <2>2, <3>3
    <2>6. /\ blocked' + writeLeft' <= RequestLimit
          /\ sendLeft' >= 0 /\ blocked' + sendLeft' <= RequestLimit
          /\ writeLeft' > 0 => spent' + writeLeft' <= RequestLimit
        <3>1. blocked' = b1 /\ writeLeft' = w1 /\ spent' = s1 /\ sendLeft' = l1 /\ RequestLimit = R
            BY <1>1, <1>2, <1>3, <2>2, <2>3
        <3>2. l1 >= 0
            BY <2>2
        <3>3. QED
            BY <1>4, <2>4, <3>1, <3>2, Zenon
    <2>7. ASSUME in_time' PROVE spent' + sendLeft' < 2 * RequestLimit
        <3>1. s1 + l1 < 2 * R
            BY <2>5, <2>7
        <3>2. QED
            BY <1>1, <1>3, <2>2, <3>1
    <2>8. QED
        BY <2>6, <2>7 DEF SendInv
<1>7. QED
    BY <1>5, <1>6

LEMMA NextSend ==
    ASSUME TypeInv, SendInv, [Next]_vars
    PROVE  SendInv'
<1>1. CASE UNCHANGED sendVars
    BY <1>1 DEF SendInv, sendVars, timeVars
<1>2. CASE Answer
    <2>1. writeLeft' \in 0..RequestLimit /\ blocked' = 0 /\ spent' = 0 /\ call' = "round"
        BY <1>2, Timeouts DEF Answer, Write
    <2>2. PICK w \in 0..RequestLimit : writeLeft' = w
        BY <2>1
    <2>3. 0 + w <= RequestLimit
        BY Limits
    <2>4. QED
        BY <2>1, <2>2, <2>3 DEF SendInv
<1>3. CASE Answered \/ WriteFails
    <2>1. call' = "none" /\ writeLeft' = 0 /\ blocked' = 0
        BY <1>3 DEF Answered, WriteFails, WriteReturns
    <2>2. QED
        BY <2>1, Limits DEF SendInv
<1>4. QED
    BY <1>1, <1>2, <1>3, SendWrites, SendTicks
       DEF Next, ServerStep, Send, Fin, ClientReads, PeerReads, Parse, Arm, RecvBegins, Read,
           ReadInterrupted, ReadEnds, ReadFails, ReadTimesOut, ReadGivesUp, Closed, vars, socketVars

\* However many sends a response takes, and whatever cuts them short, the worker
\* is inside them no longer than deadlines.request, and out of the last that began
\* before the deadline before twice the limit has passed since the write began
\* (socket.hpp:62-64, socket.cpp:84-108, docs/design/09-deadlines.md:137-142).
THEOREM WritesAreBounded == Spec => []WriteIsBounded
<1>1. Init => SendInv
    <2>1. Init => call = "none" /\ writeLeft = 0 /\ blocked = 0
        BY DEF Init, SocketInit
    <2>2. QED
        BY <2>1, Limits DEF SendInv
<1>2. TypeInv /\ SendInv /\ [Next]_vars => SendInv'
    BY NextSend
<1>3. ASSUME TypeInv, SendInv PROVE WriteIsBounded
    <2>1. PICK b \in Nat, w \in Nat, s \in Nat, R \in Nat :
              b = blocked /\ w = writeLeft /\ s = spent /\ R = RequestLimit /\ b + w <= R
        BY <1>3, SendTypes, Limits DEF SendInv
    <2>2. b <= R
        BY <2>1
    <2>3. ASSUME call = "send", in_time PROVE s < 2 * R
        <3>1. PICK l \in Nat : s + l < 2 * R
            BY <1>3, <2>1, <2>3, SendTypes DEF SendInv
        <3>2. QED
            BY <2>1, <3>1
    <2>4. QED
        BY <2>1, <2>2, <2>3 DEF WriteIsBounded
<1>4. QED
    BY <1>1, <1>2, <1>3, TypeInvariant, PTL DEF Spec

LEMMA ResultsAreUnits == Late \notin Units /\ Nothing \notin Units /\ Late # Nothing
BY DEF Late, Nothing, Units, Results

-----------------------------------------------------------------------------
(* Counting requests.                                                      *)

LEMMA EndedType ==
    ASSUME NEW k \in Nat
    PROVE  /\ IsFiniteSet({j \in 1..k : IsResult(stream[j])})
           /\ Ended(k) \in Nat
<1>1. IsFiniteSet(1..k)
    BY FS_Interval
<1>2. {j \in 1..k : IsResult(stream[j])} \subseteq 1..k
    OBVIOUS
<1>3. QED
    BY <1>1, <1>2, FS_Subset, FS_CardinalityType DEF Ended

\* Units that end no request are not counted.
LEMMA EndedSkips ==
    ASSUME NEW k \in Nat, NEW n \in Nat, \A i \in 1..n : ~IsResult(stream[k + i])
    PROVE  Ended(k + n) = Ended(k)
<1>1. ASSUME NEW j \in 1..(k + n), j > k
      PROVE  ~IsResult(stream[j])
    <2>1. j - k \in 1..n /\ k + (j - k) = j
        BY <1>1
    <2>2. QED
        BY <2>1
<1>2. {j \in 1..(k + n) : IsResult(stream[j])} = {j \in 1..k : IsResult(stream[j])}
    BY <1>1
<1>3. QED
    BY <1>2 DEF Ended

\* The next one that does is counted once.
LEMMA EndedNext ==
    ASSUME NEW k \in Nat, NEW n \in Nat \ {0}, IsResult(stream[k + n]),
           \A i \in 1..(n - 1) : ~IsResult(stream[k + i])
    PROVE  Ended(k + n) = Ended(k) + 1
<1> DEFINE S == {j \in 1..k : IsResult(stream[j])}
<1>1. ASSUME NEW j \in 1..(k + n), j > k, j # k + n
      PROVE  ~IsResult(stream[j])
    <2>1. j - k \in 1..(n - 1) /\ k + (j - k) = j
        BY <1>1
    <2>2. QED
        BY <2>1
<1>2. {j \in 1..(k + n) : IsResult(stream[j])} = S \cup {k + n}
    BY <1>1
<1>3. k + n \notin S
    OBVIOUS
<1>4. Cardinality(S \cup {k + n}) = Cardinality(S) + 1
    BY <1>3, EndedType, FS_AddElement
<1>5. QED
    BY <1>2, <1>4 DEF Ended

\* More units hold no fewer, and where they hold no more there is no result among
\* the others.
LEMMA EndedGrows ==
    ASSUME NEW k \in Nat, NEW m \in Nat, k <= m
    PROVE  /\ Ended(k) <= Ended(m)
           /\ Ended(k) = Ended(m) => \A j \in 1..m : j > k => ~IsResult(stream[j])
<1> DEFINE S(n) == {j \in 1..n : IsResult(stream[j])}
<1>1. S(k) \subseteq S(m)
    OBVIOUS
<1>2. Cardinality(S(k)) <= Cardinality(S(m))
    BY <1>1, EndedType, FS_Subset
<1>3. ASSUME Cardinality(S(k)) = Cardinality(S(m)), NEW j \in 1..m, j > k, IsResult(stream[j])
      PROVE  FALSE
    <2>1. S(k) = S(m)
        BY <1>1, <1>3, EndedType, FS_Subset
    <2>2. j \in S(m) /\ j \notin S(k)
        BY <1>3
    <2>3. QED
        BY <2>1, <2>2
<1>4. QED
    BY <1>2, <1>3 DEF Ended

LEMMA EndedSame ==
    ASSUME UNCHANGED stream, NEW k
    PROVE  Ended(k)' = Ended(k)
BY DEF Ended, IsResult

\* After which answers the connection ends.
LEMMA ClosingLast ==
    /\ Closing(Late)
    /\ \A u \in Units : u.what = "fatal" => Closing(u)
    /\ \A u \in Units : u.what # "fatal" /\ IsResult(u) => u.what \in {"good", "refused"}
BY DEF Closing, Late, IsResult, Results
-----------------------------------------------------------------------------
(* From requests to answers.                                               *)

\* A request taken out of the reader and not answered yet.
Outstanding == pc \in {"answer", "write"} /\ verdict # Late

\* The first k units have been consumed; what is buffered and what is on the wire
\* are the rest of what was sent, in order.
Flow(k) ==
    /\ k + Len(buffered) + Len(wire) = sent
    /\ \A i \in 1..Len(buffered) : buffered[i] = stream[k + i]
    /\ \A i \in 1..Len(wire) : wire[i] = stream[k + Len(buffered) + i]

\* Every request among them is answered but the one outstanding, which is the last.
Count(k) ==
    /\ Outstanding => k > 0 /\ verdict = stream[k] /\ IsResult(verdict)
    /\ pc # "closed" =>
          /\ Ended(k) = Len(replies) + (IF Outstanding THEN 1 ELSE 0)
          /\ \A i \in 1..Len(replies) : replies[i].to # Late /\ ~replies[i].close

\* A client that awaits each answer has nothing sent after a request.
Turn(k) ==
    ~eager /\ pc # "closed" =>
        /\ \A j \in 1..sent : j > k /\ IsResult(stream[j]) => j = sent
        /\ Outstanding => k = sent

Account(k) == Flow(k) /\ Count(k) /\ Turn(k)

AccountInv == \E k \in Nat : Account(k)

LEMMA FlowTypes ==
    ASSUME TypeInv
    PROVE  /\ buffered \in Seq(Units) /\ Len(buffered) \in Nat
           /\ wire \in Seq(Units) /\ Len(wire) \in Nat
           /\ stream \in Seq(Units) /\ Len(stream) \in Nat
           /\ sent \in Nat /\ sent <= Len(stream)
           /\ Len(replies) \in Nat
BY StreamType, LenProperties DEF TypeInv, TypeOK

\* Nothing is sent, received or taken out of the reader, and the connection ends
\* or what is outstanding stays so.
LEMMA AccountAtRest ==
    ASSUME NEW k \in Nat, Account(k),
           UNCHANGED <<stream, eager, sent, wire, buffered, replies>>,
           Outstanding' => Outstanding /\ verdict' = verdict,
           pc' # "closed" => pc # "closed" /\ (Outstanding => Outstanding')
    PROVE  Account(k)'
<1>1. Flow(k)'
    BY DEF Account, Flow
<1>2. Count(k)'
    BY EndedSame DEF Account, Count
<1>3. Turn(k)'
    BY DEF Account, Turn, IsResult
<1>4. QED
    BY <1>1, <1>2, <1>3 DEF Account

LEMMA AccountSends ==
    ASSUME TypeInv, NEW k \in Nat, Account(k), Send
    PROVE  Account(k)'
<1>0. /\ sent' = sent + 1 /\ wire' = Append(wire, stream[sent + 1])
      /\ pc # "closed"
      /\ eager \/ Ended(sent) = Len(replies)
      /\ UNCHANGED <<stream, eager, buffered, pc, verdict, replies>>
    BY DEF Send, Asked, readerVars
<1>1. PICK b \in Nat, w \in Nat, n \in Nat, r \in Nat :
          /\ b = Len(buffered) /\ w = Len(wire) /\ n = sent /\ r = Len(replies)
          /\ k + b + w = n
    BY FlowTypes DEF Account, Flow
<1>2. /\ Len(wire') = w + 1
      /\ \A i \in 1..w : wire'[i] = wire[i]
      /\ wire'[w + 1] = stream[n + 1]
    BY <1>0, <1>1, FlowTypes, AppendProperties
<1>3. Flow(k)'
    <2>1. k + b + (w + 1) = n + 1
        BY <1>1
    <2>2. ASSUME NEW i \in 1..(w + 1)
          PROVE  wire'[i] = stream[k + b + i]
        <3>1. CASE i \in 1..w
            BY <1>1, <1>2, <3>1 DEF Account, Flow
        <3>2. CASE i = w + 1
            <4>1. k + b + i = n + 1
                BY <1>1, <3>2
            <4>2. QED
                BY <1>2, <3>2, <4>1
        <3>3. QED
            BY <1>1, <3>1, <3>2
    <2>3. QED
        BY <1>0, <1>1, <1>2, <2>1, <2>2 DEF Account, Flow
<1>4. Count(k)'
    BY <1>0, EndedSame DEF Account, Count, Outstanding
<1>5. Turn(k)'
    <2>1. SUFFICES ASSUME ~eager
                   PROVE  /\ \A j \in 1..(n + 1) : j > k /\ IsResult(stream[j]) => j = n + 1
                          /\ ~Outstanding
        BY <1>0, <1>1 DEF Turn, IsResult, Outstanding
    <2>2. k <= n
        BY <1>1
    <2>3. Ended(k) = r + (IF Outstanding THEN 1 ELSE 0) /\ Ended(n) = r
        <3>1. Ended(n) = r
            BY <1>0, <1>1, <2>1
        <3>2. Ended(k) = Len(replies) + (IF Outstanding THEN 1 ELSE 0)
            BY <1>0 DEF Account, Count
        <3>3. QED
            BY <1>1, <3>1, <3>2
    <2>4. ~Outstanding /\ Ended(k) = Ended(n)
        BY <1>1, <2>2, <2>3, EndedGrows, EndedType
    <2>5. ASSUME NEW j \in 1..(n + 1), j > k, IsResult(stream[j])
          PROVE  j = n + 1
        <3>1. j \notin 1..n
            BY <2>2, <2>4, <2>5, EndedGrows, <1>1
        <3>2. QED
            BY <1>1, <3>1
    <2>6. QED
        BY <2>4, <2>5
<1>6. QED
    BY <1>3, <1>4, <1>5 DEF Account

LEMMA AccountReads ==
    ASSUME TypeInv, NEW k \in Nat, Account(k), Read
    PROVE  Account(k)'
<1>0. /\ UNCHANGED <<stream, eager, sent, verdict, replies>>
      /\ pc = "read" /\ pc' = "parse"
    BY DEF Read, Receives, clientVars
<1>1. PICK n \in 1..Len(wire) : /\ buffered' = buffered \o SubSeq(wire, 1, n)
                                /\ wire' = SubSeq(wire, n + 1, Len(wire))
    BY DEF Read, Receives
<1>2. PICK b \in Nat, w \in Nat, l \in Nat :
          /\ b = Len(buffered) /\ w = Len(wire) /\ n \in 1..w /\ n + l = w
    <2>1. Len(wire) - n \in Nat /\ n + (Len(wire) - n) = Len(wire)
        BY FlowTypes
    <2>2. QED
        BY <2>1, FlowTypes
<1>3. /\ SubSeq(wire, 1, n) \in Seq(Units) /\ Len(SubSeq(wire, 1, n)) = n
      /\ \A i \in 1..n : SubSeq(wire, 1, n)[i] = wire[i]
    BY <1>2, FlowTypes, SubSeqProperties
<1>4. /\ Len(wire') = l
      /\ \A i \in 1..l : wire'[i] = wire[n + i]
    <2>1. n + 1 \in 1..(w + 1) /\ w - (n + 1) + 1 = l
        BY <1>2
    <2>2. /\ Len(wire') = w - (n + 1) + 1
          /\ \A i \in 1..(w - (n + 1) + 1) : wire'[i] = wire[(n + 1) + i - 1]
        BY <1>1, <1>2, <2>1, FlowTypes, SubSeqProperties
    <2>3. \A i \in 1..l : (n + 1) + i - 1 = n + i
        BY <1>2
    <2>4. QED
        BY <2>1, <2>2, <2>3
<1>5. /\ Len(buffered') = b + n
      /\ \A i \in 1..b : buffered'[i] = buffered[i]
      /\ \A i \in 1..n : buffered'[b + i] = wire[i]
    <2> DEFINE part == SubSeq(wire, 1, n)
    <2>0. /\ buffered \in Seq(Units) /\ Len(buffered) = b
          /\ part \in Seq(Units) /\ Len(part) = n
          /\ buffered' = buffered \o part
          /\ \A i \in 1..n : part[i] = wire[i]
        BY <1>1, <1>2, <1>3, FlowTypes
    <2> HIDE DEF part
    <2>1. Len(buffered') = b + n
        BY <2>0, ConcatProperties
    <2>2. \A i \in 1..(b + n) : buffered'[i] = IF i <= b THEN buffered[i] ELSE part[i - b]
        BY <2>0, ConcatProperties, SMTT(30)
    <2>3. \A i \in 1..n : b + i \in 1..(b + n) /\ ~(b + i <= b) /\ (b + i) - b = i
        BY <1>2
    <2>4. \A i \in 1..b : i \in 1..(b + n) /\ i <= b
        BY <1>2
    <2>5. QED
        BY <2>0, <2>1, <2>2, <2>3, <2>4
<1>6. Flow(k)'
    <2>0. /\ k + b + w = sent
          /\ \A i \in 1..b : buffered[i] = stream[k + i]
          /\ \A i \in 1..w : wire[i] = stream[k + b + i]
        BY <1>2 DEF Account, Flow
    <2>1. k + (b + n) + l = k + b + w
        BY <1>2
    <2>2. ASSUME NEW i \in 1..(b + n)
          PROVE  buffered'[i] = stream[k + i]
        <3>1. CASE i \in 1..b
            BY <1>5, <2>0, <3>1
        <3>2. CASE i \notin 1..b
            <4>1. PICK m \in 1..n : i = b + m /\ k + b + m = k + i
                <5>1. i - b \in 1..n /\ b + (i - b) = i /\ k + b + (i - b) = k + i
                    BY <1>2, <2>2, <3>2
                <5>2. QED
                    BY <5>1
            <4>2. m \in 1..w
                BY <1>2
            <4>3. QED
                BY <1>5, <2>0, <4>1, <4>2
        <3>3. QED
            BY <3>1, <3>2
    <2>3. ASSUME NEW i \in 1..l
          PROVE  wire'[i] = stream[k + (b + n) + i]
        <3>1. n + i \in 1..w /\ k + b + (n + i) = k + (b + n) + i
            BY <1>2
        <3>2. QED
            BY <1>4, <2>0, <3>1
    <2>4. QED
        BY <1>0, <1>4, <1>5, <2>0, <2>1, <2>2, <2>3 DEF Flow
<1>7. Count(k)' /\ Turn(k)'
    BY <1>0, EndedSame DEF Account, Count, Turn, Outstanding, IsResult
<1>8. QED
    BY <1>6, <1>7 DEF Account

LEMMA AccountParses ==
    ASSUME TypeInv, NEW k \in Nat, Account(k), Parse
    PROVE  AccountInv'
<1>0. /\ UNCHANGED <<stream, eager, sent, wire, replies>> /\ pc = "parse" /\ ~Outstanding
    BY DEF Parse, clientVars, Outstanding
<1>1. PICK b \in Nat, w \in Nat, r \in Nat, z \in Nat :
          /\ b = Len(buffered) /\ w = Len(wire) /\ r = Len(replies) /\ z = sent
          /\ k + b + w = z
    BY FlowTypes DEF Account, Flow
<1>2. /\ \A i \in 1..b : buffered[i] = stream[k + i]
      /\ \A i \in 1..w : wire[i] = stream[k + b + i]
      /\ Ended(k) = r
      /\ \A i \in 1..r : replies[i].to # Late /\ ~replies[i].close
    <2>1. Flow(k) /\ Count(k)
        BY DEF Account
    <2>2. /\ \A i \in 1..b : buffered[i] = stream[k + i]
          /\ \A i \in 1..w : wire[i] = stream[k + b + i]
        BY <1>1, <2>1 DEF Flow
    <2>3. Ended(k) = r + 0
        BY <1>0, <1>1, <2>1 DEF Count
    <2>4. \A i \in 1..r : replies[i].to # Late /\ ~replies[i].close
        BY <1>0, <1>1, <2>1 DEF Count
    <2>5. QED
        BY <1>1, <2>2, <2>3, <2>4
<1>3. CASE pc' = "arm"
    <2>1. /\ \A i \in 1..b : ~IsResult(buffered[i])
          /\ buffered' = <<>> /\ UNCHANGED verdict
        BY <1>1, <1>3, ParseFinds
    <2>2. Flow(k + b)'
        <3>1. Len(buffered') = 0 /\ (k + b) + 0 + w = z
            BY <1>1, <2>1
        <3>2. \A i \in 1..w : (k + b) + 0 + i = k + b + i
            BY <1>1
        <3>3. QED
            BY <1>0, <1>1, <1>2, <3>1, <3>2 DEF Flow
    <2>3. Ended(k + b)' = r
        <3>1. \A i \in 1..b : ~IsResult(stream[k + i])
            BY <1>2, <2>1
        <3>2. Ended(k + b) = r
            BY <1>1, <1>2, <3>1, EndedSkips
        <3>3. QED
            BY <1>0, <3>2, EndedSame
    <2>4. Count(k + b)'
        BY <1>0, <1>1, <1>2, <1>3, <2>3 DEF Count, Outstanding
    <2>5. Turn(k + b)'
        BY <1>0, <1>1, <1>3 DEF Account, Turn, Outstanding, IsResult
    <2>6. QED
        BY <1>1, <2>2, <2>4, <2>5 DEF AccountInv, Account
<1>4. CASE pc' # "arm"
    <2>1. PICK n \in 1..b :
              /\ IsResult(buffered[n]) /\ buffered[n] \in Units
              /\ \A j \in 1..(n - 1) : ~IsResult(buffered[j])
              /\ verdict' = buffered[n]
              /\ buffered' = SubSeq(buffered, n + 1, Len(buffered))
              /\ pc' = "answer"
        BY <1>1, <1>4, ParseFinds
    <2>2. PICK l \in Nat : n + l = b /\ n \in Nat \ {0}
        <3>1. b - n \in Nat /\ n + (b - n) = b
            BY <1>1
        <3>2. QED
            BY <3>1
    <2>3. /\ Len(buffered') = l
          /\ \A i \in 1..l : buffered'[i] = buffered[n + i]
        <3>1. n + 1 \in 1..(b + 1) /\ b - (n + 1) + 1 = l
            BY <1>1, <2>2
        <3>2. /\ Len(buffered') = b - (n + 1) + 1
              /\ \A i \in 1..(b - (n + 1) + 1) : buffered'[i] = buffered[(n + 1) + i - 1]
            BY <1>1, <2>1, <3>1, FlowTypes, SubSeqProperties
        <3>3. \A i \in 1..l : (n + 1) + i - 1 = n + i
            BY <2>2
        <3>4. QED
            BY <3>1, <3>2, <3>3
    <2>4. Flow(k + n)'
        <3>1. (k + n) + l + w = z
            BY <1>1, <2>2
        <3>2. \A i \in 1..l : n + i \in 1..b /\ k + (n + i) = (k + n) + i
            BY <1>1, <2>2
        <3>3. \A i \in 1..w : (k + n) + l + i = k + b + i
            BY <1>1, <2>2
        <3>4. \A i \in 1..l : buffered'[i] = stream'[(k + n) + i]
            <4>1. ASSUME NEW i \in 1..l
                  PROVE  buffered'[i] = stream[(k + n) + i]
                <5>1. n + i \in 1..b /\ k + (n + i) = (k + n) + i
                    BY <3>2
                <5>2. buffered'[i] = buffered[n + i]
                    BY <2>3
                <5>3. buffered[n + i] = stream[k + (n + i)]
                    BY <1>2, <5>1
                <5>4. QED
                    BY <5>1, <5>2, <5>3
            <4>2. QED
                BY <1>0, <4>1
        <3>5. \A i \in 1..w : wire'[i] = stream'[(k + n) + l + i]
            <4>1. ASSUME NEW i \in 1..w
                  PROVE  wire[i] = stream[(k + n) + l + i]
                BY <1>2, <3>3
            <4>2. QED
                BY <1>0, <4>1
        <3>6. (k + n) + Len(buffered') + Len(wire') = sent'
            BY <1>0, <1>1, <2>3, <3>1
        <3>7. QED
            BY <1>0, <1>1, <2>3, <3>4, <3>5, <3>6 DEF Flow
    <2>5. stream[k + n] = buffered[n] /\ \A i \in 1..(n - 1) : stream[k + i] = buffered[i]
        <3>1. n \in 1..b /\ \A i \in 1..(n - 1) : i \in 1..b
            BY <1>1
        <3>2. QED
            BY <1>2, <3>1
    <2>6. Ended(k + n)' = r + 1
        <3>1. IsResult(stream[k + n])
            BY <2>1, <2>5
        <3>2. \A i \in 1..(n - 1) : ~IsResult(stream[k + i])
            BY <2>1, <2>5
        <3>3. Ended(k + n) = Ended(k) + 1
            BY <2>2, <3>1, <3>2, EndedNext
        <3>4. Ended(k + n)' = Ended(k + n)
            BY <1>0, EndedSame
        <3>5. QED
            BY <1>2, <3>3, <3>4
    <2>7. Outstanding'
        BY <2>1, ResultsAreUnits DEF Outstanding
    <2>8. Count(k + n)'
        BY <1>0, <1>1, <1>2, <2>1, <2>2, <2>5, <2>6, <2>7 DEF Count, IsResult
    <2>9. Turn(k + n)'
        <3>1. SUFFICES ASSUME ~eager
                       PROVE  /\ \A j \in 1..z : j > k + n /\ IsResult(stream[j]) => j = z
                              /\ k + n = z
            BY <1>0, <1>1 DEF Turn, IsResult
        <3>2. \A j \in 1..z : j > k /\ IsResult(stream[j]) => j = z
            BY <1>0, <1>1, <3>1 DEF Account, Turn
        <3>3. k + n \in 1..z /\ k + n > k
            BY <1>1, <2>2
        <3>4. k + n = z
            BY <2>1, <2>5, <3>2, <3>3
        <3>5. QED
            BY <3>4
    <2>10. QED
        BY <2>2, <2>4, <2>8, <2>9 DEF AccountInv, Account
<1>5. QED
    BY <1>3, <1>4

LEMMA AccountAnswers ==
    ASSUME TypeInv, NEW k \in Nat, Account(k), Answered
    PROVE  Account(k)'
<1>0. /\ UNCHANGED <<stream, eager, sent, wire, buffered>>
      /\ replies' = Append(replies, [to |-> verdict, close |-> Closing(verdict)])
      /\ pc = "write" /\ IF Closing(verdict) THEN pc' = "closed" ELSE pc' = "parse"
    BY DEF Answered, End, clientVars, readerVars, TypeInv, ControlInv, WriteReturns
<1>1. Flow(k)'
    BY <1>0 DEF Account, Flow
<1>2. Turn(k)'
    BY <1>0 DEF Account, Turn, Outstanding, IsResult
<1>3. Count(k)'
    <2>1. CASE Closing(verdict)
        BY <1>0, <2>1 DEF Count, Outstanding
    <2>2. CASE ~Closing(verdict)
        <3>1. verdict # Late /\ Outstanding
            BY <1>0, <2>2, ClosingLast DEF Outstanding
        <3>2. PICK r \in Nat : r = Len(replies)
            BY FlowTypes
        <3>3. /\ Len(replies') = r + 1
              /\ \A i \in 1..r : replies'[i] = replies[i]
              /\ replies'[r + 1] = [to |-> verdict, close |-> Closing(verdict)]
            <4>1. Closing(verdict) \in BOOLEAN /\ verdict \in Units \cup {Late}
                BY <1>0 DEF Closing, ClientWantsClose, TypeInv, TypeOK, ControlInv
            <4>2. replies \in Seq([to : Units \cup {Late}, close : BOOLEAN])
                BY DEF TypeInv, TypeOK
            <4>3. QED
                BY <1>0, <3>2, <4>1, <4>2, AppendProperties
        <3>4. Ended(k)' = r + 1
            BY <1>0, <3>1, <3>2, EndedSame DEF Account, Count
        <3>5. \A i \in 1..(r + 1) : replies'[i].to # Late /\ ~replies'[i].close
            <4>1. \A i \in 1..r : replies[i].to # Late /\ ~replies[i].close
                BY <1>0, <3>2 DEF Account, Count
            <4>2. QED
                BY <2>2, <3>1, <3>2, <3>3, <4>1
        <3>6. QED
            BY <1>0, <2>2, <3>3, <3>4, <3>5 DEF Count, Outstanding
    <2>3. QED
        BY <2>1, <2>2
<1>4. QED
    BY <1>1, <1>2, <1>3 DEF Account

LEMMA NextAccount ==
    ASSUME TypeInv, AccountInv, [Next]_vars
    PROVE  AccountInv'
<1>1. PICK k \in Nat : Account(k)
    BY DEF AccountInv
<1>2. SUFFICES ASSUME ~Parse
               PROVE  Account(k)'
    BY <1>1, AccountParses DEF AccountInv
<1>3. CASE Send \/ Read \/ Answered
    BY <1>1, <1>3, AccountSends, AccountReads, AccountAnswers
<1>4. CASE Fin \/ ClientReads \/ Tick \/ Closed \/ UNCHANGED vars
    <2>1. UNCHANGED <<stream, eager, sent, wire, buffered, replies, pc, verdict>>
        BY <1>4 DEF Fin, ClientReads, Tick, Closed, vars, clientVars, readerVars
    <2>2. QED
        BY <1>1, <2>1, AccountAtRest DEF Outstanding
<1>5. CASE Arm \/ RecvBegins \/ ReadInterrupted \/ ReadEnds \/ ReadFails \/ ReadTimesOut \/ ReadGivesUp
    <2>1. UNCHANGED <<stream, eager, sent, wire, buffered, replies>> /\ pc \in {"arm", "armed", "read"}
        BY <1>5 DEF Arm, RecvBegins, ReadInterrupted, ReadEnds, ReadFails, ReadTimesOut, ReadGivesUp,
                    clientVars, readerVars
    <2>2. ~Outstanding /\ ~Outstanding'
        BY <1>5, <2>1 DEF Outstanding, Arm, RecvBegins, ReadInterrupted, ReadEnds, ReadFails, ReadTimesOut,
                          ReadGivesUp, TimedOut, End
    <2>3. QED
        BY <1>1, <2>1, <2>2, AccountAtRest
<1>6. CASE Answer \/ WriteStep \/ WriteFails
    <2>1. /\ UNCHANGED <<stream, eager, sent, wire, buffered, replies, verdict>>
          /\ pc' = "closed" \/ (pc \in {"answer", "write"} /\ pc' \in {"answer", "write"})
        BY <1>6 DEF Answer, WriteStep, WriteFails, End, clientVars, readerVars, TypeInv, ControlInv,
                    Writing, Round, SendBegins, SendEnds, SendMoves, SendReturns, SendTimesOut,
                    SendInterrupted, SendFails
    <2>2. QED
        BY <1>1, <2>1, AccountAtRest DEF Outstanding
<1>7. QED
    BY <1>2, <1>3, <1>4, <1>5, <1>6 DEF Next, ServerStep

LEMMA AccountInvariant == Spec => []AccountInv
<1>1. ASSUME Init PROVE AccountInv
    <2>1. /\ sent = 0 /\ buffered = <<>> /\ wire = <<>> /\ replies = <<>> /\ pc = "parse"
        BY <1>1 DEF Init
    <2>2. Ended(0) = 0
        <3>1. {j \in 1..0 : IsResult(stream[j])} = {}
            OBVIOUS
        <3>2. QED
            BY <3>1, FS_EmptySet DEF Ended
    <2>3. Account(0)
        BY <2>1, <2>2 DEF Account, Flow, Count, Turn, Outstanding
    <2>4. QED
        BY <2>3 DEF AccountInv
<1>2. TypeInv /\ AccountInv /\ [Next]_vars => AccountInv'
    BY NextAccount
<1>3. QED
    BY <1>1, <1>2, TypeInvariant, PTL DEF Spec

LEMMA AnsweredInTurn ==
    ASSUME TypeInv, AccountInv, AnswersFollowRequests, Answered
    PROVE  AnswersFollowRequests'
<1>1. PICK k \in Nat : Account(k)
    BY DEF AccountInv
<1>2. PICK r \in Nat, z \in Nat : r = Len(replies) /\ z = sent
    BY FlowTypes
<1>0. /\ UNCHANGED <<stream, sent>>
      /\ replies' = Append(replies, [to |-> verdict, close |-> Closing(verdict)])
      /\ pc = "write" /\ reason = "none"
      /\ IF Closing(verdict) THEN reason' = "announced" ELSE reason' = reason
    BY DEF Answered, End, clientVars, TypeInv, ControlInv, WriteReturns
<1>3. /\ Len(replies') = r + 1
      /\ \A i \in 1..r : replies'[i] = replies[i]
      /\ replies'[r + 1] = [to |-> verdict, close |-> Closing(verdict)]
    <2>1. Closing(verdict) \in BOOLEAN /\ verdict \in Units \cup {Late}
        BY <1>0 DEF Closing, ClientWantsClose, TypeInv, TypeOK, ControlInv
    <2>2. replies \in Seq([to : Units \cup {Late}, close : BOOLEAN])
        BY DEF TypeInv, TypeOK
    <2>3. QED
        BY <1>0, <1>2, <2>1, <2>2, AppendProperties
<1>4. ASSUME NEW i \in 1..r
      PROVE  /\ \E j \in 1..z : IsResult(stream[j]) /\ Ended(j) = i /\ replies[i].to = stream[j]
             /\ ~replies[i].close
    <2>1. replies[i].to # Late /\ ~replies[i].close
        BY <1>0, <1>1, <1>2, <1>4 DEF Account, Count
    <2>2. QED
        BY <1>2, <1>4, <2>1 DEF AnswersFollowRequests
<1>5. \/ verdict = Late
      \/ \E j \in 1..z : IsResult(stream[j]) /\ Ended(j) = r + 1 /\ verdict = stream[j]
    <2>1. SUFFICES ASSUME verdict # Late
                   PROVE  k \in 1..z /\ IsResult(stream[k]) /\ Ended(k) = r + 1 /\ verdict = stream[k]
        OBVIOUS
    <2>2. Outstanding
        BY <1>0, <2>1 DEF Outstanding
    <2>3. k > 0 /\ verdict = stream[k] /\ IsResult(verdict) /\ Ended(k) = r + 1
        BY <1>0, <1>1, <1>2, <2>2 DEF Account, Count
    <2>4. k \in 1..z
        <3>1. PICK b \in Nat, w \in Nat : k + b + w = z
            BY <1>1, <1>2, FlowTypes DEF Account, Flow
        <3>2. QED
            BY <2>3, <3>1
    <2>5. QED
        BY <2>3, <2>4
<1>6. \A i \in 1..(r + 1) :
          \/ \E j \in 1..sent' : IsResult(stream[j])' /\ Ended(j)' = i /\ replies'[i].to = stream'[j]
          \/ i = r + 1 /\ replies'[i].to = Late
    <2>1. \A j : Ended(j)' = Ended(j) /\ (IsResult(stream[j])' <=> IsResult(stream[j]))
        BY <1>0, EndedSame DEF IsResult
    <2>2. ASSUME NEW i \in 1..r
          PROVE  \E j \in 1..sent' : IsResult(stream[j])' /\ Ended(j)' = i /\ replies'[i].to = stream'[j]
        BY <1>0, <1>2, <1>3, <1>4, <2>1
    <2>3. \/ \E j \in 1..sent' : IsResult(stream[j])' /\ Ended(j)' = r + 1
                                /\ replies'[r + 1].to = stream'[j]
          \/ replies'[r + 1].to = Late
        BY <1>0, <1>2, <1>3, <1>5, <2>1
    <2>4. \A i \in 1..(r + 1) : i \in 1..r \/ i = r + 1
        OBVIOUS
    <2>5. QED
        BY <2>2, <2>3, <2>4
<1>7. \A i \in 1..((r + 1) - 1) : ~replies'[i].close
    <2>1. \A i \in 1..((r + 1) - 1) : i \in 1..r
        OBVIOUS
    <2>2. QED
        BY <1>3, <1>4, <2>1
<1>8. reason' = "announced" <=> (r + 1 > 0 /\ replies'[r + 1].close)
    BY <1>0, <1>3
<1>9. QED
    BY <1>3, <1>6, <1>7, <1>8 DEF AnswersFollowRequests

LEMMA NextAnswers ==
    ASSUME TypeInv, AccountInv, AnswersFollowRequests, [Next]_vars
    PROVE  AnswersFollowRequests'
<1>1. CASE Answered
    BY <1>1, AnsweredInTurn
<1>2. CASE ~Answered
    <2>1. UNCHANGED <<stream, replies>> /\ (sent' = sent \/ sent' = sent + 1)
        BY <1>2 DEF Next, ServerStep, Send, Fin, ClientReads, Parse, Arm, RecvBegins, Read, ReadInterrupted,
            ReadEnds, ReadFails, ReadTimesOut, ReadGivesUp, Answer, WriteStep, WriteFails, Tick, Closed,
            vars, clientVars
    <2>2. reason' = "announced" <=> reason = "announced"
        <3>1. CASE UNCHANGED reason
            BY <3>1
        <3>2. CASE Arm \/ ReadEnds \/ ReadFails \/ ReadTimesOut \/ ReadGivesUp \/ WriteFails
            BY <3>2 DEF TypeInv, ControlInv, Arm, ReadEnds, ReadFails, ReadTimesOut, ReadGivesUp,
                        WriteFails, TimedOut, End, WriteReturns
        <3>3. QED
            BY <1>2, <3>1, <3>2 DEF Next, ServerStep, Send, Fin, ClientReads, Parse, RecvBegins, Read,
                ReadInterrupted, Answer, WriteStep, Tick, Closed, vars
    <2>3. \A j : Ended(j)' = Ended(j) /\ (IsResult(stream[j])' <=> IsResult(stream[j]))
        BY <2>1, EndedSame DEF IsResult
    <2>4. \A j \in 1..sent : j \in 1..sent'
        BY <2>1, FlowTypes
    <2>5. QED
        BY <2>1, <2>2, <2>3, <2>4 DEF AnswersFollowRequests
<1>3. QED
    BY <1>1, <1>2

\* However reads cut and join the requests of a client, and whether it pipelines
\* or not, every answer is that of the request whose turn it is; a 408 is the
\* last; and an answer says that the connection closes if and only if it does
\* after that answer (connection.cpp:15-43, serve.cpp:126-178).
THEOREM AnswersAreInTurn == Spec => []AnswersFollowRequests
<1>1. Init => AnswersFollowRequests
    BY DEF Init, AnswersFollowRequests
<1>2. TypeInv /\ AccountInv /\ AnswersFollowRequests /\ [Next]_vars => AnswersFollowRequests'
    BY NextAnswers
<1>3. QED
    BY <1>1, <1>2, TypeInvariant, AccountInvariant, PTL DEF Spec

-----------------------------------------------------------------------------
(* Who is told of a timeout.                                               *)

\* Without a request that was refused, "in progress" means part of a request.
FlagInv ==
    NoneRefused =>
        /\ pc \in {"arm", "armed", "read"} /\ in_progress => partial
        /\ pc = "parse" /\ in_progress => partial \/ buffered # <<>>
        /\ pc \in {"answer", "write"} /\ verdict.what = "good" => ~in_progress
        /\ verdict = Late => partial

\* A client that awaits each answer leaves no byte behind a request.
PatientInv ==
    ~eager =>
        /\ pc # "closed" /\ ~in_progress => ~partial /\ buffered = <<>>
        /\ reason = "idle" => ~partial

\* What was sent without a refusal holds none, nor the end of a body refused.
LEMMA NoRefusalInside ==
    ASSUME TypeInv, NoneRefused, NEW k \in Nat, Account(k)
    PROVE  /\ \A i \in 1..Len(buffered) : buffered[i].what \notin {"refused", "drained"}
           /\ Outstanding => verdict.what # "refused"
<1>1. \A i \in 1..sent : stream[i].what \notin {"refused", "drained"}
    <2>1. stream \in Streams /\ sent \in Nat /\ sent <= Len(stream) /\ Len(stream) \in Nat
        BY FlowTypes DEF TypeInv, TypeOK
    <2>2. ASSUME NEW i \in 1..sent, stream[i].what = "drained"
          PROVE  FALSE
        <3>1. PICK j \in 1..(i - 1) : stream[j].what = "refused"
            BY <2>1, <2>2, ConnectionAssumption DEF ConnectionAssumption
        <3>2. j \in 1..sent
            BY <2>1
        <3>3. QED
            BY <3>1, <3>2 DEF NoneRefused
    <2>3. QED
        BY <2>2 DEF NoneRefused
<1>2. PICK b \in Nat, w \in Nat, z \in Nat :
          b = Len(buffered) /\ w = Len(wire) /\ z = sent /\ k + b + w = z
    BY FlowTypes DEF Account, Flow
<1>3. \A i \in 1..b : buffered[i] = stream[k + i] /\ k + i \in 1..z
    BY <1>2 DEF Account, Flow
<1>4. Outstanding => verdict = stream[k] /\ k \in 1..z
    BY <1>2 DEF Account, Count
<1>5. QED
    BY <1>1, <1>2, <1>3, <1>4

LEMMA NextFlag ==
    ASSUME TypeInv, AccountInv, FlagInv, [Next]_vars
    PROVE  FlagInv'
<1> SUFFICES ASSUME NoneRefused' PROVE
        /\ pc' \in {"arm", "armed", "read"} /\ in_progress' => partial'
        /\ pc' = "parse" /\ in_progress' => partial' \/ buffered' # <<>>
        /\ pc' \in {"answer", "write"} /\ verdict'.what = "good" => ~in_progress'
        /\ verdict' = Late => partial'
    BY DEF FlagInv
<1>0. NoneRefused
    <2>1. UNCHANGED stream /\ (sent' = sent \/ sent' = sent + 1)
        BY DEF Next, ServerStep, Send, Fin, ClientReads, Parse, Arm, RecvBegins, Read, ReadInterrupted,
            ReadEnds, ReadFails, ReadTimesOut, ReadGivesUp, Answer, WriteStep, Answered, WriteFails,
            Tick, Closed,
            vars, clientVars
    <2>2. \A j \in 1..sent : j \in 1..sent'
        BY <2>1, FlowTypes
    <2>3. QED
        BY <2>1, <2>2 DEF NoneRefused
<1>1. PICK k \in Nat : Account(k)
    BY DEF AccountInv
<1>2. /\ \A i \in 1..Len(buffered) : buffered[i].what \notin {"refused", "drained"}
      /\ Outstanding => verdict.what # "refused"
    BY <1>0, <1>1, NoRefusalInside
<1> USE <1>0 DEF FlagInv
<1>3. CASE UNCHANGED <<pc, in_progress, partial, buffered, verdict>>
    BY <1>3
<1>4. CASE Parse
    <2>1. CASE pc' = "arm"
        <3>1. /\ buffered' = <<>> /\ UNCHANGED <<in_progress, verdict>>
              /\ partial' = IF buffered = <<>> THEN partial ELSE Last(buffered).what # "drained"
            BY <2>1, <1>4, ParseFinds
        <3>2. buffered # <<>> => Last(buffered).what # "drained"
            <4>1. buffered # <<>> => Len(buffered) \in 1..Len(buffered)
                BY FlowTypes, EmptySeq
            <4>2. QED
                BY <1>2, <4>1 DEF Last
        <3>3. pc = "parse" /\ verdict # Late
            BY <1>4, ResultsAreUnits DEF Parse, TypeInv, ControlInv
        <3>4. QED
            BY <2>1, <3>1, <3>2, <3>3
    <2>2. CASE pc' # "arm"
        <3>1. /\ verdict' \in Units /\ pc' = "answer" /\ in_progress' = FlagAfter(verdict')
            BY <2>2, <1>4, ParseFinds
        <3>2. QED
            BY <3>1, ResultsAreUnits DEF FlagAfter
    <2>3. QED
        BY <2>1, <2>2
<1>5. CASE Read
    <2>1. PICK n \in 1..Len(wire) : buffered' = buffered \o SubSeq(wire, 1, n)
        BY <1>5 DEF Read, Receives
    <2>2. Len(SubSeq(wire, 1, n)) = n /\ SubSeq(wire, 1, n) \in Seq(Units) /\ n \in Nat /\ n > 0
        BY FlowTypes, SubSeqProperties
    <2>3. Len(buffered') = Len(buffered) + n
        BY <2>1, <2>2, FlowTypes, ConcatProperties
    <2>4. buffered' # <<>>
        <3>1. PICK b \in Nat : b = Len(buffered)
            BY FlowTypes
        <3>2. b + n # 0
            BY <2>2
        <3>3. QED
            BY <2>3, <3>1, <3>2
    <2>5. pc' = "parse" /\ verdict' = verdict /\ verdict # Late
        BY <1>5, ResultsAreUnits DEF Read, Receives, TypeInv, ControlInv
    <2>6. QED
        BY <2>4, <2>5
<1>6. CASE Arm \/ RecvBegins \/ ReadEnds \/ ReadFails \/ ReadTimesOut \/ ReadGivesUp
    <2>1. pc \in {"arm", "armed", "read"} /\ UNCHANGED <<in_progress, partial>> /\ verdict # Late
        BY <1>6, ResultsAreUnits DEF Arm, RecvBegins, ReadEnds, ReadFails, ReadTimesOut, ReadGivesUp,
                                     readerVars, TypeInv, ControlInv
    <2>2. \/ pc' \in {"armed", "read", "closed"} /\ verdict' = verdict
          \/ pc' = "answer" /\ verdict' = Late /\ in_progress
        BY <1>6 DEF Arm, RecvBegins, ReadEnds, ReadFails, ReadTimesOut, ReadGivesUp, TimedOut, End
    <2>3. Late.what # "good"
        BY DEF Late
    <2>4. QED
        BY <2>1, <2>2, <2>3
<1>7. CASE Answer \/ WriteFails
    <2>1. /\ UNCHANGED <<in_progress, partial, verdict>>
          /\ pc' = "closed" \/ (pc = "answer" /\ pc' = "write")
        BY <1>7 DEF Answer, WriteFails, End, readerVars
    <2>2. QED
        BY <2>1
<1>8. CASE Answered
    <2>1. /\ UNCHANGED <<in_progress, partial, buffered>> /\ verdict' = Nothing /\ pc = "write"
          /\ IF Closing(verdict) THEN pc' = "closed" ELSE pc' = "parse"
        BY <1>8 DEF Answered, End, readerVars, TypeInv, ControlInv, WriteReturns
    <2>2. ASSUME ~Closing(verdict) PROVE ~in_progress
        <3>1. verdict \in Units /\ Outstanding
            BY <2>1, <2>2, ClosingLast DEF Outstanding, TypeInv, TypeOK, ControlInv
        <3>2. IsResult(verdict) /\ verdict.what # "refused" /\ verdict.what # "fatal"
            BY <1>1, <1>2, <2>2, <3>1, ClosingLast DEF Account, Count
        <3>3. verdict.what = "good"
            BY <3>1, <3>2, ClosingLast
        <3>4. QED
            BY <2>1, <3>3
    <2>3. QED
        BY <2>1, <2>2, ResultsAreUnits
<1>9. QED
    BY <1>3, <1>4, <1>5, <1>6, <1>7, <1>8
       DEF Next, ServerStep, Send, Fin, ClientReads, ReadInterrupted, WriteStep, Tick, Closed, vars,
           readerVars

\* A client that asked for nothing is never told that its request timed out, as
\* long as no request of its was refused (connection.cpp:18-31, 45-73,
\* serve.cpp:155-170).
THEOREM SilenceForTheIdle == Spec => []FlagIsNeverInvented
<1>1. Init => FlagInv
    BY ResultsAreUnits DEF Init, FlagInv
<1>2. TypeInv /\ AccountInv /\ FlagInv /\ [Next]_vars => FlagInv'
    BY NextFlag
<1>3. FlagInv => FlagIsNeverInvented
    BY DEF FlagInv, FlagIsNeverInvented, IdleClientIsNotTold
<1>4. QED
    BY <1>1, <1>2, <1>3, TypeInvariant, AccountInvariant, PTL DEF Spec

LEMMA NextPatient ==
    ASSUME TypeInv, TypeInv', AccountInv, AccountInv', PatientInv, [Next]_vars
    PROVE  PatientInv'
<1> SUFFICES ASSUME ~eager'
             PROVE  /\ pc' # "closed" /\ ~in_progress' => ~partial' /\ buffered' = <<>>
                    /\ reason' = "idle" => ~partial'
    BY DEF PatientInv
<1>0. ~eager
    BY DEF Next, ServerStep, Send, Fin, ClientReads, Parse, Arm, RecvBegins, Read, ReadInterrupted,
           ReadEnds, ReadFails, ReadTimesOut, ReadGivesUp, Answer, WriteStep, Answered, WriteFails, Tick,
           Closed,
           vars, clientVars
<1> USE <1>0 DEF PatientInv
<1>1. CASE Parse
    <2>1. reason' = "none" /\ pc = "parse"
        BY <1>1 DEF Parse, TypeInv, ControlInv
    <2>2. CASE pc' = "arm"
        <3>1. /\ buffered' = <<>> /\ UNCHANGED in_progress
              /\ partial' = IF buffered = <<>> THEN partial ELSE Last(buffered).what # "drained"
            BY <2>2, <1>1, ParseFinds
        <3>2. QED
            BY <2>1, <3>1
    <2>3. CASE pc' # "arm"
        <3>1. PICK n \in 1..Len(buffered) :
                  /\ verdict' = buffered[n] /\ verdict' \in Units
                  /\ partial' = (buffered[n].what = "refused")
                  /\ in_progress' = FlagAfter(buffered[n])
                  /\ pc' = "answer"
            BY <2>3, <1>1, ParseFinds
        <3>2. SUFFICES ASSUME ~in_progress' PROVE ~partial' /\ buffered' = <<>>
            BY <2>1
        <3>3. buffered # <<>>
            BY <3>1, FlowTypes
        <3>4. in_progress /\ buffered[n].what = "good"
            BY <2>1, <3>1, <3>2, <3>3 DEF FlagAfter
        <3>5. ~partial'
            BY <3>1, <3>4
        <3>6. Outstanding'
            BY <3>1, ResultsAreUnits DEF Outstanding
        <3>7. PICK k \in Nat : Account(k)'
            BY DEF AccountInv
        <3>8. k = sent' /\ k + Len(buffered') + Len(wire') = sent'
            BY <3>1, <3>6, <3>7 DEF Account, Flow, Turn
        <3>9. buffered' \in Seq(Units) /\ wire' \in Seq(Units)
            BY DEF TypeInv, TypeOK
        <3>10. Len(buffered') = 0
            BY <3>8, <3>9, LenProperties
        <3>11. QED
            BY <3>5, <3>9, <3>10, EmptySeq
    <2>4. QED
        BY <2>2, <2>3
<1>2. CASE Read
    <2>1. in_progress' /\ reason' = "none"
        BY <1>2 DEF Read, Receives, TypeInv, ControlInv
    <2>2. QED
        BY <2>1
<1>3. CASE Arm \/ RecvBegins \/ ReadEnds \/ ReadFails \/ ReadTimesOut \/ ReadGivesUp
    <2>1. /\ pc \in {"arm", "armed", "read"} /\ UNCHANGED <<in_progress, partial, buffered>>
          /\ reason = "none"
        BY <1>3 DEF Arm, RecvBegins, ReadEnds, ReadFails, ReadTimesOut, ReadGivesUp, readerVars,
                    TypeInv, ControlInv
    <2>2. reason' = "idle" => ~in_progress
        BY <1>3, <2>1 DEF Arm, RecvBegins, ReadEnds, ReadFails, ReadTimesOut, ReadGivesUp, TimedOut, End
    <2>3. QED
        BY <2>1, <2>2
<1>4. CASE ~(Parse \/ Read \/ Arm \/ RecvBegins \/ ReadEnds \/ ReadFails \/ ReadTimesOut \/ ReadGivesUp)
    <2>1. UNCHANGED <<in_progress, partial, buffered>> /\ (reason' = "idle" => reason = "idle")
        BY <1>4 DEF Next, ServerStep, Send, Fin, ClientReads, ReadInterrupted, Answer, WriteStep,
                    Answered, WriteFails, End, Tick, Closed, vars, readerVars
    <2>2. pc' # "closed" => pc # "closed"
        BY <1>4 DEF Next, ServerStep, Send, Fin, ClientReads, ReadInterrupted, Answer, WriteStep,
                    Answered, WriteFails, End, Tick, Closed, vars, TypeInv, ControlInv, WriteReturns
    <2>3. QED
        BY <2>1, <2>2
<1>5. QED
    BY <1>1, <1>2, <1>3, <1>4

LEMMA PatientInvariant == Spec => []PatientInv
<1>1. Init => PatientInv
    BY DEF Init, PatientInv
<1>2. TypeInv /\ TypeInv' /\ AccountInv /\ AccountInv' /\ PatientInv /\ [Next]_vars => PatientInv'
    BY NextPatient
<1>3. QED
    BY <1>1, <1>2, TypeInvariant, AccountInvariant, PTL DEF Spec

\* A client that awaits each answer before it sends on is never closed on as idle
\* with part of a request unanswered (connection.cpp:18-31, 45-73,
\* docs/design/09-deadlines.md:20-25).
THEOREM PatientClientsAreTold == Spec => []PatientClientIsTold
<1>1. PatientInv => PatientClientIsTold
    BY DEF PatientInv, PatientClientIsTold, StalledRequestIsTold
<1>2. QED
    BY <1>1, PatientInvariant, PTL

-----------------------------------------------------------------------------
(* How long a request is waited for.                                       *)

ClockTypes ==
    /\ requestLeft \in 0..RequestLimit
    /\ age \in 0..RequestLimit
    /\ waited \in 0..WaitedCap
    /\ readTimeout \in {Never} \cup 1..Longest
    /\ readLeft \in {Never} \cup 0..Longest
    /\ signals \in Nat
    /\ in_progress \in BOOLEAN /\ partial \in BOOLEAN /\ eager \in BOOLEAN

LEMMA ClockTyped == TypeInv => ClockTypes
<1> SUFFICES ASSUME TypeInv PROVE ClockTypes
    OBVIOUS
<1>1. signals \in Nat
    BY Limits DEF TypeInv, TypeOK, SocketTypeOK
<1>2. QED
    BY <1>1 DEF TypeInv, TypeOK, ClockTypes

\* What a request may be waited for: a client that pipelines can have the idle
\* limit on top, before the flag is set.
Allowed == RequestLimit + IF eager THEN IdleLimit ELSE 0

\* And the recv under way, before or after.
RecvAllowed == IF in_progress THEN Allowed ELSE IdleLimit

\* What a request was waited for and what is left of its deadline, or of the recv
\* under way, stay within what is allowed and what the restarts of recv add.
WaitInv ==
    /\ ~in_progress /\ pc \notin {"read", "closed"} => waited = 0
    /\ in_progress /\ requestLeft > 0 => waited + requestLeft <= PerSignal(Allowed)
    /\ pc = "armed" => /\ readTimeout \in 1..RecvAllowed
                       /\ waited + readTimeout <= PerSignal(RecvAllowed)
    /\ pc = "read" => /\ readTimeout \in 1..RecvAllowed
                      /\ readLeft \in 0..readTimeout
                      /\ waited + readLeft <= PerSignal(RecvAllowed)

LEMMA AllowedType ==
    TypeInv => /\ Allowed \in Nat /\ RequestLimit <= Allowed
               /\ eager => Allowed = RequestLimit + IdleLimit
               /\ RecvAllowed \in Nat
BY Limits, ClockTyped DEF ClockTypes, Allowed, RecvAllowed

\* What is allowed does not shrink.
LEMMA SignalsAdd ==
    ASSUME TypeInv, signals' \in {signals, signals + 1}, NEW limit \in Nat
    PROVE  /\ PerSignal(limit) \in Nat /\ PerSignal(limit)' \in Nat
           /\ limit <= PerSignal(limit)
           /\ PerSignal(limit) <= PerSignal(limit)'
           /\ signals' = signals + 1 => PerSignal(limit)' = PerSignal(limit) + limit
<1>1. PICK s \in Nat : s = signals
    BY ClockTyped DEF ClockTypes
<1>2. PerSignal(limit) = limit * (1 + s) /\ limit * (1 + s) \in Nat /\ limit <= limit * (1 + s)
    BY <1>1, Restarts DEF PerSignal
<1>3. CASE signals' = signals
    BY <1>1, <1>2, <1>3 DEF PerSignal
<1>4. CASE signals' = signals + 1
    <2>1. PerSignal(limit)' = limit * (1 + (s + 1))
        BY <1>1, <1>4 DEF PerSignal
    <2>2. limit * (1 + (s + 1)) = limit * (1 + s) + limit
        BY Restarts
    <2>3. QED
        BY <1>2, <2>1, <2>2
<1>5. QED
    BY <1>3, <1>4

LEMMA WaitAtRest ==
    ASSUME TypeInv, WaitInv, UNCHANGED <<eager, in_progress, requestLeft, waited>>,
           signals' \in {signals, signals + 1},
           pc' \notin {"armed", "read"} \/ (UNCHANGED <<pc, readTimeout, readLeft>> /\ signals' = signals),
           ~in_progress /\ pc' \notin {"read", "closed"} => pc \notin {"read", "closed"}
    PROVE  WaitInv'
<1>1. PICK a \in Nat, w \in Nat, q \in Nat :
          a = Allowed /\ a = Allowed' /\ w = waited /\ q = requestLeft
    BY AllowedType, ClockTyped, Limits, WaitedCapType DEF ClockTypes, Allowed
<1>2. PerSignal(a) \in Nat /\ PerSignal(a)' \in Nat /\ PerSignal(a) <= PerSignal(a)'
    BY SignalsAdd
<1>3. in_progress' /\ requestLeft' > 0 => waited' + requestLeft' <= PerSignal(Allowed)'
    <2>1. SUFFICES ASSUME in_progress, q > 0 PROVE w + q <= PerSignal(a)'
        BY <1>1 DEF PerSignal
    <2>2. w + q <= PerSignal(a)
        BY <1>1, <2>1 DEF WaitInv
    <2>3. QED
        BY <1>2, <2>2
<1>4. ~in_progress' /\ pc' \notin {"read", "closed"} => waited' = 0
    BY DEF WaitInv
<1>5. CASE pc' \notin {"armed", "read"}
    BY <1>3, <1>4, <1>5 DEF WaitInv
<1>6. CASE UNCHANGED <<pc, readTimeout, readLeft>> /\ signals' = signals
    <2>1. RecvAllowed' = RecvAllowed /\ PerSignal(RecvAllowed)' = PerSignal(RecvAllowed)
        BY <1>6 DEF RecvAllowed, Allowed, PerSignal
    <2>2. QED
        BY <1>3, <1>4, <1>6, <2>1 DEF WaitInv
<1>7. QED
    BY <1>5, <1>6

LEMMA WaitParses ==
    ASSUME TypeInv, WaitInv, Parse
    PROVE  WaitInv'
<1>0. /\ pc = "parse" /\ UNCHANGED <<eager, signals>> /\ ClockTypes
      /\ pc' \in {"answer", "arm"}
    BY ParseFinds, ClockTyped DEF Parse, clientVars, socketVars
<1>1. waited' = 0 \/ waited' = waited
    BY ParseFinds, ClocksMove
<1>2. in_progress' => in_progress /\ requestLeft' = requestLeft
    BY <1>0, ParseFinds DEF FlagAfter, ClockTypes
<1>3. ~in_progress' => waited' = 0
    <2>1. CASE ~in_progress
        BY <1>0, <1>1, <2>1 DEF WaitInv
    <2>2. CASE in_progress /\ ~in_progress'
        <3>1. PICK i \in 1..Len(buffered) : /\ in_progress' = FlagAfter(buffered[i])
                                            /\ RequestsEnd(SubSeq(buffered, 1, i))
            BY <2>2, ParseFinds
        <3>2. buffered[i].what = "good"
            BY <2>2, <3>1 DEF FlagAfter
        <3>3. /\ Len(SubSeq(buffered, 1, i)) = i /\ i \in 1..i
              /\ SubSeq(buffered, 1, i)[i] = buffered[i]
            BY FlowTypes, SubSeqProperties
        <3>4. QED
            BY <3>1, <3>2, <3>3 DEF RequestsEnd
    <2>3. QED
        BY <2>1, <2>2
<1>4. in_progress' /\ requestLeft' > 0 => waited' + requestLeft' <= PerSignal(Allowed)'
    <2>1. SUFFICES ASSUME in_progress', requestLeft' > 0
                   PROVE  waited' + requestLeft <= PerSignal(Allowed)
        BY <1>0, <1>2 DEF PerSignal, Allowed
    <2>2. waited + requestLeft <= PerSignal(Allowed)
        BY <1>2, <2>1 DEF WaitInv
    <2>3. PICK w \in Nat, q \in Nat, a \in Nat :
              /\ w = waited /\ q = requestLeft /\ a = PerSignal(Allowed) /\ w + q <= a
        <3>1. PerSignal(Allowed) \in Nat
            BY <1>0, AllowedType, SignalsAdd
        <3>2. waited \in Nat /\ requestLeft \in Nat
            BY <1>0, Limits, WaitedCapType DEF ClockTypes
        <3>3. QED
            BY <2>2, <3>1, <3>2
    <2>4. 0 + q <= a
        BY <2>3
    <2>5. QED
        BY <1>1, <2>3, <2>4
<1>5. QED
    BY <1>0, <1>3, <1>4 DEF WaitInv

LEMMA WaitArms ==
    ASSUME TypeInv, WaitInv, Arm
    PROVE  WaitInv'
<1>0. /\ pc = "arm" /\ UNCHANGED <<eager, in_progress, requestLeft, waited, signals>> /\ ClockTypes
    BY ClockTyped DEF Arm, clientVars, ageVars, socketVars
<1>1. CASE in_progress /\ ~HasTimeLeft(requestLeft)
    <2>1. pc' = "answer" /\ signals' \in {signals, signals + 1}
        BY <1>0, <1>1 DEF Arm, TimedOut
    <2>2. QED
        BY <1>0, <1>1, <2>1, WaitAtRest
<1>2. CASE ~(in_progress /\ ~HasTimeLeft(requestLeft))
    <2>1. readTimeout' = ReadLimit /\ pc' = "armed"
        BY <1>2, ReadLimitType DEF Arm, TypeInv
    <2>2. /\ RecvAllowed' = RecvAllowed /\ PerSignal(RecvAllowed)' = PerSignal(RecvAllowed)
          /\ Allowed' = Allowed /\ PerSignal(Allowed)' = PerSignal(Allowed)
        BY <1>0 DEF RecvAllowed, Allowed, PerSignal
    <2>3. CASE in_progress
        <3>1. ReadLimit = requestLeft /\ requestLeft > 0
            BY <1>2, <2>3 DEF ReadLimit, HasTimeLeft
        <3>2. waited + requestLeft <= PerSignal(RecvAllowed)
            BY <2>3, <3>1 DEF WaitInv, RecvAllowed
        <3>3. requestLeft \in 1..RecvAllowed
            BY <1>0, <2>3, <3>1, AllowedType, Limits DEF ClockTypes, RecvAllowed
        <3>4. QED
            BY <1>0, <2>1, <2>2, <2>3, <3>1, <3>2, <3>3 DEF WaitInv
    <2>4. CASE ~in_progress
        <3>1. ReadLimit = IdleLimit /\ RecvAllowed = IdleLimit /\ waited = 0
            BY <1>0, <2>4 DEF ReadLimit, RecvAllowed, WaitInv
        <3>2. 0 + IdleLimit <= PerSignal(IdleLimit) /\ IdleLimit \in 1..IdleLimit
            BY <1>0, Limits, SignalsAdd
        <3>3. QED
            BY <1>0, <2>1, <2>2, <2>4, <3>1, <3>2 DEF WaitInv
    <2>5. QED
        BY <1>0, <2>3, <2>4
<1>3. QED
    BY <1>1, <1>2

LEMMA WaitBegins ==
    ASSUME TypeInv, WaitInv, RecvBegins
    PROVE  WaitInv'
<1>0. /\ pc = "armed" /\ pc' = "read" /\ readLeft' = readTimeout
      /\ UNCHANGED <<eager, in_progress, requestLeft, readTimeout, waited, signals>>
    BY DEF RecvBegins, clientVars, ageVars, socketVars
<1>1. /\ RecvAllowed' = RecvAllowed /\ PerSignal(RecvAllowed)' = PerSignal(RecvAllowed)
      /\ PerSignal(Allowed)' = PerSignal(Allowed)
    BY <1>0 DEF RecvAllowed, Allowed, PerSignal
<1>2. readTimeout \in 1..RecvAllowed /\ readTimeout \in 0..readTimeout
    BY <1>0, AllowedType DEF WaitInv
<1>3. QED
    BY <1>0, <1>1, <1>2 DEF WaitInv

LEMMA Together ==
    ASSUME NEW w \in Nat, NEW t \in Nat, NEW i \in Nat, NEW q \in Nat, NEW r \in Nat, NEW m \in Nat,
           w + t <= i, q <= m, m <= r
    PROVE  w + q <= r + i
OBVIOUS

LEMMA WaitReads ==
    ASSUME TypeInv, WaitInv, PatientInv, Read
    PROVE  WaitInv'
<1>0. /\ pc = "read" /\ pc' = "parse" /\ in_progress'
      /\ IF in_progress THEN UNCHANGED requestLeft ELSE requestLeft' \in Deadline(RequestLimit)
      /\ RequestContinues
      /\ UNCHANGED <<eager, signals>> /\ ClockTypes
    BY ClockTyped DEF Read, Receives, clientVars, socketVars
<1>1. PICK a \in Nat, w \in Nat, t \in Nat, p \in Nat :
          /\ a = Allowed /\ w = waited /\ t = readLeft /\ p = PerSignal(a)
          /\ w + t <= PerSignal(RecvAllowed)
    <2>1. readTimeout \in 1..RecvAllowed /\ readLeft \in 0..readTimeout
        BY <1>0 DEF WaitInv
    <2>2. readLeft \in Nat
        BY <2>1, AllowedType
    <2>3. PerSignal(Allowed) \in Nat
        BY <1>0, AllowedType, SignalsAdd
    <2>4. QED
        BY <1>0, <2>2, <2>3, AllowedType, WaitedCapType DEF ClockTypes, WaitInv
<1>2. PICK q \in Nat : q = requestLeft'
    BY <1>0, Limits, Timeouts DEF ClockTypes
<1>3. SUFFICES ASSUME q > 0 PROVE waited' + q <= p
    BY <1>0, <1>1, <1>2 DEF WaitInv, PerSignal, Allowed
<1>4. CASE in_progress
    <2>1. q = requestLeft
        BY <1>0, <1>2, <1>4
    <2>2. w + q <= p
        BY <1>1, <1>3, <1>4, <2>1 DEF WaitInv
    <2>3. waited' = 0 \/ waited' = w
        BY <1>0, <1>1, ClocksMove
    <2>4. 0 + q <= p
        BY <1>1, <1>2, <2>2
    <2>5. QED
        BY <2>2, <2>3, <2>4
<1>5. CASE ~in_progress
    <2>1. q <= RequestLimit
        BY <1>0, <1>2, <1>5, Limits, Timeouts
    <2>2. CASE partial
        <3>1. waited' = w /\ eager
            BY <1>0, <1>1, <1>5, <2>2, ClocksMove DEF PatientInv, ClockTypes
        <3>2. a = RequestLimit + IdleLimit
            BY <1>1, <3>1, AllowedType
        <3>3. PICK s \in Nat, i \in Nat, r \in Nat :
                  s = signals /\ i = IdleLimit * (1 + s) /\ r = RequestLimit * (1 + s)
            BY <1>0, Limits, Restarts DEF ClockTypes
        <3>4. p = r + i /\ RequestLimit <= r
            BY <1>1, <3>2, <3>3, Limits, Restarts DEF PerSignal
        <3>5. w + t <= i
            BY <1>1, <1>5, <3>3 DEF RecvAllowed, PerSignal
        <3>6. w + q <= p
            <4>1. RequestLimit \in Nat
                BY Limits
            <4>2. w + q <= r + i
                BY <4>1, <1>1, <1>2, <2>1, <3>3, <3>4, <3>5, Together
            <4>3. QED
                BY <3>4, <4>2
        <3>7. QED
            BY <3>1, <3>6
    <2>3. CASE ~partial
        <3>1. waited' = 0
            BY <1>0, <2>3, ClocksMove
        <3>2. a <= p /\ RequestLimit <= a
            BY <1>0, <1>1, AllowedType, SignalsAdd
        <3>3. 0 + q <= p
            BY <1>1, <1>2, <2>1, <3>2, Limits
        <3>4. QED
            BY <3>1, <3>3
    <2>4. QED
        BY <2>2, <2>3
<1>6. QED
    BY <1>4, <1>5

\* A signal gives the recv its whole timeout again: as much as is allowed, at most.
LEMMA WaitInterrupted ==
    ASSUME TypeInv, WaitInv, ReadInterrupted
    PROVE  WaitInv'
<1>0. /\ pc = "read" /\ pc' = pc /\ readLeft' = readTimeout /\ signals' = signals + 1
      /\ UNCHANGED <<eager, in_progress, requestLeft, readTimeout, waited>> /\ ClockTypes
    BY ClockTyped DEF ReadInterrupted, clientVars, ageVars
<1>1. PICK a \in Nat, b \in Nat, w \in Nat, q \in Nat :
          /\ a = Allowed /\ a = Allowed' /\ b = RecvAllowed /\ b = RecvAllowed'
          /\ w = waited /\ q = requestLeft
    BY <1>0, AllowedType, Limits, WaitedCapType DEF ClockTypes, Allowed, RecvAllowed
<1>2. /\ PerSignal(a) \in Nat /\ PerSignal(a)' \in Nat /\ PerSignal(a) <= PerSignal(a)'
      /\ PerSignal(b) \in Nat /\ PerSignal(b)' = PerSignal(b) + b
    BY <1>0, SignalsAdd
<1>3. PICK t \in Nat, l \in Nat :
          /\ t = readTimeout /\ l = readLeft /\ 1 <= t /\ t <= b /\ l <= t /\ w + l <= PerSignal(b)
    <2>1. /\ readTimeout \in 1..b /\ readLeft \in 0..readTimeout /\ w + readLeft <= PerSignal(b)
        BY <1>0, <1>1 DEF WaitInv
    <2>2. QED
        BY <2>1
<1>4. w + t <= PerSignal(b) + b
    BY <1>1, <1>2, <1>3
<1>5. in_progress /\ q > 0 => w + q <= PerSignal(a)'
    <2>1. in_progress /\ q > 0 => w + q <= PerSignal(a)
        BY <1>1 DEF WaitInv
    <2>2. SUFFICES ASSUME in_progress, q > 0 PROVE w + q <= PerSignal(a)'
        OBVIOUS
    <2>3. QED
        BY <1>2, <2>1, <2>2
<1>6. PerSignal(Allowed)' = PerSignal(a)' /\ PerSignal(RecvAllowed)' = PerSignal(b)'
    BY <1>1 DEF PerSignal
<1>7. readTimeout \in 1..b /\ readTimeout \in 0..readTimeout
    BY <1>3
<1>8. QED
    BY <1>0, <1>1, <1>2, <1>3, <1>4, <1>5, <1>6, <1>7 DEF WaitInv

LEMMA WaitTicks ==
    ASSUME TypeInv, WaitInv, Tick
    PROVE  WaitInv'
<1>0. /\ pc' = pc /\ requestLeft' = Less(requestLeft) /\ readLeft' = Less(readLeft)
      /\ ~(pc = "read" /\ readLeft = 0)
      /\ waited' = IF pc = "read" /\ partial THEN More(waited, WaitedCap) ELSE waited
      /\ UNCHANGED <<eager, in_progress, readTimeout, signals>> /\ ClockTypes
    BY ClockTyped DEF Tick, SocketTick, clientVars
<1>1. PICK a \in Nat, b \in Nat, w \in Nat, q \in Nat :
          /\ a = PerSignal(Allowed) /\ a = PerSignal(Allowed)'
          /\ b = PerSignal(RecvAllowed) /\ b = PerSignal(RecvAllowed)'
          /\ w = waited /\ q = requestLeft
    <2>1. PerSignal(Allowed) \in Nat /\ PerSignal(RecvAllowed) \in Nat
        BY <1>0, AllowedType, SignalsAdd
    <2>2. PerSignal(Allowed)' = PerSignal(Allowed) /\ PerSignal(RecvAllowed)' = PerSignal(RecvAllowed)
        BY <1>0 DEF PerSignal, Allowed, RecvAllowed
    <2>3. waited \in Nat /\ requestLeft \in Nat
        BY <1>0, Limits, WaitedCapType DEF ClockTypes
    <2>4. QED
        BY <2>1, <2>2, <2>3
<1>2. PICK w1 \in Nat : w1 = waited' /\ w1 <= w + 1 /\ (pc # "read" => w1 = w)
    <2>1. /\ More(waited, WaitedCap) \in Nat /\ More(waited, WaitedCap) <= waited + 1
        <3>1. waited \in 0..WaitedCap
            BY <1>0 DEF ClockTypes
        <3>2. /\ More(waited, WaitedCap) \in 0..WaitedCap
              /\ More(waited, WaitedCap) <= waited + 1
            BY <3>1, WaitedCapType, Counting
        <3>3. QED
            BY <3>2, WaitedCapType
    <2>2. QED
        BY <1>0, <1>1, <2>1
<1>3. requestLeft' = IF q > 0 THEN q - 1 ELSE 0
    BY <1>0, <1>1 DEF Less
<1>4. in_progress' /\ requestLeft' > 0 => waited' + requestLeft' <= PerSignal(Allowed)'
    <2>1. SUFFICES ASSUME in_progress, requestLeft' > 0 PROVE w1 + requestLeft' <= a
        BY <1>0, <1>1, <1>2
    <2>2. q > 0 /\ requestLeft' = q - 1
        BY <1>1, <1>3, <2>1
    <2>3. w + q <= a
        BY <1>1, <2>1, <2>2 DEF WaitInv
    <2>4. QED
        BY <1>1, <1>2, <2>2, <2>3, OneTickLess
<1>5. CASE pc = "read"
    <2>1. RecvAllowed' = RecvAllowed
        BY <1>0 DEF RecvAllowed, Allowed
    <2>2. readTimeout \in 1..RecvAllowed /\ readLeft \in 0..readTimeout /\ w + readLeft <= b
        BY <1>1, <1>5 DEF WaitInv
    <2>3. PICK t \in Nat, l \in Nat : t = readTimeout /\ l = readLeft /\ l > 0 /\ l <= t
        BY <1>0, <1>5, <2>2, AllowedType
    <2>4. readLeft' = l - 1 /\ l - 1 \in 0..t
        BY <1>0, <2>3 DEF Less
    <2>5. w1 + (l - 1) <= b
        BY <1>1, <1>2, <2>2, <2>3, OneTickLess
    <2>6. QED
        BY <1>0, <1>1, <1>2, <1>4, <1>5, <2>1, <2>2, <2>3, <2>4, <2>5 DEF WaitInv
<1>6. CASE pc # "read"
    <2>1. waited' = waited /\ RecvAllowed' = RecvAllowed
        BY <1>0, <1>1, <1>2, <1>6 DEF RecvAllowed, Allowed
    <2>2. QED
        BY <1>0, <1>1, <1>4, <1>6, <2>1 DEF WaitInv
<1>7. QED
    BY <1>5, <1>6

LEMMA NextWait ==
    ASSUME TypeInv, PatientInv, WaitInv, [Next]_vars
    PROVE  WaitInv'
<1>0. signals \in Nat
    BY ClockTyped DEF ClockTypes
<1>1. CASE Send \/ Fin \/ ClientReads \/ Closed \/ UNCHANGED vars
    <2>1. UNCHANGED <<eager, in_progress, requestLeft, waited, signals, pc, readTimeout, readLeft>>
        BY <1>1 DEF Send, Fin, ClientReads, PeerReads, Closed, vars, clientVars, clockVars, ageVars,
                    socketVars
    <2>2. QED
        BY <2>1, WaitAtRest
<1>2. CASE ReadEnds \/ ReadFails \/ ReadTimesOut \/ ReadGivesUp
    <2>1. /\ UNCHANGED <<eager, in_progress, requestLeft, waited, signals>>
          /\ pc' \in {"closed", "answer"} /\ (~in_progress => pc' = "closed")
        BY <1>2 DEF ReadEnds, ReadFails, ReadTimesOut, ReadGivesUp, TimedOut, End, clientVars, ageVars,
                    socketVars
    <2>2. QED
        BY <2>1, WaitAtRest
<1>3. CASE Answer \/ WriteStep \/ Answered \/ WriteFails
    <2>1. /\ UNCHANGED <<eager, in_progress, requestLeft, waited>> /\ pc \in {"answer", "write"}
          /\ pc' \in {"write", "closed", "parse"}
        BY <1>3 DEF Answer, WriteStep, Answered, WriteFails, End, clientVars, clockVars, ageVars, TypeInv,
                    ControlInv, WriteReturns, Writing, Round, SendBegins, SendEnds, SendMoves, SendReturns,
                    SendTimesOut, SendInterrupted, SendFails
    <2>2. signals' \in {signals, signals + 1}
        BY <1>3 DEF Answer, Write, WriteStep, Answered, WriteFails, WriteReturns, Writing, Round, SendBegins,
                    SendEnds, SendMoves, SendReturns, SendTimesOut, SendInterrupted, SendFails
    <2>3. QED
        BY <2>1, <2>2, WaitAtRest
<1>4. QED
    BY <1>1, <1>2, <1>3, WaitParses, WaitArms, WaitBegins, WaitReads, WaitInterrupted, WaitTicks
       DEF Next, ServerStep

\* However a client drips a request in, in whatever company its first bytes came,
\* the server waits for the rest of it no longer than deadlines.request from those
\* bytes on, and deadlines.idle on top if the client pipelines, and as much again
\* for each signal that made recv start over (connection.cpp:18-52,
\* socket.cpp:55-82).
THEOREM DrippingIsBounded == Spec => []DripIsBounded
<1>1. Init => WaitInv
    BY DEF Init, WaitInv
<1>2. TypeInv /\ PatientInv /\ WaitInv /\ [Next]_vars => WaitInv'
    BY NextWait
<1>3. ASSUME TypeInv, PatientInv, WaitInv PROVE DripIsBounded
    <2>1. SUFFICES ASSUME pc = "read", partial PROVE waited <= PerSignal(Allowed)
        BY DEF DripIsBounded, Allowed
    <2>2. PICK s \in Nat, w \in Nat, l \in Nat :
              s = signals /\ w = waited /\ l = readLeft /\ w + l <= RecvAllowed * (1 + s)
        <3>1. /\ readTimeout \in 1..RecvAllowed /\ readLeft \in 0..readTimeout
              /\ waited + readLeft <= RecvAllowed * (1 + signals)
            BY <1>3, <2>1 DEF WaitInv, PerSignal
        <3>2. readLeft \in Nat /\ waited \in Nat /\ signals \in Nat
            BY <1>3, <3>1, AllowedType, ClockTyped, WaitedCapType DEF ClockTypes
        <3>3. QED
            BY <3>1, <3>2
    <2>3. CASE in_progress
        <3>1. PICK a \in Nat : a = Allowed * (1 + s) /\ w + l <= a
            BY <1>3, <2>2, <2>3, AllowedType, Restarts DEF RecvAllowed
        <3>2. w <= a
            BY <2>2, <3>1
        <3>3. QED
            BY <2>2, <3>1, <3>2 DEF PerSignal
    <2>4. CASE ~in_progress
        <3>1. eager
            BY <1>3, <2>1, <2>4, ClockTyped DEF PatientInv, ClockTypes
        <3>2. Allowed = RequestLimit + IdleLimit
            BY <1>3, <3>1, AllowedType
        <3>3. PICK i \in Nat, r \in Nat : /\ i = IdleLimit * (1 + s) /\ r = RequestLimit * (1 + s)
                                          /\ (RequestLimit + IdleLimit) * (1 + s) = r + i
            BY <2>2, Limits, Restarts
        <3>4. w + l <= i
            BY <2>2, <2>4, <3>3 DEF RecvAllowed
        <3>5. w <= r + i
            BY <2>2, <3>3, <3>4
        <3>6. QED
            BY <2>2, <3>2, <3>3, <3>5 DEF PerSignal
    <2>5. QED
        BY <1>3, <2>3, <2>4, ClockTyped DEF ClockTypes
<1>4. QED
    BY <1>1, <1>2, <1>3, TypeInvariant, PatientInvariant, PTL DEF Spec

-----------------------------------------------------------------------------
(* Who is timed out too early.                                             *)

NotAfterRefusal == replies = <<>> \/ Last(replies).to.what # "refused"

InRead == pc \in {"parse", "arm", "armed", "read"}

\* Unless the answer before was to a refused request, "in progress" means part of
\* a request, and what is left of its deadline is what its age leaves of the limit.
EarlyInv ==
    /\ pc \in {"answer", "write"} /\ verdict.what = "good" => ~in_progress
    /\ RequestLimit <= Representable /\ NotAfterRefusal =>
          /\ InRead /\ in_progress => /\ partial \/ (pc = "parse" /\ buffered # <<>>)
                                      /\ age + requestLeft >= RequestLimit
          /\ pc = "armed" /\ in_progress => requestLeft <= readTimeout
          /\ pc = "read" /\ in_progress => requestLeft <= readLeft /\ readLeft <= readTimeout
          /\ verdict = Late /\ ~gone => age >= RequestLimit

\* The end of a refused body is not read before the next answer but behind one to
\* the request refused.
LEMMA NothingDrained ==
    ASSUME TypeInv, AccountInv, AnswersFollowRequests, NotAfterRefusal, pc = "parse",
           \A i \in 1..Len(buffered) : ~IsResult(buffered[i])
    PROVE  \A i \in 1..Len(buffered) : buffered[i].what # "drained"
<1>1. PICK k \in Nat : Account(k)
    BY DEF AccountInv
<1>2. PICK b \in Nat, w \in Nat, r \in Nat, z \in Nat, n \in Nat :
          /\ b = Len(buffered) /\ w = Len(wire) /\ r = Len(replies) /\ z = sent /\ n = Len(stream)
          /\ z <= n /\ k + b + w = z
    BY <1>1, FlowTypes DEF Account, Flow
<1>3. /\ \A i \in 1..b : buffered[i] = stream[k + i] /\ ~IsResult(stream[k + i])
      /\ Ended(k) = r
      /\ \A i \in 1..r : replies[i].to # Late
    <2>1. Flow(k) /\ Count(k) /\ ~Outstanding
        BY <1>1 DEF Account, Outstanding
    <2>2. Ended(k) = r + 0
        BY <1>2, <2>1 DEF Count
    <2>3. QED
        BY <1>2, <2>1, <2>2 DEF Flow, Count
<1>4. SUFFICES ASSUME NEW i \in 1..b, stream[k + i].what = "drained"
               PROVE  FALSE
    BY <1>2, <1>3
<1>5. k + i \in 1..n
    BY <1>2
<1>6. PICK j \in 1..((k + i) - 1) : /\ stream[j].what = "refused"
                                    /\ \A m \in (j + 1)..((k + i) - 1) : stream[m].what = "drain"
    <2>1. stream \in Streams
        BY DEF TypeInv, TypeOK
    <2>2. k + i \in 1..Len(stream) /\ stream[k + i].what \in {"drain", "drained"}
        BY <1>2, <1>4, <1>5
    <2>3. QED
        BY <2>1, <2>2, ConnectionAssumption DEF ConnectionAssumption
<1>7. j \in Nat /\ j > 0 /\ IsResult(stream[j]) /\ j < k + i
    BY <1>6 DEF IsResult, Results
<1>8. j <= k
    <2>1. SUFFICES ASSUME j > k PROVE FALSE
        BY <1>7
    <2>2. j - k \in 1..b /\ k + (j - k) = j
        BY <1>7, <2>1
    <2>3. QED
        BY <1>3, <1>7, <2>2
<1>9. Ended(j) = r
    <2>1. k - j \in Nat /\ j + (k - j) = k
        BY <1>7, <1>8
    <2>2. ASSUME NEW m \in 1..(k - j) PROVE ~IsResult(stream[j + m])
        <3>1. j + m \in (j + 1)..((k + i) - 1)
            BY <1>7, <1>8, <2>2
        <3>2. QED
            BY <1>6, <3>1 DEF IsResult, Results
    <2>3. QED
        BY <1>3, <1>7, <2>1, <2>2, EndedSkips
<1>10. r > 0
    <2>1. PICK p \in Nat : p + 1 = j
        <3>1. j - 1 \in Nat /\ (j - 1) + 1 = j
            BY <1>7
        <3>2. QED
            BY <3>1
    <2>2. Ended(p + 1) = Ended(p) + 1
        <3>1. 1 \in Nat \ {0} /\ \A m \in 1..(1 - 1) : FALSE
            OBVIOUS
        <3>2. IsResult(stream[p + 1])
            BY <1>7, <2>1
        <3>3. QED
            BY <3>1, <3>2, EndedNext
    <2>3. Ended(p) \in Nat
        BY EndedType
    <2>4. r = Ended(p) + 1
        BY <1>9, <2>1, <2>2
    <2>5. QED
        BY <2>3, <2>4
<1>11. PICK h \in 1..z : IsResult(stream[h]) /\ Ended(h) = r /\ replies[r].to = stream[h]
    <2>1. r \in 1..r /\ replies[r].to # Late
        BY <1>3, <1>10
    <2>2. QED
        BY <1>2, <2>1 DEF AnswersFollowRequests
<1>12. h = j
    <2>1. h \in Nat
        BY <1>2
    <2>2. ~(j < h)
        <3>1. SUFFICES ASSUME j < h PROVE FALSE
            OBVIOUS
        <3>2. j <= h /\ Ended(j) = Ended(h) /\ h \in 1..h
            BY <1>7, <1>9, <1>11, <2>1, <3>1
        <3>3. QED
            BY <1>7, <1>11, <2>1, <3>1, <3>2, EndedGrows
    <2>3. ~(h < j)
        <3>1. SUFFICES ASSUME h < j PROVE FALSE
            OBVIOUS
        <3>2. h <= j /\ Ended(h) = Ended(j) /\ j \in 1..j
            BY <1>7, <1>9, <1>11, <2>1, <3>1
        <3>3. QED
            BY <1>7, <1>11, <2>1, <3>1, <3>2, EndedGrows
    <2>4. QED
        BY <1>7, <2>1, <2>2, <2>3
<1>13. replies # <<>> /\ Last(replies) = replies[r]
    BY <1>2, <1>10, EmptySeq DEF Last
<1>14. QED
    BY <1>6, <1>11, <1>12, <1>13 DEF NotAfterRefusal

\* Nothing of what the deadline depends on changes.
LEMMA EarlyAtRest ==
    ASSUME EarlyInv,
           UNCHANGED <<pc, in_progress, partial, buffered, requestLeft, readTimeout, readLeft, age,
                       replies, verdict, gone>>
    PROVE  EarlyInv'
<1>1. NotAfterRefusal' = NotAfterRefusal /\ Late' = Late /\ InRead' = InRead
    BY DEF NotAfterRefusal, Late, InRead
<1>2. QED
    BY <1>1 DEF EarlyInv

\* Out of the recv and of the parser, with no answer under way or one to a 408.
LEMMA EarlyLeaves ==
    ASSUME EarlyInv, TypeInv, UNCHANGED <<age, replies>>, pc' \in {"answer", "closed"},
           \/ UNCHANGED verdict /\ verdict # Late
           \/ /\ verdict' = Late
              /\ RequestLimit <= Representable /\ NotAfterRefusal /\ ~gone' => age >= RequestLimit,
           pc' = "answer" => verdict' = Late
    PROVE  EarlyInv'
<1>1. NotAfterRefusal' = NotAfterRefusal /\ Late.what # "good" /\ ~InRead'
    BY DEF NotAfterRefusal, Late, InRead
<1>2. QED
    BY <1>1, Zenon DEF EarlyInv

LEMMA EarlyParses ==
    ASSUME TypeInv, AccountInv, AnswersFollowRequests, EarlyInv, Parse
    PROVE  EarlyInv'
<1>0. /\ pc = "parse" /\ verdict = Nothing /\ verdict # Late /\ UNCHANGED <<replies, gone>> /\ InRead
    BY ResultsAreUnits DEF Parse, socketVars, peerVars, TypeInv, ControlInv, InRead
<1>1. NotAfterRefusal' = NotAfterRefusal
    BY <1>0 DEF NotAfterRefusal
<1>2. CASE pc' = "arm"
    <2>1. /\ \A i \in 1..Len(buffered) : ~IsResult(buffered[i])
          /\ partial' = IF buffered = <<>> THEN partial ELSE Last(buffered).what # "drained"
          /\ RequestsEnd(buffered)
          /\ UNCHANGED <<in_progress, requestLeft, verdict>>
        BY <1>2, ParseFinds
    <2>2. ASSUME RequestLimit <= Representable, NotAfterRefusal, in_progress
          PROVE  partial' /\ age' + requestLeft' >= RequestLimit
        <3>1. /\ partial \/ buffered # <<>>
              /\ age + requestLeft >= RequestLimit
            BY <1>0, <2>2 DEF EarlyInv
        <3>2. \A i \in 1..Len(buffered) : buffered[i].what # "drained"
            BY <1>0, <2>1, <2>2, NothingDrained
        <3>3. \A i \in 1..Len(buffered) : buffered[i].what \notin {"good", "fatal", "drained"}
            BY <2>1, <3>2 DEF IsResult, Results
        <3>4. age' = age
            BY <2>1, <3>3 DEF RequestsEnd, ageVars
        <3>5. buffered # <<>> => Last(buffered).what # "drained"
            <4>1. buffered # <<>> => Len(buffered) \in 1..Len(buffered)
                BY FlowTypes, EmptySeq
            <4>2. QED
                BY <3>2, <4>1 DEF Last
        <3>6. QED
            BY <2>1, <3>1, <3>4, <3>5
    <2>3. QED
        BY <1>0, <1>1, <1>2, <2>1, <2>2 DEF EarlyInv
<1>3. CASE pc' # "arm"
    <2>1. /\ verdict' \in Units /\ pc' = "answer" /\ in_progress' = FlagAfter(verdict')
        BY <1>3, ParseFinds
    <2>2. verdict' # Late /\ (verdict'.what = "good" => ~in_progress')
        BY <2>1, ResultsAreUnits DEF FlagAfter
    <2>3. QED
        BY <2>1, <2>2 DEF EarlyInv, InRead
<1>4. QED
    BY <1>2, <1>3

LEMMA EarlyArms ==
    ASSUME TypeInv, EarlyInv, Arm
    PROVE  EarlyInv'
<1>0. /\ pc = "arm" /\ verdict # Late /\ InRead
      /\ UNCHANGED <<in_progress, partial, requestLeft, age, replies, gone>> /\ ClockTypes
    BY ResultsAreUnits, ClockTyped
       DEF Arm, readerVars, ageVars, socketVars, peerVars, TypeInv, ControlInv, InRead
<1>1. CASE in_progress /\ ~HasTimeLeft(requestLeft)
    <2>1. requestLeft = 0 /\ pc' = "answer" /\ verdict' = Late
        BY <1>0, <1>1, Limits DEF Arm, ClockTypes, HasTimeLeft, TimedOut
    <2>2. RequestLimit <= Representable /\ NotAfterRefusal => age >= RequestLimit
        <3>1. RequestLimit <= Representable /\ NotAfterRefusal => age + 0 >= RequestLimit
            BY <1>0, <1>1, <2>1 DEF EarlyInv
        <3>2. QED
            BY <1>0, <3>1, Limits DEF ClockTypes
    <2>3. QED
        BY <1>0, <2>1, <2>2, EarlyLeaves
<1>2. CASE ~(in_progress /\ ~HasTimeLeft(requestLeft))
    <2>1. readTimeout' = ReadLimit /\ pc' = "armed" /\ verdict' = verdict
        BY <1>2, ReadLimitType DEF Arm, TypeInv
    <2>2. in_progress => readTimeout' = requestLeft /\ requestLeft <= requestLeft
        BY <1>0, <2>1, Limits DEF ReadLimit, ClockTypes
    <2>3. NotAfterRefusal' = NotAfterRefusal
        BY <1>0 DEF NotAfterRefusal
    <2>4. QED
        BY <1>0, <2>1, <2>2, <2>3 DEF EarlyInv
<1>3. QED
    BY <1>1, <1>2

LEMMA EarlyBegins ==
    ASSUME TypeInv, EarlyInv, RecvBegins
    PROVE  EarlyInv'
<1>0. /\ pc = "armed" /\ pc' = "read" /\ readLeft' = readTimeout /\ verdict # Late /\ InRead
      /\ UNCHANGED <<in_progress, partial, requestLeft, readTimeout, age, replies, verdict, gone>>
    BY ResultsAreUnits
       DEF RecvBegins, readerVars, ageVars, socketVars, peerVars, TypeInv, ControlInv, InRead
<1>1. NotAfterRefusal' = NotAfterRefusal
    BY <1>0 DEF NotAfterRefusal
<1>2. readTimeout <= readTimeout
    BY ClockTyped, Limits DEF ClockTypes, Never
<1>3. QED
    BY <1>0, <1>1, <1>2 DEF EarlyInv

LEMMA EarlyReads ==
    ASSUME TypeInv, EarlyInv, Read
    PROVE  EarlyInv'
<1>0. /\ pc = "read" /\ pc' = "parse" /\ verdict # Late /\ InRead
      /\ in_progress'
      /\ IF in_progress THEN UNCHANGED requestLeft ELSE requestLeft' \in Deadline(RequestLimit)
      /\ RequestContinues
      /\ UNCHANGED <<partial, replies, verdict, gone>> /\ ClockTypes
    BY ResultsAreUnits, ClockTyped
       DEF Read, Receives, socketVars, peerVars, TypeInv, ControlInv, InRead
<1>1. buffered' # <<>>
    <2>1. PICK n \in 1..Len(wire) : buffered' = buffered \o SubSeq(wire, 1, n)
        BY DEF Read, Receives
    <2>2. Len(SubSeq(wire, 1, n)) = n /\ SubSeq(wire, 1, n) \in Seq(Units) /\ n \in Nat /\ n > 0
        BY FlowTypes, SubSeqProperties
    <2>3. Len(buffered') = Len(buffered) + n
        BY <2>1, <2>2, FlowTypes, ConcatProperties
    <2>4. PICK b \in Nat : b = Len(buffered) /\ b + n # 0
        BY <2>2, FlowTypes
    <2>5. QED
        BY <2>3, <2>4
<1>2. ASSUME RequestLimit <= Representable, NotAfterRefusal
      PROVE  age' + requestLeft' >= RequestLimit
    <2>1. CASE in_progress
        <3>1. partial /\ age + requestLeft >= RequestLimit
            BY <1>0, <1>2, <2>1 DEF EarlyInv
        <3>2. QED
            BY <1>0, <2>1, <3>1, ClocksMove
    <2>2. CASE ~in_progress
        <3>1. requestLeft' = RequestLimit
            BY <1>0, <1>2, <2>2, Timeouts
        <3>2. PICK e \in Nat, R \in Nat : e = age' /\ R = RequestLimit
            BY <1>0, ClocksMove, Limits DEF ClockTypes
        <3>3. e + R >= R
            OBVIOUS
        <3>4. QED
            BY <3>1, <3>2, <3>3
    <2>3. QED
        BY <2>1, <2>2
<1>3. NotAfterRefusal' = NotAfterRefusal
    BY <1>0 DEF NotAfterRefusal
<1>4. QED
    BY <1>0, <1>1, <1>2, <1>3 DEF EarlyInv

LEMMA EarlyInterrupted ==
    ASSUME TypeInv, EarlyInv, ReadInterrupted
    PROVE  EarlyInv'
<1>0. /\ pc = "read" /\ pc' = "read" /\ readLeft' = readTimeout /\ verdict # Late /\ InRead
      /\ UNCHANGED <<in_progress, partial, requestLeft, readTimeout, age, replies, verdict, gone>>
      /\ ClockTypes
    BY ResultsAreUnits, ClockTyped
       DEF ReadInterrupted, readerVars, ageVars, peerVars, TypeInv, ControlInv, InRead
<1>1. NotAfterRefusal' = NotAfterRefusal
    BY <1>0 DEF NotAfterRefusal
<1>2. requestLeft <= readLeft /\ readLeft <= readTimeout =>
          requestLeft <= readTimeout /\ readTimeout <= readTimeout
    BY <1>0, Limits DEF ClockTypes, Never
<1>3. QED
    BY <1>0, <1>1, <1>2 DEF EarlyInv

LEMMA EarlyTimesOut ==
    ASSUME TypeInv, EarlyInv, ReadTimesOut \/ ReadGivesUp
    PROVE  EarlyInv'
<1>0. /\ pc = "read" /\ verdict # Late /\ InRead
      /\ UNCHANGED <<age, replies>> /\ TimedOut
      /\ gone' \/ readLeft = 0
      /\ ClockTypes
    BY ResultsAreUnits, ClockTyped
       DEF ReadTimesOut, ReadGivesUp, ageVars, socketVars, peerVars, TypeInv, ControlInv, InRead
<1>1. CASE ~in_progress
    <2>1. pc' = "closed" /\ verdict' = verdict
        BY <1>0, <1>1 DEF TimedOut, End
    <2>2. QED
        BY <1>0, <2>1, EarlyLeaves
<1>2. CASE in_progress
    <2>1. pc' = "answer" /\ verdict' = Late
        BY <1>0, <1>2 DEF TimedOut
    <2>2. ASSUME RequestLimit <= Representable, NotAfterRefusal, ~gone'
          PROVE  age >= RequestLimit
        <3>1. readLeft = 0 /\ ClockTypes
            BY <1>0, <2>2
        <3>2. requestLeft <= 0 /\ age + requestLeft >= RequestLimit
            BY <1>0, <1>2, <2>2, <3>1 DEF EarlyInv
        <3>3. QED
            BY <3>1, <3>2, Limits DEF ClockTypes
    <2>3. QED
        BY <1>0, <2>1, <2>2, EarlyLeaves
<1>3. QED
    BY <1>1, <1>2

LEMMA EarlyAnswered ==
    ASSUME TypeInv, AccountInv, EarlyInv, Answered
    PROVE  EarlyInv'
<1>0. /\ pc = "write" /\ verdict' = Nothing /\ UNCHANGED in_progress
      /\ replies' = Append(replies, [to |-> verdict, close |-> Closing(verdict)])
      /\ IF Closing(verdict) THEN pc' = "closed" ELSE pc' = "parse"
      /\ Nothing # Late /\ Nothing.what # "good"
    BY ResultsAreUnits DEF Answered, End, readerVars, TypeInv, ControlInv, WriteReturns, Nothing
<1>1. CASE Closing(verdict)
    BY <1>0, <1>1 DEF EarlyInv, InRead
<1>2. CASE ~Closing(verdict)
    <2>1. PICK k \in Nat : Account(k)
        BY DEF AccountInv
    <2>2. verdict \in Units /\ IsResult(verdict)
        BY <1>0, <1>2, <2>1, ClosingLast DEF Account, Count, Outstanding, TypeInv, TypeOK, ControlInv
    <2>3. verdict.what \in {"good", "refused"}
        BY <1>2, <2>2, ClosingLast
    <2>4. Last(replies').to = verdict /\ replies' # <<>>
        <3> DEFINE reply == [to |-> verdict, close |-> Closing(verdict)]
        <3>1. PICK r \in Nat : r = Len(replies)
            BY FlowTypes
        <3>2. reply \in [to : Units \cup {Late}, close : BOOLEAN] /\ reply.to = verdict
            BY <2>2 DEF Closing, ClientWantsClose
        <3>3. replies \in Seq([to : Units \cup {Late}, close : BOOLEAN]) /\ replies' = Append(replies, reply)
            BY <1>0 DEF TypeInv, TypeOK
        <3> HIDE DEF reply
        <3>4. /\ Len(replies') = r + 1 /\ replies' # <<>>
              /\ replies'[r + 1] = reply
            BY <3>1, <3>2, <3>3, AppendProperties
        <3>5. QED
            BY <3>2, <3>4 DEF Last
    <2>5. NotAfterRefusal' => ~in_progress'
        <3>1. NotAfterRefusal' => verdict.what = "good"
            BY <2>3, <2>4 DEF NotAfterRefusal
        <3>2. QED
            BY <1>0, <3>1 DEF EarlyInv
    <2>6. QED
        BY <1>0, <1>2, <2>5 DEF EarlyInv, InRead
<1>3. QED
    BY <1>1, <1>2

\* A tick is counted at once in what has passed and in what is left, or all has.
LEMMA OneTickMore ==
    ASSUME NEW past \in Nat, NEW left \in Nat, NEW limit \in Nat, past + left >= limit
    PROVE  /\ (past + 1) + (IF left > 0 THEN left - 1 ELSE 0) >= limit
           /\ past = limit => past + (IF left > 0 THEN left - 1 ELSE 0) >= limit
OBVIOUS

LEMMA EarlyTicks ==
    ASSUME TypeInv, EarlyInv, Tick
    PROVE  EarlyInv'
<1>0. /\ pc' = pc /\ requestLeft' = Less(requestLeft) /\ readLeft' = Less(readLeft)
      /\ ~(pc = "read" /\ readLeft = 0)
      /\ age' = IF partial \/ buffered # <<>> THEN More(age, RequestLimit) ELSE age
      /\ UNCHANGED <<in_progress, partial, buffered, readTimeout, replies, verdict, gone>> /\ ClockTypes
    BY ClockTyped DEF Tick, SocketTick, readerVars, peerVars
<1>1. PICK e \in Nat, q \in Nat, d \in Nat, R \in Nat :
          /\ e = age /\ q = requestLeft /\ d = age' /\ R = RequestLimit /\ e <= d
          /\ partial \/ buffered # <<>> => d = e + 1 \/ (d = e /\ e = R)
    <2>1. /\ More(age, RequestLimit) \in Nat /\ age <= More(age, RequestLimit)
          /\ More(age, RequestLimit) = age + 1 \/ (More(age, RequestLimit) = age /\ age = RequestLimit)
        <3>1. age \in 0..RequestLimit
            BY <1>0 DEF ClockTypes
        <3>2. QED
            BY <3>1, Limits, Counting
    <2>2. age \in Nat /\ requestLeft \in Nat /\ RequestLimit \in Nat /\ age <= age
        BY <1>0, Limits DEF ClockTypes
    <2>3. QED
        BY <1>0, <2>1, <2>2
<1>2. requestLeft' = IF q > 0 THEN q - 1 ELSE 0
    BY <1>0, <1>1 DEF Less
<1>3. NotAfterRefusal' = NotAfterRefusal /\ InRead' = InRead
    BY <1>0 DEF NotAfterRefusal, InRead
<1>4. ASSUME RequestLimit <= Representable, NotAfterRefusal, InRead, in_progress
      PROVE  /\ partial' \/ (pc' = "parse" /\ buffered' # <<>>)
             /\ age' + requestLeft' >= RequestLimit
    <2>1. partial \/ (pc = "parse" /\ buffered # <<>>)
        BY <1>4 DEF EarlyInv
    <2>2. e + q >= R
        BY <1>1, <1>4 DEF EarlyInv
    <2>3. d = e + 1 \/ (d = e /\ e = R)
        BY <1>1, <2>1
    <2>4. d + (IF q > 0 THEN q - 1 ELSE 0) >= R
        BY <2>2, <2>3, OneTickMore
    <2>5. QED
        BY <1>0, <1>1, <1>2, <2>1, <2>4
<1>5. ASSUME RequestLimit <= Representable, NotAfterRefusal, in_progress, pc = "armed"
      PROVE  requestLeft' <= readTimeout'
    <2>1. requestLeft <= readTimeout
        BY <1>5 DEF EarlyInv
    <2>2. QED
        BY <1>0, <1>1, <1>2, <2>1, Limits DEF ClockTypes, Never
<1>6. ASSUME RequestLimit <= Representable, NotAfterRefusal, in_progress, pc = "read"
      PROVE  requestLeft' <= readLeft' /\ readLeft' <= readTimeout'
    <2>1. requestLeft <= readLeft /\ readLeft <= readTimeout
        BY <1>6 DEF EarlyInv
    <2>2. PICK l \in Nat, t \in Int : /\ l = readLeft /\ t = readTimeout /\ l > 0
                                      /\ q <= l /\ l <= t
        BY <1>0, <1>1, <1>6, <2>1, Limits DEF ClockTypes, Never
    <2>3. readLeft' = l - 1
        BY <1>0, <2>2 DEF Less
    <2>4. (IF q > 0 THEN q - 1 ELSE 0) <= l - 1 /\ l - 1 <= t
        BY <2>2
    <2>5. QED
        BY <1>0, <1>2, <2>2, <2>3, <2>4
<1>7. ASSUME RequestLimit <= Representable, NotAfterRefusal, verdict = Late, ~gone
      PROVE  age' >= RequestLimit
    <2>1. e >= R
        BY <1>1, <1>7 DEF EarlyInv
    <2>2. QED
        BY <1>1, <2>1
<1>8. QED
    BY <1>0, <1>3, <1>4, <1>5, <1>6, <1>7, Zenon DEF EarlyInv

LEMMA NextEarly ==
    ASSUME TypeInv, AccountInv, AnswersFollowRequests, EarlyInv, [Next]_vars
    PROVE  EarlyInv'
<1>1. CASE Send \/ Fin \/ ClientReads \/ WriteStep \/ Closed \/ UNCHANGED vars
    <2>1. UNCHANGED <<pc, in_progress, partial, buffered, requestLeft, readTimeout, readLeft, age,
                      replies, verdict, gone>>
        BY <1>1 DEF Send, Fin, ClientReads, PeerReads, WriteStep, Writing, Round, SendBegins, SendEnds,
                    SendMoves, SendReturns, SendTimesOut, SendInterrupted, SendFails, SendComesBack,
                    Closed, vars, readerVars, clockVars, ageVars, socketVars, peerVars
    <2>2. QED
        BY <2>1, EarlyAtRest
<1>2. CASE ReadEnds \/ ReadFails
    <2>1. /\ UNCHANGED <<age, replies, verdict>> /\ pc' = "closed" /\ verdict # Late
        BY <1>2, ResultsAreUnits DEF ReadEnds, ReadFails, End, ageVars, TypeInv, ControlInv
    <2>2. QED
        BY <2>1, EarlyLeaves
<1>3. CASE Answer \/ WriteFails
    <2>1. /\ UNCHANGED <<in_progress, age, replies, verdict, gone>> /\ pc \in {"answer", "write"}
          /\ pc' \in {"write", "closed"}
        BY <1>3 DEF Answer, Write, WriteFails, WriteReturns, End, clockVars, ageVars, peerVars,
                    TypeInv, ControlInv
    <2>2. NotAfterRefusal' = NotAfterRefusal
        BY <2>1 DEF NotAfterRefusal
    <2>3. QED
        BY <2>1, <2>2 DEF EarlyInv, InRead
<1>4. QED
    BY <1>1, <1>2, <1>3, EarlyParses, EarlyArms, EarlyBegins, EarlyReads, EarlyInterrupted, EarlyTimesOut,
       EarlyAnswered, EarlyTicks
       DEF Next, ServerStep

\* Under a limit the clock can hold, a request that does not follow the answer to a
\* refused one is not timed out by the server before deadlines.request has passed
\* since its first bytes were read, however it was cut and whatever it came with
\* (connection.cpp:24-73, serve.cpp:155-170).
THEOREM TimeoutsAreDue == Spec => []FreshDeadlinesAreKept
<1>1. Init => EarlyInv
    BY ResultsAreUnits DEF Init, EarlyInv
<1>2. TypeInv /\ AccountInv /\ AnswersFollowRequests /\ EarlyInv /\ [Next]_vars => EarlyInv'
    BY NextEarly
<1>3. EarlyInv => FreshDeadlinesAreKept
    BY DEF EarlyInv, FreshDeadlinesAreKept, NotAfterRefusal
<1>4. QED
    BY <1>1, <1>2, <1>3, TypeInvariant, AccountInvariant, AnswersAreInTurn, PTL DEF Spec

-----------------------------------------------------------------------------
(***************************************************************************)
(* Induction over the natural numbers, for a set rather than a predicate:  *)
(* what holds 0 and with each number the next one holds all of them.       *)
(***************************************************************************)
LEMMA LeastOf ==
    ASSUME NEW U, U \subseteq Nat, U # {}
    PROVE  \E x \in U : \A y \in U : x <= y
<1> DEFINE R == {ss \in Nat \X Nat : ss[1] < ss[2]}
<1>1. IsWellFoundedOn(R, Nat)
    BY NatLessThanWellFounded DEF OpToRel
<1>2. PICK x \in U : \A y \in U : ~ (<<y, x>> \in R)
    <2> HIDE DEF R
    <2> QED BY <1>1, WFMin
<1>3. ASSUME NEW y \in U PROVE x <= y
    <2>1. <<y, x>> \notin R
        BY <1>2
    <2>2. QED
        BY <2>1
<1>4. QED
    BY <1>3

LEMMA NatInductive ==
    ASSUME NEW T, 0 \in T, \A n \in Nat : n \in T => n + 1 \in T
    PROVE  Nat \subseteq T
<1> SUFFICES ASSUME Nat \ T # {} PROVE FALSE
    OBVIOUS
<1>1. PICK x \in Nat \ T : \A y \in Nat \ T : x <= y
    BY LeastOf
<1>2. x \in Nat /\ x # 0 /\ x - 1 \in Nat
    OBVIOUS
<1>3. x - 1 \in T
    BY <1>1, <1>2
<1>4. QED
    BY <1>2, <1>3

-----------------------------------------------------------------------------
(* Flattening.                                                             *)

FlattenOf(f, seqs, n) ==
    f = [i \in 1..n |-> IF i = 1 THEN seqs[i] ELSE f[i - 1] \o seqs[i]]

LEMMA AFlatteningExists ==
    ASSUME NEW seqs, NEW n \in Nat
    PROVE  \E f : FlattenOf(f, seqs, n)
<1> DEFINE T == {k \in Nat : \E f : FlattenOf(f, seqs, k)}
<1>1. 0 \in T
    <2> DEFINE f == [i \in 1..0 |-> <<>>]
    <2>1. f = [i \in 1..0 |-> IF i = 1 THEN seqs[i] ELSE f[i - 1] \o seqs[i]]
        OBVIOUS
    <2>2. QED
        BY <2>1 DEF FlattenOf
<1>2. ASSUME NEW k \in Nat, k \in T
      PROVE  k + 1 \in T
    <2>1. PICK f : FlattenOf(f, seqs, k)
        BY <1>2
    <2> DEFINE last == IF k = 0 THEN seqs[1] ELSE f[k] \o seqs[k + 1]
               g == [i \in 1..(k + 1) |-> IF i = k + 1 THEN last ELSE f[i]]
    <2>2. \A i \in 1..k : g[i] = f[i]
        OBVIOUS
    <2>3. ASSUME NEW i \in 1..(k + 1)
          PROVE  g[i] = IF i = 1 THEN seqs[i] ELSE g[i - 1] \o seqs[i]
        <3>1. CASE i = k + 1
            <4>1. g[i] = last
                BY <3>1
            <4>2. k # 0 => g[i - 1] = f[k]
                BY <3>1
            <4>3. QED
                BY <3>1, <4>1, <4>2
        <3>2. CASE i \in 1..k
            <4>1. i # 1 => i - 1 \in 1..k
                BY <3>2
            <4>2. f[i] = IF i = 1 THEN seqs[i] ELSE f[i - 1] \o seqs[i]
                BY <2>1, <3>2 DEF FlattenOf
            <4>3. QED
                BY <2>2, <3>2, <4>1, <4>2
        <3>3. QED
            BY <3>1, <3>2
    <2>4. FlattenOf(g, seqs, k + 1)
        <3>1. g = [i \in 1..(k + 1) |-> g[i]]
            OBVIOUS
        <3> HIDE DEF g
        <3>2. QED
            BY <2>3, <3>1 DEF FlattenOf
    <2>5. QED
        BY <2>4
<1>3. QED
    BY <1>1, <1>2, NatInductive

LEMMA FlattenSeqUnfolds ==
    ASSUME NEW S, NEW seqs \in Seq(S)
    PROVE  \E f : /\ FlattenOf(f, seqs, Len(seqs))
                  /\ FlattenSeq(seqs) = IF seqs = <<>> THEN <<>> ELSE f[Len(seqs)]
<1> DEFINE f == CHOOSE f : f = [i \in 1..Len(seqs) |->
                                   IF i = 1 THEN seqs[i] ELSE f[i - 1] \o seqs[i]]
<1>1. f = CHOOSE g : FlattenOf(g, seqs, Len(seqs))
    BY DEF FlattenOf
<1>2. FlattenOf(f, seqs, Len(seqs))
    BY <1>1, AFlatteningExists
<1>3. Len(seqs) = 0 <=> seqs = <<>>
    OBVIOUS
<1>4. FlattenSeq(seqs) = IF seqs = <<>> THEN <<>> ELSE f[Len(seqs)]
    BY <1>3 DEF FlattenSeq
<1>5. QED
    BY <1>2, <1>4

LEMMA FlattenSeqType ==
    ASSUME NEW S, NEW seqs \in Seq(Seq(S))
    PROVE  FlattenSeq(seqs) \in Seq(S)
<1>1. PICK f : /\ FlattenOf(f, seqs, Len(seqs))
               /\ FlattenSeq(seqs) = IF seqs = <<>> THEN <<>> ELSE f[Len(seqs)]
    BY FlattenSeqUnfolds
<1> DEFINE n == Len(seqs)
           T == {k \in Nat : k \in 1..n => f[k] \in Seq(S)}
<1>2. n \in Nat /\ \A i \in 1..n : seqs[i] \in Seq(S)
    OBVIOUS
<1>3. 0 \in T
    OBVIOUS
<1>4. ASSUME NEW k \in Nat, k \in T
      PROVE  k + 1 \in T
    <2>1. SUFFICES ASSUME k + 1 \in 1..n PROVE f[k + 1] \in Seq(S)
        OBVIOUS
    <2>2. f[k + 1] = IF k + 1 = 1 THEN seqs[k + 1] ELSE f[(k + 1) - 1] \o seqs[k + 1]
        BY <1>1, <2>1 DEF FlattenOf
    <2>3. CASE k = 0
        BY <1>2, <2>1, <2>2, <2>3
    <2>4. CASE k # 0
        <3>1. (k + 1) - 1 = k /\ k \in 1..n /\ k + 1 # 1
            BY <1>2, <2>1, <2>4
        <3>2. f[k] \in Seq(S) /\ seqs[k + 1] \in Seq(S)
            BY <1>2, <1>4, <2>1, <3>1
        <3>3. QED
            BY <2>2, <3>1, <3>2
    <2>5. QED
        BY <2>3, <2>4
<1>5. Nat \subseteq T
    <2> HIDE DEF T
    <2> QED BY <1>3, <1>4, NatInductive
<1>6. seqs # <<>> => n \in 1..n
    BY <1>2
<1>7. QED
    BY <1>1, <1>2, <1>5, <1>6

LEMMA Associates ==
    \A S : \A a, b, c \in Seq(S) : (a \o b) \o c = a \o (b \o c)
BY ConcatAssociative

LEMMA Extended ==
    \A S : \A s \in Seq(S), x \in S :
        /\ Append(s, x) \in Seq(S)
        /\ Len(Append(s, x)) = Len(s) + 1 /\ Append(s, x) # <<>>
        /\ Append(s, x)[Len(s) + 1] = x
        /\ \A i \in 1..Len(s) : Append(s, x)[i] = s[i]
BY AppendProperties

LEMMA FlattenAppend ==
    ASSUME NEW S, NEW seqs \in Seq(Seq(S)), NEW s \in Seq(S)
    PROVE  FlattenSeq(Append(seqs, s)) = FlattenSeq(seqs) \o s
<1> PICK n \in Nat : n = Len(seqs)
    BY LenProperties
<1> DEFINE more == Append(seqs, s)
<1>1. /\ more \in Seq(Seq(S)) /\ Len(more) = n + 1 /\ more # <<>>
      /\ more[n + 1] = s
      /\ \A i \in 1..n : more[i] = seqs[i]
    BY Extended
<1> HIDE DEF more
<1>2. PICK f : /\ FlattenOf(f, seqs, n)
               /\ FlattenSeq(seqs) = IF seqs = <<>> THEN <<>> ELSE f[n]
    BY FlattenSeqUnfolds
<1>3. PICK g : /\ FlattenOf(g, more, n + 1)
               /\ FlattenSeq(more) = g[n + 1]
    BY <1>1, FlattenSeqUnfolds
<1>4. /\ \A i \in 1..n : f[i] = IF i = 1 THEN seqs[i] ELSE f[i - 1] \o seqs[i]
      /\ \A i \in 1..(n + 1) : g[i] = IF i = 1 THEN more[i] ELSE g[i - 1] \o more[i]
    BY <1>2, <1>3 DEF FlattenOf
<1> DEFINE T == {k \in Nat : k \in 1..n => f[k] = g[k]}
<1>5. 0 \in T
    OBVIOUS
<1>6. ASSUME NEW k \in Nat, k \in T PROVE k + 1 \in T
    <2>1. SUFFICES ASSUME k + 1 \in 1..n PROVE f[k + 1] = g[k + 1]
        OBVIOUS
    <2>2. PICK m \in 1..n : m = k + 1 /\ m \in 1..(n + 1) /\ m - 1 = k
        BY <2>1
    <2>3. m # 1 => f[k] = g[k]
        BY <1>6, <2>2
    <2>4. f[m] = IF m = 1 THEN seqs[m] ELSE f[m - 1] \o seqs[m]
        BY <1>4
    <2>5. g[m] = IF m = 1 THEN more[m] ELSE g[m - 1] \o more[m]
        BY <1>4, <2>2
    <2>6. more[m] = seqs[m]
        BY <1>1
    <2>7. QED
        BY <2>2, <2>3, <2>4, <2>5, <2>6
<1>7. Nat \subseteq T
    <2> HIDE DEF T
    <2> QED BY <1>5, <1>6, NatInductive
<1>8. CASE n = 0
    <2>1. seqs = <<>>
        BY <1>8, EmptySeq
    <2>2. n + 1 = 1 /\ 1 \in 1..(n + 1)
        BY <1>8
    <2>3. g[1] = more[1]
        BY <1>4, <2>2
    <2>4. FlattenSeq(more) = s
        BY <1>1, <1>3, <2>2, <2>3
    <2>5. <<>> \o s = s
        BY ConcatEmptySeq
    <2>6. QED
        BY <1>1, <1>2, <2>1, <2>4, <2>5 DEF more
<1>9. CASE n # 0
    <2>1. n \in 1..n /\ n + 1 \in 1..(n + 1) /\ n + 1 # 1 /\ (n + 1) - 1 = n
        BY <1>9
    <2>2. f[n] = g[n]
        BY <1>7, <2>1
    <2>3. g[n + 1] = g[n] \o more[n + 1]
        BY <1>4, <2>1
    <2>4. seqs # <<>>
        BY <1>9, EmptySeq
    <2>5. QED
        BY <1>1, <1>2, <1>3, <2>2, <2>3, <2>4 DEF more
<1>10. QED
    BY <1>8, <1>9

LEMMA PrefixOfConcat ==
    ASSUME NEW S, NEW s \in Seq(S), NEW t \in Seq(S)
    PROVE  IsPrefix(s, s \o t)
<1> PICK n \in Nat : n = Len(s)
    BY LenProperties
<1>1. Len(s \o t) >= n
    BY ConcatProperties, LenProperties
<1>2. SubSeq(s, 1, n) = s
    BY SubSeqFull
<1>3. SubSeq(s \o t, 1, n) = SubSeq(s, 1, n)
    <2>1. CASE n = 0
        <3>1. SubSeq(s \o t, 1, 0) = <<>> /\ SubSeq(s, 1, 0) = <<>>
            BY SubSeqEmpty
        <3>2. QED
            BY <2>1, <3>1
    <2>2. CASE n # 0
        <3>1. 1 \in 1..n /\ n \in 1..n
            BY <2>2
        <3>2. QED
            BY <3>1, SubSeqOfConcat1
    <2>3. QED
        BY <2>1, <2>2
<1>4. QED
    BY <1>1, <1>2, <1>3 DEF IsPrefix

-----------------------------------------------------------------------------
(* What reaches the client.                                                *)

Pieces == {"head", "body"}

NoHeadRefused == \A i \in 1..sent : ~(stream[i].what = "refused" /\ stream[i].head)

\* What the write under way has yet to place.
Unplaced == SubSeq(unsent, moved + 1, Len(unsent))

\* Delivered are the replies so far and a part of one to this request, but for
\* these pieces.
DeliveredBut(rest, request) ==
    \E placed \in Seq(Pieces) : /\ delivered = ReadInTurn \o placed
                                /\ ReadAs(request) = placed \o rest

FrameInv ==
    /\ call = "none" /\ reason # "lost" => delivered = ReadInTurn
    /\ call # "none" => DeliveredBut(Unplaced, verdict)
    /\ call = "written" => unsent = <<>>
    /\ reason = "lost" => \E request \in Due, rest \in Seq(Pieces) : DeliveredBut(rest, request)

LEMMA ReadAsType == \A request : ReadAs(request) \in Seq(Pieces)
<1>1. <<"head">> \in Seq(Pieces) /\ <<"head", "body">> \in Seq(Pieces)
    BY DEF Pieces
<1>2. QED
    BY <1>1 DEF ReadAs

LEMMA RepliesType ==
    ASSUME NEW S, replies \in Seq(S)
    PROVE  /\ [i \in DOMAIN replies |-> ReadAs(replies[i].to)] \in Seq(Seq(Pieces))
           /\ Len([i \in DOMAIN replies |-> ReadAs(replies[i].to)]) = Len(replies)
           /\ ReadInTurn \in Seq(Pieces)
<1> DEFINE ss == [i \in DOMAIN replies |-> ReadAs(replies[i].to)]
<1> PICK n \in Nat : n = Len(replies) /\ DOMAIN replies = 1..n
    BY LenProperties
<1>1. ss \in Seq(Seq(Pieces)) /\ Len(ss) = n
    <2>1. ss = [i \in 1..n |-> ReadAs(replies[i].to)]
        OBVIOUS
    <2>2. \A i \in 1..n : ReadAs(replies[i].to) \in Seq(Pieces)
        BY ReadAsType
    <2>3. ss \in [1..n -> Seq(Pieces)]
        BY <2>1, <2>2
    <2> HIDE DEF ss
    <2>4. QED
        BY <2>3
<1> HIDE DEF ss
<1>2. FlattenSeq(ss) \in Seq(Pieces)
    BY <1>1, FlattenSeqType
<1>3. QED
    BY <1>1, <1>2 DEF ss, ReadInTurn

\* One more reply is read after the others.
LEMMA OneReplyMore ==
    ASSUME NEW S, replies \in Seq(S), NEW reply \in S, replies' = Append(replies, reply)
    PROVE  ReadInTurn' = ReadInTurn \o ReadAs(reply.to)
<1> DEFINE ss == [i \in DOMAIN replies |-> ReadAs(replies[i].to)]
           more == [i \in DOMAIN Append(replies, reply) |-> ReadAs(Append(replies, reply)[i].to)]
<1> PICK n \in Nat : n = Len(replies) /\ DOMAIN replies = 1..n
    BY LenProperties
<1>1. /\ DOMAIN Append(replies, reply) = 1..(n + 1)
      /\ \A i \in 1..n : Append(replies, reply)[i] = replies[i]
      /\ Append(replies, reply)[n + 1] = reply
    BY AppendProperties, LenProperties
<1>2. ss \in Seq(Seq(Pieces)) /\ Len(ss) = n
    BY RepliesType
<1>3. \A i \in 1..n : ss[i] = ReadAs(replies[i].to)
    OBVIOUS
<1>4. more = [i \in 1..(n + 1) |-> ReadAs(Append(replies, reply)[i].to)]
    BY <1>1
<1>5. /\ \A i \in 1..n : more[i] = ss[i]
      /\ more[n + 1] = ReadAs(reply.to)
    BY <1>1, <1>3, <1>4
<1>6. ReadInTurn' = FlattenSeq(more)
    BY DEF ReadInTurn, ReadAs
<1>7. more = Append(ss, ReadAs(reply.to))
    <2>1. more \in Seq(Seq(Pieces)) /\ Len(more) = n + 1
        <3>1. \A i \in 1..(n + 1) : ReadAs(Append(replies, reply)[i].to) \in Seq(Pieces)
            BY ReadAsType
        <3>2. more \in [1..(n + 1) -> Seq(Pieces)]
            BY <1>4, <3>1
        <3> HIDE DEF more
        <3>3. QED
            BY <3>2
    <2> HIDE DEF more, ss
    <2> DEFINE other == Append(ss, ReadAs(reply.to))
    <2>2. /\ other \in Seq(Seq(Pieces)) /\ Len(other) = n + 1
          /\ \A i \in 1..n : other[i] = ss[i]
          /\ other[n + 1] = ReadAs(reply.to)
        <3> DEFINE x == ReadAs(reply.to)
        <3>1. x \in Seq(Pieces)
            BY ReadAsType
        <3> HIDE DEF x
        <3>2. /\ Append(ss, x) \in Seq(Seq(Pieces)) /\ Len(Append(ss, x)) = n + 1
              /\ \A i \in 1..n : Append(ss, x)[i] = ss[i]
              /\ Append(ss, x)[n + 1] = x
            BY <1>2, <3>1, Extended
        <3>3. QED
            BY <3>2 DEF x
    <2> HIDE DEF other
    <2>3. ASSUME NEW i \in 1..(n + 1) PROVE more[i] = other[i]
        <3>1. i \in 1..n \/ i = n + 1
            OBVIOUS
        <3>2. QED
            BY <1>5, <2>2, <3>1, Zenon
    <2>4. QED
        BY <2>1, <2>2, <2>3, SeqEqual DEF other
<1> HIDE DEF ss, more
<1>8. FlattenSeq(Append(ss, ReadAs(reply.to))) = FlattenSeq(ss) \o ReadAs(reply.to)
    BY <1>2, ReadAsType, FlattenAppend
<1>9. ReadInTurn = FlattenSeq(ss)
    BY DEF ss, ReadInTurn
<1>10. QED
    BY <1>6, <1>7, <1>8, <1>9

LEMMA FrameTypes ==
    ASSUME TypeInv
    PROVE  /\ ReadInTurn \in Seq(Pieces) /\ delivered \in Seq(Pieces)
           /\ unsent \in Seq(Pieces) /\ Len(unsent) \in Nat /\ moved \in 0..Len(unsent)
           /\ Unplaced \in Seq(Pieces)
<1>1. /\ delivered \in Seq(Pieces) /\ unsent \in Seq(Pieces) /\ Len(unsent) \in Nat
      /\ moved \in 0..Len(unsent)
    BY LenProperties DEF TypeInv, TypeOK, SocketTypeOK, Pieces
<1>2. ReadInTurn \in Seq(Pieces)
    BY RepliesType DEF TypeInv, TypeOK
<1>3. Unplaced \in Seq(Pieces)
    <2>1. \A i \in (moved + 1)..Len(unsent) : unsent[i] \in Pieces
        BY <1>1, ElementOfSeq
    <2>2. QED
        BY <1>1, <2>1, SubSeqProperties DEF Unplaced
<1>4. QED
    BY <1>1, <1>2, <1>3

\* What is being answered is due.
LEMMA AnswerIsDue ==
    ASSUME TypeInv, AccountInv, pc \in {"answer", "write"}
    PROVE  /\ verdict \in Due
           /\ verdict = Late \/ \E k \in 1..sent : verdict = stream[k] /\ IsResult(stream[k])
<1>1. PICK k \in Nat : Account(k)
    BY DEF AccountInv
<1>2. CASE verdict = Late
    BY <1>2 DEF Due
<1>3. CASE verdict # Late
    <2>1. k > 0 /\ verdict = stream[k] /\ IsResult(verdict) /\ Ended(k) = Len(replies) + 1
        BY <1>1, <1>3 DEF Account, Count, Outstanding
    <2>2. k \in 1..sent
        <3>1. PICK b \in Nat, w \in Nat, n \in Nat : n = sent /\ k + b + w = n
            BY <1>1, FlowTypes DEF Account, Flow
        <3>2. QED
            BY <2>1, <3>1
    <2>3. QED
        BY <2>1, <2>2 DEF Due
<1>4. QED
    BY <1>2, <1>3

\* A client reads what the server means to write, unless a HEAD is refused.
LEMMA AnswerAsRead ==
    ASSUME TypeInv, AccountInv, NoHeadRefused, pc = "answer"
    PROVE  Serialize(WithBody(verdict)) = ReadAs(verdict)
<1>1. CASE verdict = Late
    BY <1>1 DEF Serialize, WithBody, ReadAs, Late
<1>2. CASE verdict # Late
    <2>1. PICK k \in 1..sent : verdict = stream[k] /\ IsResult(stream[k])
        BY <1>2, AnswerIsDue
    <2>2. ~(verdict.what = "refused" /\ verdict.head)
        BY <2>1 DEF NoHeadRefused
    <2>3. verdict.head \in BOOLEAN
        <3>1. verdict \in Units \cup {Late}
            BY DEF TypeInv, TypeOK, ControlInv
        <3>2. QED
            BY <1>2, <3>1 DEF Units
    <2>4. QED
        BY <2>2, <2>3 DEF Serialize, WithBody, ReadAs
<1>3. QED
    BY <1>1, <1>2

LEMMA SameRead ==
    ASSUME UNCHANGED replies
    PROVE  ReadInTurn' = ReadInTurn
BY DEF ReadInTurn, ReadAs

LEMMA SameDue ==
    ASSUME UNCHANGED <<stream, sent, replies>>
    PROVE  Due' = Due
<1>1. \A j : Ended(j)' = Ended(j)
    BY EndedSame
<1>2. QED
    BY <1>1 DEF Due, IsResult, Late

\* Nothing is written.
LEMMA FrameAtRest ==
    ASSUME FrameInv, UNCHANGED <<call, delivered, unsent, moved, replies, verdict, reason>>,
           reason = "lost" => UNCHANGED <<stream, sent>>
    PROVE  FrameInv'
<1>1. ReadInTurn' = ReadInTurn /\ Unplaced' = Unplaced
    BY SameRead DEF Unplaced
<1>2. \A rest, request : DeliveredBut(rest, request)' <=> DeliveredBut(rest, request)
    BY <1>1 DEF DeliveredBut
<1>3. reason = "lost" => Due' = Due
    BY SameDue
<1>4. call' # "none" => DeliveredBut(Unplaced, verdict)'
    <2>1. call # "none" => DeliveredBut(Unplaced, verdict)
        BY DEF FrameInv
    <2>2. ReadAs(verdict)' = ReadAs(verdict)
        BY DEF ReadAs
    <2>3. QED
        BY <1>1, <2>1, <2>2 DEF DeliveredBut
<1>5. reason' = "lost" => \E request \in Due', rest \in Seq(Pieces) : DeliveredBut(rest, request)'
    <2>1. reason = "lost" => \E request \in Due, rest \in Seq(Pieces) : DeliveredBut(rest, request)
        BY DEF FrameInv
    <2>2. QED
        BY <1>2, <1>3, <2>1, Zenon
<1>6. call' = "none" /\ reason' # "lost" => delivered' = ReadInTurn'
    BY <1>1 DEF FrameInv
<1>7. call' = "written" => unsent' = <<>>
    BY DEF FrameInv
<1>8. QED
    BY <1>4, <1>5, <1>6, <1>7, Zenon DEF FrameInv

\* Between two writes.
LEMMA FrameBetween ==
    ASSUME FrameInv, TypeInv, UNCHANGED <<call, delivered, replies>>, call = "none", reason = "none"
    PROVE  FrameInv'
<1>1. delivered = ReadInTurn /\ ReadInTurn' = ReadInTurn
    BY SameRead DEF FrameInv
<1>2. ReadInTurn \in Seq(Pieces) /\ <<>> \in Seq(Pieces) /\ ReadInTurn \o <<>> = ReadInTurn
    BY FrameTypes, EmptySeq, ConcatEmptySeq
<1>3. ReadAs(Late) \in Seq(Pieces) /\ <<>> \o ReadAs(Late) = ReadAs(Late) /\ Late \in Due'
    BY ReadAsType, ConcatEmptySeq DEF Due, Late
<1>4. DeliveredBut(ReadAs(Late), Late)'
    <2>1. delivered' = ReadInTurn' \o <<>>
        BY <1>1, <1>2
    <2>2. ReadAs(Late)' = ReadAs(Late)
        BY DEF ReadAs, Late
    <2>3. QED
        BY <1>2, <1>3, <2>1, <2>2 DEF DeliveredBut
<1>5. QED
    BY <1>1, <1>3, <1>4 DEF FrameInv

LEMMA FrameAnswers ==
    ASSUME FrameInv, TypeInv, AccountInv, NoHeadRefused, Answer
    PROVE  FrameInv'
<1>0. /\ pc = "answer" /\ call = "none" /\ call' = "round" /\ reason = "none" /\ moved = 0
      /\ unsent' = Serialize(WithBody(verdict))
      /\ UNCHANGED <<delivered, replies, verdict, reason, moved>>
    BY DEF Answer, Write, peerVars, TypeInv, ControlInv
<1>1. delivered' = ReadInTurn' /\ ReadInTurn' \in Seq(Pieces)
    BY <1>0, SameRead, FrameTypes DEF FrameInv
<1>2. unsent' = ReadAs(verdict) /\ unsent' \in Seq(Pieces)
    BY <1>0, AnswerAsRead, ReadAsType
<1>3. Unplaced' = unsent'
    <2>1. moved' + 1 = 1
        BY <1>0
    <2>2. SubSeq(unsent', 1, Len(unsent')) = unsent'
        BY <1>2, SubSeqFull
    <2>3. QED
        BY <2>1, <2>2 DEF Unplaced
<1>4. DeliveredBut(Unplaced, verdict)'
    <2>1. ReadInTurn' \o <<>> = ReadInTurn' /\ <<>> \o unsent' = unsent' /\ <<>> \in Seq(Pieces)
        BY <1>1, <1>2, EmptySeq, ConcatEmptySeq
    <2>2. ReadAs(verdict)' = ReadAs(verdict)
        BY <1>0 DEF ReadAs
    <2>3. QED
        BY <1>1, <1>2, <1>3, <2>1, <2>2 DEF DeliveredBut
<1>5. QED
    BY <1>0, <1>4 DEF FrameInv

LEMMA FrameMoves ==
    ASSUME FrameInv, TypeInv, SendMoves, UNCHANGED <<replies, verdict, reason>>, reason = "none"
    PROVE  FrameInv'
<1>0. /\ call = "send" /\ moved < Len(unsent) /\ moved' = moved + 1
      /\ delivered' = Append(delivered, unsent[moved + 1])
      /\ UNCHANGED <<unsent, call>>
    BY DEF SendMoves
<1>1. PICK n \in Nat, m \in Nat : n = Len(unsent) /\ m = moved /\ m < n
    BY <1>0, FrameTypes
<1>2. PICK placed \in Seq(Pieces) : /\ delivered = ReadInTurn \o placed
                                    /\ ReadAs(verdict) = placed \o Unplaced
    BY <1>0 DEF FrameInv, DeliveredBut
<1>3. PICK piece \in Pieces : piece = unsent[m + 1]
    BY <1>1, FrameTypes, ElementOfSeq
<1>4. /\ <<piece>> \in Seq(Pieces)
      /\ Unplaced' \in Seq(Pieces)
      /\ Unplaced = <<piece>> \o Unplaced'
    <2>1. SubSeq(unsent, m + 1, n) = <<unsent[m + 1]>> \o SubSeq(unsent, (m + 1) + 1, n)
        <3>1. m + 1 \in 1..n /\ n \in (m + 1)..n
            BY <1>1
        <3>2. QED
            BY <1>1, <3>1, FrameTypes, SubSeqRecursiveFirst
    <2>2. Unplaced = SubSeq(unsent, m + 1, n) /\ Unplaced' = SubSeq(unsent, (m + 1) + 1, n)
        BY <1>0, <1>1 DEF Unplaced
    <2>3. SubSeq(unsent, (m + 1) + 1, n) \in Seq(Pieces)
        <3>1. \A i \in ((m + 1) + 1)..n : unsent[i] \in Pieces
            BY <1>1, FrameTypes, ElementOfSeq
        <3>2. QED
            BY <1>1, <3>1, SubSeqProperties
    <2>4. QED
        BY <1>3, <2>1, <2>2, <2>3
<1> DEFINE now == placed \o <<piece>>
<1>5. now \in Seq(Pieces)
    BY <1>4, ConcatProperties
<1>6. delivered' = ReadInTurn' \o now
    <2>1. delivered' = delivered \o <<piece>>
        BY <1>0, <1>1, <1>3, FrameTypes, AppendIsConcat
    <2>2. (ReadInTurn \o placed) \o <<piece>> = ReadInTurn \o now
        <3>1. ReadInTurn \in Seq(Pieces) /\ <<piece>> \in Seq(Pieces)
            BY <1>4, FrameTypes
        <3>2. QED
            BY <3>1, Associates, SMTT(30)
    <2>3. QED
        BY <1>2, <2>1, <2>2, SameRead
<1>7. ReadAs(verdict)' = now \o Unplaced'
    <2>1. (placed \o <<piece>>) \o Unplaced' = placed \o (<<piece>> \o Unplaced')
        BY <1>4, Associates, SMTT(30)
    <2>2. ReadAs(verdict)' = ReadAs(verdict)
        BY DEF ReadAs
    <2>3. QED
        BY <1>2, <1>4, <2>1, <2>2
<1> HIDE DEF now
<1>8. DeliveredBut(Unplaced, verdict)'
    BY <1>5, <1>6, <1>7 DEF DeliveredBut
<1>9. QED
    BY <1>0, <1>8 DEF FrameInv

\* A send comes back, and the next one has what is left.
LEMMA FrameComesBack ==
    ASSUME FrameInv, TypeInv, SendComesBack, call = "send",
           UNCHANGED <<replies, verdict, reason>>, reason = "none"
    PROVE  FrameInv'
<1>0. /\ unsent' = Unplaced /\ call' = "round" /\ moved' = 0 /\ delivered' = delivered
    BY DEF SendComesBack, Rest, peerVars, Unplaced
<1>1. Unplaced' = Unplaced
    <2>1. SubSeq(Unplaced, 1, Len(Unplaced)) = Unplaced
        BY FrameTypes, SubSeqFull
    <2>2. Unplaced' = SubSeq(unsent', 1, Len(unsent'))
        BY <1>0 DEF Unplaced
    <2>3. QED
        BY <1>0, <2>1, <2>2
<1>2. ReadInTurn' = ReadInTurn /\ ReadAs(verdict)' = ReadAs(verdict)
    BY SameRead DEF ReadAs
<1>3. DeliveredBut(Unplaced, verdict)'
    BY <1>0, <1>1, <1>2 DEF FrameInv, DeliveredBut
<1>4. QED
    BY <1>0, <1>3 DEF FrameInv

LEMMA FrameWrites ==
    ASSUME FrameInv, TypeInv, WriteStep
    PROVE  FrameInv'
<1>0. /\ Writing /\ call # "none"
      /\ UNCHANGED <<stream, sent, replies, verdict, reason>>
      /\ reason = "none"
    BY DEF WriteStep, clientVars, TypeInv, ControlInv, Writing, Round, SendBegins, SendEnds, SendMoves,
           SendReturns,
           SendTimesOut, SendInterrupted, SendFails
<1>1. CASE SendMoves
    BY <1>0, <1>1, FrameMoves
<1>2. CASE SendReturns \/ SendInterrupted
    BY <1>0, <1>2, FrameComesBack DEF SendReturns, SendInterrupted
<1>3. CASE Round \/ SendBegins \/ SendTimesOut \/ SendFails
    <2>1. /\ call' # "none" /\ (call' = "written" => unsent' = <<>>)
          /\ UNCHANGED <<unsent, moved, delivered>>
        BY <1>3 DEF Round, SendBegins, SendTimesOut, SendFails, peerVars
    <2>2. ReadInTurn' = ReadInTurn /\ Unplaced' = Unplaced /\ ReadAs(verdict)' = ReadAs(verdict)
        BY <1>0, <2>1, SameRead DEF Unplaced, ReadAs
    <2>3. DeliveredBut(Unplaced, verdict)'
        BY <1>0, <2>1, <2>2 DEF FrameInv, DeliveredBut
    <2>4. QED
        BY <1>0, <2>1, <2>3 DEF FrameInv
<1>4. QED
    BY <1>0, <1>1, <1>2, <1>3 DEF Writing, SendEnds

LEMMA FrameAnswered ==
    ASSUME FrameInv, TypeInv, AccountInv, Answered
    PROVE  FrameInv'
<1>0. /\ call = "written" /\ call' = "none" /\ pc = "write" /\ reason = "none"
      /\ reason' # "lost" /\ delivered' = delivered
      /\ replies' = Append(replies, [to |-> verdict, close |-> Closing(verdict)])
    BY DEF Answered, WriteReturns, End, peerVars, TypeInv, ControlInv
<1>1. unsent = <<>> /\ DeliveredBut(Unplaced, verdict)
    BY <1>0 DEF FrameInv
<1>2. Unplaced = <<>>
    <2>1. Len(unsent) = 0 /\ moved = 0
        BY <1>1, FrameTypes, EmptySeq
    <2>2. SubSeq(unsent, 1, 0) = <<>>
        BY SubSeqEmpty
    <2>3. QED
        BY <2>1, <2>2 DEF Unplaced
<1>3. delivered = ReadInTurn \o ReadAs(verdict)
    <2>1. PICK placed \in Seq(Pieces) : /\ delivered = ReadInTurn \o placed
                                        /\ ReadAs(verdict) = placed \o <<>>
        BY <1>1, <1>2 DEF DeliveredBut
    <2>2. placed \o <<>> = placed
        BY ConcatEmptySeq
    <2>3. QED
        BY <2>1, <2>2
<1>4. ReadInTurn' = ReadInTurn \o ReadAs(verdict)
    <2> DEFINE S == [to : Units \cup {Late}, close : BOOLEAN]
               reply == [to |-> verdict, close |-> Closing(verdict)]
    <2>1. replies \in Seq(S) /\ reply \in S /\ reply.to = verdict
        BY <1>0 DEF Closing, ClientWantsClose, TypeInv, TypeOK, ControlInv
    <2>2. replies' = Append(replies, reply)
        BY <1>0
    <2> HIDE DEF S, reply
    <2>3. QED
        BY <2>1, <2>2, OneReplyMore
<1>5. QED
    BY <1>0, <1>3, <1>4 DEF FrameInv

LEMMA FrameBreaks ==
    ASSUME FrameInv, TypeInv, AccountInv, WriteFails
    PROVE  FrameInv'
<1>0. /\ call = "failed" /\ call' = "none" /\ pc = "write" /\ reason' = "lost"
      /\ UNCHANGED <<stream, sent, replies, verdict, delivered>>
    BY DEF WriteFails, WriteReturns, End, peerVars, clientVars, TypeInv, ControlInv
<1>1. verdict \in Due' /\ Unplaced \in Seq(Pieces) /\ DeliveredBut(Unplaced, verdict)
    BY <1>0, AnswerIsDue, SameDue, FrameTypes DEF FrameInv
<1>2. PICK rest \in Seq(Pieces), request \in Due' :
          \E placed \in Seq(Pieces) : /\ delivered = ReadInTurn \o placed
                                      /\ ReadAs(request) = placed \o rest
    BY <1>1 DEF DeliveredBut
<1>3. \E placed \in Seq(Pieces) : /\ delivered' = ReadInTurn' \o placed
                                  /\ ReadAs(request) = placed \o rest
    BY <1>0, <1>2, SameRead
<1>4. QED
    BY <1>0, <1>3 DEF FrameInv, DeliveredBut, ReadAs

LEMMA NextFrame ==
    ASSUME FrameInv, TypeInv, AccountInv, NoHeadRefused, [Next]_vars
    PROVE  FrameInv'
<1>1. CASE Answer \/ WriteStep \/ Answered \/ WriteFails
    BY <1>1, FrameAnswers, FrameWrites, FrameAnswered, FrameBreaks
<1>2. CASE \/ Parse \/ Arm \/ RecvBegins \/ Read \/ ReadInterrupted \/ ReadEnds \/ ReadFails
           \/ ReadTimesOut \/ ReadGivesUp
    <2>1. /\ pc \in {"parse", "arm", "armed", "read"}
          /\ UNCHANGED <<call, delivered, replies>>
        BY <1>2 DEF Parse, Arm, RecvBegins, Read, ReadInterrupted, ReadEnds, ReadFails, ReadTimesOut,
                    ReadGivesUp, socketVars, sendVars, timeVars, peerVars
    <2>2. QED
        BY <2>1, FrameBetween DEF TypeInv, ControlInv
<1>3. CASE Send \/ Fin \/ ClientReads \/ Tick
    <2>1. /\ UNCHANGED <<call, delivered, unsent, moved, replies, verdict, reason>>
          /\ pc # "closed"
        BY <1>3 DEF Send, Fin, ClientReads, PeerReads, Tick, SocketTick, socketVars, sendVars, timeVars,
                    peerVars
    <2>2. reason = "none"
        BY <2>1 DEF TypeInv, ControlInv
    <2>3. QED
        BY <2>1, <2>2, FrameAtRest
<1>4. CASE Closed \/ UNCHANGED vars
    <2>1. UNCHANGED <<call, delivered, unsent, moved, replies, verdict, reason, stream, sent>>
        BY <1>4 DEF Closed, vars, clientVars, socketVars, sendVars, timeVars, peerVars
    <2>2. QED
        BY <2>1, FrameAtRest
<1>5. QED
    BY <1>1, <1>2, <1>3, <1>4 DEF Next, ServerStep

\* Units once sent are not taken back.
LEMMA RefusalsStay ==
    ASSUME TypeInv, [Next]_vars, NoHeadRefused'
    PROVE  NoHeadRefused
<1>1. stream' = stream /\ (sent' = sent \/ sent' = sent + 1)
    BY DEF Next, ServerStep, Send, Fin, ClientReads, Tick, Closed, Parse, Arm, RecvBegins, Read,
           ReadInterrupted, ReadEnds, ReadFails, ReadTimesOut, ReadGivesUp, Answer, WriteStep, Answered,
           WriteFails, vars, clientVars
<1>2. PICK n \in Nat : n = sent
    BY FlowTypes
<1>3. 1..n \subseteq 1..sent'
    BY <1>1, <1>2
<1>4. QED
    BY <1>1, <1>2, <1>3 DEF NoHeadRefused

LEMMA FramedByInvariant ==
    ASSUME FrameInv, TypeInv, AccountInv
    PROVE  EveryReplyIsFramed
<1>1. \E request \in Due, rest \in Seq(Pieces) : DeliveredBut(rest, request)
    <2>1. CASE call = "none" /\ reason # "lost"
        <3>1. delivered = ReadInTurn \o <<>> /\ <<>> \in Seq(Pieces)
            BY <2>1, FrameTypes, EmptySeq, ConcatEmptySeq DEF FrameInv
        <3>2. ReadAs(Late) \in Seq(Pieces) /\ ReadAs(Late) = <<>> \o ReadAs(Late)
            BY ReadAsType, ConcatEmptySeq
        <3>3. DeliveredBut(ReadAs(Late), Late) /\ Late \in Due
            BY <3>1, <3>2 DEF DeliveredBut, Due
        <3>4. QED
            BY <3>2, <3>3
    <2>2. CASE call # "none"
        <3>1. pc = "write"
            BY <2>2 DEF TypeInv, ControlInv
        <3>2. QED
            BY <2>2, <3>1, AnswerIsDue, FrameTypes DEF FrameInv
    <2>3. CASE reason = "lost"
        BY <2>3 DEF FrameInv
    <2>4. QED
        BY <2>1, <2>2, <2>3
<1>2. PICK request \in Due, rest \in Seq(Pieces), placed \in Seq(Pieces) :
          /\ delivered = ReadInTurn \o placed
          /\ ReadAs(request) = placed \o rest
    BY <1>1 DEF DeliveredBut
<1>3. IsPrefix(ReadInTurn, delivered)
    BY <1>2, FrameTypes, PrefixOfConcat
<1>4. IsPrefix(delivered, ReadInTurn \o ReadAs(request))
    <2>1. (ReadInTurn \o placed) \o rest = ReadInTurn \o (placed \o rest)
        <3>1. ReadInTurn \in Seq(Pieces)
            BY FrameTypes
        <3>2. QED
            BY <3>1, Associates, SMTT(30)
    <2>2. IsPrefix(delivered, delivered \o rest)
        BY FrameTypes, PrefixOfConcat
    <2>3. QED
        BY <1>2, <2>1, <2>2
<1>5. QED
    BY <1>3, <1>4 DEF FrameInv, EveryReplyIsFramed

\* However a response is cut into sends, by signals, timeouts and a client that
\* reads slowly, the client reads whole responses one after the other and part of
\* the next, in every conversation in which no HEAD is refused (socket.cpp:84-108,
\* serve.cpp:145-176).
THEOREM RepliesAreFramed == Spec => []ClientReadsEveryReply
<1> DEFINE Framed == NoHeadRefused => FrameInv
<1>1. ASSUME Init PROVE Framed
    <2>1. call = "none" /\ reason = "none" /\ delivered = <<>> /\ replies = <<>>
        BY <1>1 DEF Init, SocketInit
    <2>2. ReadInTurn = <<>>
        BY <2>1 DEF ReadInTurn, FlattenSeq
    <2>3. QED
        BY <2>1, <2>2 DEF FrameInv
<1>2. TypeInv /\ AccountInv /\ Framed /\ [Next]_vars => Framed'
    BY NextFrame, RefusalsStay
<1>3. TypeInv /\ AccountInv /\ Framed => ClientReadsEveryReply
    BY FramedByInvariant DEF ClientReadsEveryReply, NoHeadRefused
<1> HIDE DEF Framed
<1>4. QED
    BY <1>1, <1>2, <1>3, TypeInvariant, AccountInvariant, PTL DEF Spec
=============================================================================
