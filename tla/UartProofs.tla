----------------------------- MODULE UartProofs -----------------------------
(***************************************************************************)
(* Proofs about Uart, for all texts, buffers and messages: polling loses   *)
(* nothing of what is written, and what is read was sent, in its order.    *)
(***************************************************************************)
EXTENDS Uart, SequenceTheorems, TLAPS

\* A slice that is taken one byte further ends with that byte.
LEMMA OneMore ==
  ASSUME NEW s, NEW n \in Nat \ {0}, \A k \in 1 .. n : s[k] \in Bytes
  PROVE  /\ SubSeq(s, 1, n) = SubSeq(s, 1, n - 1) \o <<s[n]>>
         /\ SubSeq(s, 1, n) \in Seq(Bytes) /\ SubSeq(s, 1, n - 1) \in Seq(Bytes)
<1>1. /\ SubSeq(s, 1, n) \in Seq(Bytes) /\ Len(SubSeq(s, 1, n)) = n
      /\ \A k \in 1 .. n : SubSeq(s, 1, n)[k] = s[k]
  BY SubSeqProperties
<1>2. /\ SubSeq(s, 1, n - 1) \in Seq(Bytes) /\ Len(SubSeq(s, 1, n - 1)) = n - 1
      /\ \A k \in 1 .. n - 1 : SubSeq(s, 1, n - 1)[k] = s[k]
  <2>1. PICK m \in Nat : m = n - 1
    OBVIOUS
  <2>2. /\ SubSeq(s, 1, m) \in Seq(Bytes) /\ Len(SubSeq(s, 1, m)) = m
        /\ \A k \in 1 .. m : SubSeq(s, 1, m)[k] = s[k]
    BY <2>1, SubSeqProperties
  <2> QED BY <2>1, <2>2
<1>3. <<s[n]>> \in Seq(Bytes) /\ Len(<<s[n]>>) = 1 /\ <<s[n]>>[1] = s[n]
  OBVIOUS
<1>4. LET c == SubSeq(s, 1, n - 1) \o <<s[n]>>
      IN  /\ c \in Seq(Bytes) /\ Len(c) = n
          /\ \A k \in 1 .. n : c[k] = IF k <= n - 1 THEN SubSeq(s, 1, n - 1)[k] ELSE <<s[n]>>[k - (n - 1)]
  BY <1>2, <1>3, ConcatProperties
<1>5. \A k \in 1 .. n : SubSeq(s, 1, n)[k] = (SubSeq(s, 1, n - 1) \o <<s[n]>>)[k]
  <2>1. ASSUME NEW k \in 1 .. n, k # n
        PROVE  SubSeq(s, 1, n)[k] = (SubSeq(s, 1, n - 1) \o <<s[n]>>)[k]
    BY <1>1, <1>2, <1>4, <2>1
  <2>2. SubSeq(s, 1, n)[n] = (SubSeq(s, 1, n - 1) \o <<s[n]>>)[n]
    BY <1>1, <1>3, <1>4
  <2> QED BY <2>1, <2>2
<1> QED BY <1>1, <1>2, <1>4, <1>5, SeqEqual

\* Slices of the same bytes are the same.
LEMMA SameSlice ==
  ASSUME NEW s, NEW n \in Nat, NEW u, \A k \in 1 .. n : u[k] = s[k] /\ s[k] \in Bytes
  PROVE  SubSeq(u, 1, n) = SubSeq(s, 1, n) /\ SubSeq(s, 1, n) \in Seq(Bytes)
<1>1. /\ SubSeq(s, 1, n) \in Seq(Bytes) /\ Len(SubSeq(s, 1, n)) = n
      /\ \A k \in 1 .. n : SubSeq(s, 1, n)[k] = s[k]
  BY SubSeqProperties
<1>2. /\ SubSeq(u, 1, n) \in Seq(Bytes) /\ Len(SubSeq(u, 1, n)) = n
      /\ \A k \in 1 .. n : SubSeq(u, 1, n)[k] = u[k]
  BY SubSeqProperties
<1> QED BY <1>1, <1>2, SeqEqual

\* The theorems about concatenation for sequences of bytes.
LEMMA Associative == \A s, t, u \in Seq(Bytes) : (s \o t) \o u = s \o (t \o u)
BY ConcatAssociative

LEMMA Concatenation == \A s, t \in Seq(Bytes) : s \o t \in Seq(Bytes)
BY ConcatProperties

LEMMA NoSlice == \A s : SubSeq(s, 1, 0) = <<>>
BY SubSeqEmpty

LEMMA Texts ==
  /\ HelloString \in Seq(Bytes) /\ Len(HelloString) \in 1 .. MaxSize
  /\ EchoString \in Seq(Bytes) /\ Len(EchoString) \in 1 .. MaxSize
  /\ DOMAIN HelloString = 1 .. Len(HelloString) /\ DOMAIN EchoString = 1 .. Len(EchoString)
  /\ \A k \in 1 .. Len(HelloString) : HelloString[k] \in Bytes
  /\ \A k \in 1 .. Len(EchoString) : EchoString[k] \in Bytes
  /\ SubSeq(HelloString, 1, Len(HelloString)) = HelloString
  /\ SubSeq(EchoString, 1, Len(EchoString)) = EchoString
  /\ HelloString \o EchoString \in Seq(Bytes)
BY UartAssumption, ElementOfSeq, SubSeqFull, ConcatProperties, LenProperties
-----------------------------------------------------------------------------
(* Types, and what the buffer holds.                                       *)

LEMMA SmallInit == Init => UsciOK /\ MainOK /\ Filled
<1> SUFFICES ASSUME Init PROVE UsciOK /\ MainOK /\ Filled
  OBVIOUS
<1>1. UsciOK
  BY DEF Init, UsciOK
<1>2. input \in Seq(Bytes) /\ MaxSize \in Nat \ {0} /\ line \in Seq(Bytes)
  BY UartAssumption, EmptySeq DEF Init
<1>3. Len(input) \in Nat
  BY <1>2, LenProperties
<1>4. MainOK
  BY <1>2, <1>3 DEF Init, MainOK
<1>5. Filled
  BY DEF Init, Filled, Writing
<1> QED BY <1>1, <1>4, <1>5

LEMMA UsciNext ==
  ASSUME UsciOK, MainOK, Filled, [Next]_vars
  PROVE  UsciOK'
<1>1. CASE UartInit
  BY <1>1, Zenon DEF UartInit, UsciOK
<1>2. CASE Write
  <2>1. buffer[i] \in Bytes
    BY <1>2, Texts DEF Write, CanWrite, Writing, SliceLast, Filled, MainOK
  <2>2. pc # "init"
    BY <1>2 DEF Write, CanWrite, Writing
  <2> QED BY <1>2, <2>1, <2>2, Zenon DEF Write, UsciOK, receiver
<1>3. CASE WriteArrayReturns
  <2>1. pc' # "init"
    BY <1>3 DEF WriteArrayReturns
  <2> QED BY <1>3, <2>1, Zenon DEF WriteArrayReturns, UsciOK, transmitter, receiver
<1>4. CASE Read
  <2>1. pc' # "init"
    BY <1>4 DEF Read
  <2> QED BY <1>4, <2>1, Zenon DEF Read, UsciOK, transmitter
<1>5. CASE LoadShiftRegister
  BY <1>5, Zenon DEF LoadShiftRegister, UsciOK, program, receiver
<1>6. CASE ByteSent
  BY <1>6, Zenon DEF ByteSent, UsciOK, program, receiver
<1>7. CASE ByteReceived
  <2>1. input[sent + 1] \in Bytes
    BY <1>7, UartAssumption, ElementOfSeq, LenProperties DEF ByteReceived, MainOK
  <2> QED BY <1>7, <2>1, Zenon DEF ByteReceived, UsciOK, program, transmitter, receiver
<1>8. CASE UNCHANGED vars
  BY <1>8, Zenon DEF UsciOK, vars, program, transmitter, receiver
<1>9. CASE Poll
  BY <1>8, <1>9 DEF Poll
<1> QED BY <1>1, <1>2, <1>3, <1>4, <1>5, <1>6, <1>7, <1>8, <1>9 DEF Next, Main, Usci

LEMMA MainNext ==
  ASSUME UsciOK, MainOK, Filled, [Next]_vars
  PROVE  MainOK' /\ Filled'
<1>0. /\ buffer \in [1 .. MaxSize -> Bytes \cup {Garbage}] /\ input \in Seq(Bytes)
      /\ MaxSize \in Nat \ {0} /\ i \in Nat /\ size \in Nat /\ sent \in Nat /\ Len(input) \in Nat
  BY UartAssumption, LenProperties DEF MainOK
<1>1. CASE UartInit
  <2>1. /\ buffer' \in [1 .. MaxSize -> Bytes \cup {Garbage}]
        /\ \A k \in DOMAIN HelloString : buffer'[k] = HelloString[k]
    BY <1>0, <1>1, Texts DEF UartInit, ToArray
  <2>2. pc' = "hello" /\ i' = 1 /\ UNCHANGED <<size, shift, line, peer>>
    BY <1>1 DEF UartInit
  <2>3. MainOK'
    BY <1>0, <2>1, <2>2 DEF MainOK, peer
  <2> QED BY <2>1, <2>2, <2>3, Texts DEF Filled, Writing, SliceLast
<1>2. CASE Write
  <2>1. Writing /\ i <= SliceLast /\ SliceLast \in 1 .. MaxSize
    BY <1>0, <1>2, Texts DEF Write, CanWrite, Writing, SliceLast, MainOK
  <2>2. /\ i' = i + 1
        /\ UNCHANGED <<pc, buffer, size, shift, line, peer>>
    BY <1>2 DEF Write
  <2>3. SliceLast' = SliceLast /\ Writing'
    BY <2>1, <2>2 DEF SliceLast, Writing
  <2>4. MainOK'
    BY <1>0, <2>1, <2>2 DEF MainOK, peer, Writing
  <2>5. Filled'
    BY <1>0, <2>1, <2>2, <2>3 DEF Filled, Writing
  <2> QED BY <2>4, <2>5
<1>3. CASE WriteArrayReturns
  <2>1. CASE pc = "hello"
    <3>1. /\ pc' = "prompt" /\ i' = 1 /\ buffer' = ToArray(buffer, EchoString)
          /\ UNCHANGED <<size, shift, line, peer>>
      BY <1>3, <2>1 DEF WriteArrayReturns, transmitter
    <3>2. /\ buffer' \in [1 .. MaxSize -> Bytes \cup {Garbage}]
          /\ \A k \in DOMAIN EchoString : buffer'[k] = EchoString[k]
      BY <1>0, <3>1, Texts DEF ToArray
    <3>3. MainOK'
      BY <1>0, <3>1, <3>2 DEF MainOK, peer
    <3> QED BY <3>1, <3>2, <3>3, Texts DEF Filled, Writing, SliceLast
  <2>2. CASE pc \in {"prompt", "echo"}
    <3>1. /\ pc' = IF pc = "prompt" THEN "read" ELSE "loop"
          /\ i' = 1 /\ UNCHANGED <<buffer, size, shift, line, peer>>
      BY <1>3, <2>2 DEF WriteArrayReturns, transmitter
    <3>2. MainOK'
      BY <1>0, <2>2, <3>1 DEF MainOK, peer
    <3> QED BY <2>2, <3>1, <3>2 DEF Filled, Writing
  <2> QED BY <1>3, <2>1, <2>2 DEF WriteArrayReturns, Writing
<1>4. CASE Read
  <2>1. /\ pc = "read" /\ ReceptionBuffer \in Bytes /\ i <= MaxSize /\ i \in 1 .. MaxSize
        /\ UNCHANGED <<shift, line, peer>>
        /\ \A k \in 1 .. i - 1 : buffer[k] \in Bytes
    BY <1>0, <1>4 DEF Read, UsciOK, MainOK, Filled, transmitter
  <2>2. CASE ReceptionBuffer = Terminator
    <3>1. size' = i - 1 /\ pc' = "echo" /\ i' = 1 /\ UNCHANGED buffer
      BY <1>4, <2>2 DEF Read, SizeAtTerminator
    <3>2. MainOK'
      BY <1>0, <2>1, <3>1 DEF MainOK, peer
    <3> QED BY <1>0, <2>1, <3>1, <3>2 DEF Filled, Writing, SliceLast
  <2>3. CASE ReceptionBuffer # Terminator
    <3>1. /\ buffer' = [buffer EXCEPT ![i] = ReceptionBuffer]
          /\ \/ i < MaxSize /\ i' = i + 1 /\ UNCHANGED <<pc, size>>
             \/ i = MaxSize /\ size' = MaxSize /\ pc' = "echo" /\ i' = 1
      BY <1>0, <1>4, <2>1, <2>3 DEF Read
    <3>2. /\ buffer' \in [1 .. MaxSize -> Bytes \cup {Garbage}]
          /\ \A k \in 1 .. i : buffer'[k] \in Bytes
      BY <1>0, <2>1, <3>1
    <3>3. CASE i < MaxSize /\ i' = i + 1 /\ UNCHANGED <<pc, size>>
      <4>1. MainOK'
        BY <1>0, <2>1, <3>2, <3>3 DEF MainOK, peer
      <4> QED BY <1>0, <2>1, <3>2, <3>3, <4>1 DEF Filled, Writing
    <3>4. CASE i = MaxSize /\ size' = MaxSize /\ pc' = "echo" /\ i' = 1
      <4>1. MainOK'
        BY <1>0, <2>1, <3>2, <3>4 DEF MainOK, peer
      <4> QED BY <1>0, <2>1, <3>2, <3>4, <4>1 DEF Filled, Writing, SliceLast
    <3> QED BY <3>1, <3>3, <3>4
  <2> QED BY <2>2, <2>3
<1>5. CASE LoadShiftRegister
  <2>1. shift' = <<TransmissionBuffer>> /\ TransmissionBuffer \in Bytes
        /\ UNCHANGED <<program, line, peer>>
    BY <1>5, Zenon DEF LoadShiftRegister, UsciOK
  <2> QED BY <2>1 DEF MainOK, Filled, Writing, SliceLast, program, peer
<1>6. CASE ByteSent
  <2>1. line' \in Seq(Bytes) /\ shift' = <<>> /\ UNCHANGED <<program, peer>>
    BY <1>6, ConcatProperties DEF ByteSent, MainOK
  <2> QED BY <2>1 DEF MainOK, Filled, Writing, SliceLast, program, peer
<1>7. CASE ByteReceived
  <2>1. sent' \in 0 .. Len(input) /\ UNCHANGED <<program, shift, line, input>>
    BY <1>0, <1>7 DEF ByteReceived, MainOK, transmitter
  <2> QED BY <2>1 DEF MainOK, Filled, Writing, SliceLast, program
<1>8. CASE UNCHANGED vars
  BY <1>8 DEF MainOK, Filled, Writing, SliceLast, vars, program, transmitter, peer
<1>9. CASE Poll
  BY <1>8, <1>9 DEF Poll
<1> QED BY <1>1, <1>2, <1>3, <1>4, <1>5, <1>6, <1>7, <1>8, <1>9 DEF Next, Main, Usci
-----------------------------------------------------------------------------
(* Nothing is lost.                                                        *)

\* The byte in TransmissionBuffer, if there is one to send.
Stored == IF txifg THEN <<>> ELSE <<TransmissionBuffer>>

LEMMA PendingType ==
  ASSUME UsciOK, MainOK
  PROVE  shift \in Seq(Bytes) /\ Stored \in Seq(Bytes) /\ Pending = shift \o Stored
<1>1. txifg \/ TransmissionBuffer \in Bytes
  BY Zenon DEF UsciOK
<1>2. \A b \in Bytes : <<b>> \in Seq(Bytes)
  OBVIOUS
<1>3. shift \in Seq(Bytes)
  BY <1>2, EmptySeq DEF MainOK
<1>4. Stored \in Seq(Bytes)
  BY <1>1, <1>2, EmptySeq DEF Stored
<1> QED BY <1>3, <1>4 DEF Pending, Stored

\* Write adds the byte it stores to what was written.
LEMMA WrittenMore ==
  ASSUME UsciOK, MainOK, Filled, Write
  PROVE  /\ buffer[i] \in Bytes /\ Written \in Seq(Bytes)
         /\ Written' = Written \o <<buffer[i]>>
<1>1. /\ Writing /\ i <= SliceLast /\ i \in Nat \ {0} /\ (i + 1) - 1 = i
      /\ i' = i + 1 /\ UNCHANGED <<pc, buffer, size>>
  BY DEF Write, CanWrite, MainOK
<1>2. CASE pc = "hello"
  <2>1. i <= Len(HelloString) /\ buffer[i] = HelloString[i]
        /\ \A k \in 1 .. i : HelloString[k] \in Bytes
    BY <1>1, <1>2, Texts DEF SliceLast, Filled
  <2>2. /\ Written = SubSeq(HelloString, 1, i - 1)
        /\ Written' = SubSeq(HelloString, 1, (i + 1) - 1)
    BY <1>1, <1>2 DEF Written
  <2> QED BY <1>1, <2>1, <2>2, OneMore
<1>3. CASE pc = "prompt"
  <2>1. i <= Len(EchoString) /\ buffer[i] = EchoString[i]
        /\ \A k \in 1 .. i : EchoString[k] \in Bytes
    BY <1>1, <1>3, Texts DEF SliceLast, Filled
  <2>2. /\ SubSeq(EchoString, 1, i) = SubSeq(EchoString, 1, i - 1) \o <<buffer[i]>>
        /\ SubSeq(EchoString, 1, i - 1) \in Seq(Bytes) /\ <<buffer[i]>> \in Seq(Bytes)
    BY <1>1, <2>1, OneMore
  <2>3. HelloString \o SubSeq(EchoString, 1, i) =
        (HelloString \o SubSeq(EchoString, 1, i - 1)) \o <<buffer[i]>>
    <3>1. HelloString \o (SubSeq(EchoString, 1, i - 1) \o <<buffer[i]>>) =
          (HelloString \o SubSeq(EchoString, 1, i - 1)) \o <<buffer[i]>>
      <4>1. HelloString \in Seq(Bytes)
        BY Texts
      <4> QED BY <2>2, <4>1, Associative, Zenon
    <3> QED BY <2>2, <3>1, Zenon
  <2>4. /\ Written = HelloString \o SubSeq(EchoString, 1, i - 1)
        /\ Written' = HelloString \o SubSeq(EchoString, 1, (i + 1) - 1)
    BY <1>1, <1>3 DEF Written
  <2>5. Written \in Seq(Bytes)
    BY <2>2, <2>4, Texts, Concatenation, Zenon
  <2>6. Written' = Written \o <<buffer[i]>>
    <3>1. (i + 1) - 1 = i
      BY <1>1
    <3> QED BY <2>3, <2>4, <3>1, Zenon
  <2> QED BY <1>1, <2>1, <2>5, <2>6
<1>4. CASE pc = "echo"
  <2>1. \A k \in 1 .. i : buffer[k] \in Bytes
    BY <1>1, <1>4 DEF SliceLast, Filled, MainOK
  <2>2. /\ SubSeq(buffer, 1, i) = SubSeq(buffer, 1, i - 1) \o <<buffer[i]>>
        /\ SubSeq(buffer, 1, i - 1) \in Seq(Bytes) /\ <<buffer[i]>> \in Seq(Bytes)
    BY <1>1, <2>1, OneMore
  <2>3. (HelloString \o EchoString) \o SubSeq(buffer, 1, i) =
        ((HelloString \o EchoString) \o SubSeq(buffer, 1, i - 1)) \o <<buffer[i]>>
    <3>1. (HelloString \o EchoString) \o (SubSeq(buffer, 1, i - 1) \o <<buffer[i]>>) =
          ((HelloString \o EchoString) \o SubSeq(buffer, 1, i - 1)) \o <<buffer[i]>>
      <4>1. HelloString \o EchoString \in Seq(Bytes)
        BY Texts
      <4> QED BY <2>2, <4>1, Associative, Zenon
    <3> QED BY <2>2, <3>1, Zenon
  <2>4. /\ Written = (HelloString \o EchoString) \o SubSeq(buffer, 1, i - 1)
        /\ Written' = (HelloString \o EchoString) \o SubSeq(buffer, 1, (i + 1) - 1)
    BY <1>1, <1>4 DEF Written
  <2>5. Written \in Seq(Bytes)
    BY <2>2, <2>4, Texts, Concatenation, Zenon
  <2>6. Written' = Written \o <<buffer[i]>>
    <3>1. (i + 1) - 1 = i
      BY <1>1
    <3> QED BY <2>3, <2>4, <3>1, Zenon
  <2> QED BY <1>1, <2>1, <2>5, <2>6
<1> QED BY <1>1, <1>2, <1>3, <1>4 DEF Writing

LEMMA LostNext ==
  ASSUME UsciOK, MainOK, Filled, NothingLost, [Next]_vars
  PROVE  NothingLost'
<1>0. /\ shift \in Seq(Bytes) /\ Stored \in Seq(Bytes) /\ line \in Seq(Bytes)
      /\ Pending = shift \o Stored /\ line \o (shift \o Stored) = Written
  BY PendingType DEF NothingLost, MainOK
<1>1. ASSUME UNCHANGED <<line, shift, txifg, TransmissionBuffer>>, Written' = Written
      PROVE  NothingLost'
  BY <1>1 DEF NothingLost, Pending
<1>2. CASE UartInit
  <2>1. txifg /\ txifg' /\ UNCHANGED <<shift, line>>
    BY <1>2, Zenon DEF UartInit, UsciOK
  <2>2. Pending' = Pending
    BY <2>1 DEF Pending
  <2>3. Written' = Written
    BY <1>2, NoSlice DEF UartInit, Written
  <2> QED BY <2>1, <2>2, <2>3 DEF NothingLost
<1>3. CASE Write
  <2>1. txifg /\ ~txifg' /\ TransmissionBuffer' = buffer[i] /\ UNCHANGED <<shift, line>>
    BY <1>3 DEF Write, CanWrite
  <2>2. Stored = <<>> /\ Pending' = shift \o <<buffer[i]>>
    BY <2>1 DEF Stored, Pending
  <2>3. line \o shift = Written
    BY <1>0, <2>2, ConcatEmptySeq
  <2>4. <<buffer[i]>> \in Seq(Bytes)
    BY <1>3, WrittenMore
  <2>5. line \o (shift \o <<buffer[i]>>) = (line \o shift) \o <<buffer[i]>>
    BY <1>0, <2>4, Associative
  <2> QED BY <1>3, <2>1, <2>2, <2>3, <2>5, WrittenMore DEF NothingLost
<1>4. CASE WriteArrayReturns
  <2>1. Writing /\ i = SliceLast + 1 /\ SliceLast \in Nat /\ i - 1 = SliceLast
    BY <1>4, Texts DEF WriteArrayReturns, Filled, SliceLast, MainOK, Writing
  <2>2. UNCHANGED <<line, shift, txifg, TransmissionBuffer>>
    BY <1>4 DEF WriteArrayReturns, transmitter
  <2>3. CASE pc = "hello"
    <3>1. pc' = "prompt" /\ i' = 1
      BY <1>4, <2>3 DEF WriteArrayReturns
    <3>2. Written' = HelloString \o <<>>
      <4>1. Written' = HelloString \o SubSeq(EchoString, 1, i' - 1)
        BY <3>1 DEF Written
      <4>2. i' - 1 = 0
        BY <3>1
      <4> QED BY <4>1, <4>2, NoSlice
    <3>3. Written = HelloString
      BY <2>1, <2>3, Texts DEF Written, SliceLast
    <3>4. HelloString \o <<>> = HelloString
      BY Texts, ConcatEmptySeq
    <3> QED BY <1>1, <2>2, <3>2, <3>3, <3>4
  <2>4. CASE pc = "prompt"
    <3>1. pc' = "read"
      BY <1>4, <2>4 DEF WriteArrayReturns
    <3>2. Written = HelloString \o EchoString
      BY <2>1, <2>4, Texts DEF Written, SliceLast
    <3> QED BY <1>1, <2>2, <3>1, <3>2 DEF Written
  <2>5. CASE pc = "echo"
    <3>1. pc' = "loop" /\ UNCHANGED <<size, buffer>>
      BY <1>4, <2>5 DEF WriteArrayReturns
    <3> QED BY <1>1, <2>1, <2>2, <2>5, <3>1 DEF Written, SliceLast
  <2> QED BY <2>1, <2>3, <2>4, <2>5 DEF Writing
<1>5. CASE Read
  <2>1. /\ pc = "read" /\ (pc' = "read" \/ (pc' = "echo" /\ i' = 1))
        /\ UNCHANGED <<line, shift, txifg, TransmissionBuffer>>
    BY <1>5 DEF Read, transmitter
  <2>2. (HelloString \o EchoString) \o <<>> = HelloString \o EchoString
    BY Texts, ConcatEmptySeq
  <2>3. Written' = Written
    BY <2>1, <2>2, NoSlice DEF Written
  <2> QED BY <1>1, <2>1, <2>3
<1>6. CASE LoadShiftRegister
  <2>1. /\ ~txifg /\ txifg' /\ shift = <<>> /\ shift' = <<TransmissionBuffer>>
        /\ UNCHANGED <<program, line>>
    BY <1>6 DEF LoadShiftRegister
  <2>2. Stored = <<TransmissionBuffer>> /\ Pending' = <<TransmissionBuffer>> \o <<>>
    BY <2>1 DEF Stored, Pending
  <2>3. Pending' = Stored /\ Pending = Stored
    BY <1>0, <2>1, <2>2, ConcatEmptySeq
  <2>4. Written' = Written
    BY <2>1 DEF Written, program
  <2> QED BY <2>1, <2>3, <2>4 DEF NothingLost
<1>7. CASE ByteSent
  <2>1. line' = line \o shift /\ shift' = <<>> /\ UNCHANGED <<program, txifg, TransmissionBuffer>>
    BY <1>7 DEF ByteSent
  <2>2. Pending' = <<>> \o Stored
    BY <2>1 DEF Pending, Stored
  <2>3. Pending' = Stored
    BY <1>0, <2>2, ConcatEmptySeq
  <2>4. (line \o shift) \o Stored = line \o (shift \o Stored)
    BY <1>0, Associative
  <2>5. Written' = Written
    BY <2>1 DEF Written, program
  <2> QED BY <1>0, <2>1, <2>3, <2>4, <2>5 DEF NothingLost
<1>8. CASE ByteReceived
  BY <1>1, <1>8 DEF ByteReceived, Written, program, transmitter
<1>9. CASE UNCHANGED vars
  BY <1>1, <1>9 DEF Written, vars, program, transmitter
<1>10. CASE Poll
  BY <1>9, <1>10 DEF Poll
<1> QED BY <1>2, <1>3, <1>4, <1>5, <1>6, <1>7, <1>8, <1>9, <1>10 DEF Next, Main, Usci

LEMMA InvInit == Init => UartInv
<1> SUFFICES ASSUME Init PROVE NothingLost
  BY SmallInit DEF UartInv, TypeOK
<1>1. line = <<>> /\ Pending = <<>> \o <<>> /\ Written = <<>>
  BY DEF Init, Pending, Written
<1>2. \A s \in Seq(Bytes) : s \o <<>> = s
  BY ConcatEmptySeq
<1> QED BY <1>1, <1>2, EmptySeq DEF NothingLost

LEMMA InvNext == UartInv /\ [Next]_vars => UartInv'
BY UsciNext, MainNext, LostNext DEF UartInv, TypeOK

\* Whatever the texts and the message and however the transmitter and the peer
\* keep up: every byte given to Write is on the line or on its way, in order,
\* and indexes stay within the buffer.
THEOREM UartInvariant == Spec => []UartInv
BY InvInit, InvNext, PTL DEF Spec
-----------------------------------------------------------------------------
(* What is read was sent.                                                  *)

\* More bytes may have come since, or there were none to read.
LEMMA StillInOrder ==
  ASSUME NEW n \in Nat, NEW l \in Int, NEW m \in Int, l <= m, InOrder(n, l),
         UNCHANGED <<buffer, input>>
  PROVE  InOrder(n, m)'
BY DEF InOrder

LEMMA NoneInOrder == \A l : InOrder(0, l)'
<1> TAKE l
<1>1. 1 .. 0 = {} /\ 1 .. (0 - 1) = {}
  OBVIOUS
<1>2. [k \in {} |-> 0] \in [{} -> 1 .. l]
  OBVIOUS
<1> QED BY <1>1, <1>2 DEF InOrder

\* One more byte is read: the last one that came.
LEMMA OneMoreInOrder ==
  ASSUME NEW n \in Nat \ {0}, NEW l \in Nat, InOrder(n - 1, l), UNCHANGED input,
         NEW b, b = input[l + 1], b # Terminator,
         n \in DOMAIN buffer, buffer' = [buffer EXCEPT ![n] = b]
  PROVE  InOrder(n, l + 1)'
<1>1. PICK f \in [1 .. n - 1 -> 1 .. l] :
        /\ \A k \in 1 .. n - 1 : buffer[k] = input[f[k]] /\ buffer[k] # Terminator
        /\ \A k \in 1 .. (n - 1) - 1 : f[k] < f[k + 1]
  BY DEF InOrder
<1> DEFINE g == [k \in 1 .. n |-> IF k = n THEN l + 1 ELSE f[k]]
<1>2. g \in [1 .. n -> 1 .. l + 1]
  <2>1. ASSUME NEW k \in 1 .. n, k # n
        PROVE  f[k] \in 1 .. l + 1
    BY <1>1, <2>1
  <2> QED BY <2>1
<1>3. \A k \in 1 .. n : buffer'[k] = input[g[k]] /\ buffer'[k] # Terminator
  <2>1. ASSUME NEW k \in 1 .. n, k # n
        PROVE  buffer'[k] = input[g[k]] /\ buffer'[k] # Terminator
    BY <1>1, <2>1
  <2> QED BY <2>1
<1>4. \A k \in 1 .. n - 1 : g[k] < g[k + 1]
  <2>1. ASSUME NEW k \in 1 .. n - 1, k + 1 # n
        PROVE  g[k] < g[k + 1]
    BY <1>1, <2>1
  <2>2. ASSUME NEW k \in 1 .. n - 1, k + 1 = n
        PROVE  g[k] < g[k + 1]
    <3>1. f[k] \in 1 .. l /\ g[k] = f[k] /\ g[k + 1] = l + 1
      BY <1>1, <2>2
    <3> QED BY <3>1
  <2> QED BY <2>1, <2>2
<1> HIDE DEF g
<1> QED BY <1>2, <1>3, <1>4 DEF InOrder

LEMMA EchoNext ==
  ASSUME UsciOK, MainOK, Filled, EchoIsOfThePeer, [Next]_vars
  PROVE  EchoIsOfThePeer'
<1>0. /\ sent \in Nat /\ i \in Nat \ {0} /\ size \in Nat /\ MaxSize \in Nat \ {0}
      /\ Fetched \in Int /\ Taken \in Nat /\ (~rxifg => Fetched = sent)
      /\ (rxifg => Fetched = sent - 1) /\ (rxifg => sent > 0 /\ ReceptionBuffer = input[sent])
      /\ (pc \in {"read", "echo", "loop"} => InOrder(Taken, Fetched))
  BY UartAssumption DEF MainOK, Fetched, Taken, EchoIsOfThePeer
<1>1. ASSUME UNCHANGED <<pc, buffer, size, rxifg, ReceptionBuffer, sent, input>>,
             pc = "read" => i' = i
      PROVE  EchoIsOfThePeer'
  <2>1. Fetched' = Fetched /\ Taken' = Taken
    BY <1>1 DEF Fetched, Taken
  <2>2. pc' \in {"read", "echo", "loop"} => InOrder(Taken, Fetched)'
    BY <1>0, <1>1, <2>1, StillInOrder
  <2> QED BY <1>0, <1>1, <2>2 DEF EchoIsOfThePeer
<1>2. CASE UartInit
  BY <1>2 DEF UartInit, EchoIsOfThePeer
<1>3. CASE Write
  BY <1>1, <1>3 DEF Write, CanWrite, Writing, receiver, peer
<1>4. CASE WriteArrayReturns
  <2>1. UNCHANGED <<size, rxifg, ReceptionBuffer, sent, input>> /\ i' = 1
    BY <1>4 DEF WriteArrayReturns, receiver, peer
  <2>2. Fetched' = Fetched
    BY <2>1 DEF Fetched
  <2>3. CASE pc = "hello"
    BY <1>0, <1>4, <2>1, <2>3 DEF WriteArrayReturns, EchoIsOfThePeer
  <2>4. CASE pc = "prompt"
    <3>1. pc' = "read" /\ Taken' = 0
      BY <1>4, <2>1, <2>4 DEF WriteArrayReturns, Taken
    <3> QED BY <1>0, <2>1, <3>1, NoneInOrder DEF EchoIsOfThePeer
  <2>5. CASE pc = "echo"
    <3>1. pc' = "loop" /\ UNCHANGED buffer /\ Taken' = Taken
      BY <1>4, <2>1, <2>5 DEF WriteArrayReturns, Taken
    <3>2. InOrder(Taken, Fetched)'
      BY <1>0, <2>1, <2>2, <2>5, <3>1, StillInOrder
    <3> QED BY <1>0, <2>1, <3>2 DEF EchoIsOfThePeer
  <2> QED BY <1>4, <2>3, <2>4, <2>5 DEF WriteArrayReturns, Writing
<1>5. CASE Read
  <2>1. /\ pc = "read" /\ rxifg /\ ~rxifg' /\ UNCHANGED <<ReceptionBuffer, sent, input>>
        /\ Taken = i - 1 /\ i <= MaxSize
    BY <1>5 DEF Read, Taken, MainOK, peer
  <2>2. PICK l \in Nat, n \in Nat \ {0} : l = sent - 1 /\ n = i
    BY <1>0, <2>1
  <2>3. Fetched' = l + 1 /\ InOrder(n - 1, l)
    BY <1>0, <2>1, <2>2 DEF Fetched
  <2>4. CASE ReceptionBuffer = Terminator
    <3>1. pc' = "echo" /\ UNCHANGED buffer /\ Taken' = n - 1
      BY <1>5, <2>2, <2>4 DEF Read, SizeAtTerminator, Taken
    <3>2. InOrder(n - 1, l + 1)'
      BY <2>1, <2>3, <3>1, StillInOrder
    <3> QED BY <2>1, <2>3, <3>1, <3>2 DEF EchoIsOfThePeer
  <2>5. CASE ReceptionBuffer # Terminator
    <3>1. buffer' = [buffer EXCEPT ![n] = ReceptionBuffer] /\ Taken' = n
      BY <1>0, <1>5, <2>1, <2>2, <2>5 DEF Read, Taken
    <3>2. n \in DOMAIN buffer /\ ReceptionBuffer = input[l + 1] /\ l + 1 = sent
      BY <1>0, <2>1, <2>2 DEF MainOK
    <3>3. InOrder(n, l + 1)'
      BY <1>0, <2>1, <2>3, <2>5, <3>1, <3>2, OneMoreInOrder
    <3> QED BY <2>1, <2>3, <3>1, <3>2, <3>3 DEF EchoIsOfThePeer
  <2> QED BY <2>4, <2>5
<1>6. CASE LoadShiftRegister
  BY <1>1, <1>6 DEF LoadShiftRegister, program, receiver, peer
<1>7. CASE ByteSent
  BY <1>1, <1>7 DEF ByteSent, program, receiver, peer
<1>8. CASE ByteReceived
  <2>1. /\ sent' = sent + 1 /\ UNCHANGED <<pc, buffer, i, size, input>> /\ Taken' = Taken
        /\ \/ ReceptionBuffer' = input[sent + 1] /\ rxifg' = TRUE
           \/ UNCHANGED <<rxifg, ReceptionBuffer>>
    BY <1>8 DEF ByteReceived, program, receiver, Taken
  <2>2. CASE rxifg'
    <3>1. ReceptionBuffer' = input[sent'] /\ sent' > 0 /\ Fetched' = sent /\ Fetched <= sent
      <4>1. ReceptionBuffer' = input[sent + 1]
        BY <1>8, <2>2, Zenon DEF ByteReceived, UsciOK, receiver
      <4>2. Fetched' = sent' - 1
        BY <2>2 DEF Fetched
      <4> QED BY <1>0, <2>1, <4>1, <4>2
    <3>2. pc' \in {"read", "echo", "loop"} => InOrder(Taken, Fetched)'
      BY <1>0, <2>1, <3>1, StillInOrder
    <3> QED BY <2>1, <3>1, <3>2 DEF EchoIsOfThePeer
  <2>3. CASE ~rxifg'
    <3>1. Fetched' = sent + 1 /\ Fetched <= sent
      BY <1>0, <2>1, <2>3 DEF Fetched
    <3>2. pc' \in {"read", "echo", "loop"} => InOrder(Taken, Fetched)'
      BY <1>0, <2>1, <3>1, StillInOrder
    <3> QED BY <2>1, <2>3, <3>2 DEF EchoIsOfThePeer
  <2> QED BY <2>2, <2>3
<1>9. CASE UNCHANGED vars
  BY <1>1, <1>9 DEF vars, program, receiver, peer
<1>10. CASE Poll
  BY <1>9, <1>10 DEF Poll
<1> QED BY <1>2, <1>3, <1>4, <1>5, <1>6, <1>7, <1>8, <1>9, <1>10 DEF Next, Main, Usci

LEMMA EchoInit == Init => EchoIsOfThePeer
BY DEF Init, EchoIsOfThePeer

\* Whatever the peer sends and however fast, the program makes a message only of
\* bytes that came, each at most once and in their order, up to the terminator.
THEOREM EchoIsSound == Spec => []EchoIsOfThePeer
<1>1. UartInv /\ EchoIsOfThePeer /\ [Next]_vars => EchoIsOfThePeer'
  BY EchoNext DEF UartInv, TypeOK
<1> QED BY <1>1, EchoInit, UartInvariant, PTL DEF Spec
=============================================================================
