-------------------------------- MODULE Uart --------------------------------
(***************************************************************************)
(* The UART driver usci.a0.uart and the test program uart.adb on it: greet *)
(* the peer, read up to size_t'Last bytes or a terminator, and echo them.  *)
(* The driver polls the interrupt flags of the USCI, which sends and       *)
(* receives on its own: a byte is moved from TransmissionBuffer to the     *)
(* shift register and from there to the line, and a byte of the peer       *)
(* overwrites ReceptionBuffer whether or not the last one was read.        *)
(***************************************************************************)
EXTENDS Integers, SequencesExt

CONSTANTS
  Bytes,        \* the values of uint8_t that occur
  Garbage,      \* what the buffer holds before it is written
  Terminator,   \* the terminator given to ReadArray, ';'
  HelloString,  \* helloString
  EchoString,   \* echoString
  MaxSize,      \* usci.size_t'Last, the length of the buffer
  Inputs        \* what the peer may send: a set of sequences

ASSUME UartAssumption ==
  /\ Garbage \notin Bytes /\ Terminator \in Bytes
  /\ MaxSize \in Nat \ {0}
  /\ HelloString \in Seq(Bytes) /\ Len(HelloString) \in 1 .. MaxSize
  /\ EchoString \in Seq(Bytes) /\ Len(EchoString) \in 1 .. MaxSize
  /\ Inputs \subseteq Seq(Bytes)

VARIABLES
  pc,       \* the call main is in: "init", "hello", "prompt", "read", "echo", "loop"
  buffer,   \* main's buffer
  i,        \* the index of the loop in WriteArray or ReadArray
  size,     \* what ReadArray returned
  enabled,  \* SOFTWARE_RESET_ENABLE is off
  txifg, TransmissionBuffer,  \* ready to be written; the byte to send
  shift,    \* the byte being sent, or <<>>
  rxifg, ReceptionBuffer,     \* a byte was received; the byte
  line,     \* what the peer has received, in order
  input, sent,                \* the peer's message; how many bytes of it were sent
  paced     \* the peer sends only when the driver can receive

program == <<pc, buffer, i, size>>
transmitter == <<txifg, TransmissionBuffer, shift, line>>
receiver == <<rxifg, ReceptionBuffer>>
peer == <<input, sent, paced>>
vars == <<program, enabled, transmitter, receiver, peer>>

ToArray(dataOut, dataIn) ==
  [k \in 1 .. MaxSize |-> IF k \in DOMAIN dataIn THEN dataIn[k] ELSE dataOut[k]]
-----------------------------------------------------------------------------
Init ==
  /\ pc = "init"
  /\ buffer = [k \in 1 .. MaxSize |-> Garbage]
  /\ i = 1 /\ size = 0
  /\ enabled = FALSE
  /\ txifg = TRUE /\ TransmissionBuffer = Garbage /\ shift = <<>>
  /\ rxifg = FALSE /\ ReceptionBuffer = Garbage
  /\ line = <<>>
  /\ input \in Inputs /\ sent = 0 /\ paced \in BOOLEAN

UartInitStays ==
  /\ pc = "init"
  /\ txifg' = TRUE /\ rxifg' = FALSE
  /\ buffer' = ToArray(buffer, HelloString)
  /\ pc' = "hello" /\ i' = 1
  /\ UNCHANGED <<enabled, size, TransmissionBuffer, shift, line, ReceptionBuffer, peer>>

(* usci.a0.uart.Init, then the greeting is put into the buffer.  The reset *)
(* leaves the transmitter ready and the receiver empty.                    *)
UartInit ==
  /\ pc = "init"
  /\ enabled' = TRUE
  /\ txifg' = TRUE /\ rxifg' = FALSE
  /\ buffer' = ToArray(buffer, HelloString)
  /\ pc' = "hello" /\ i' = 1
  /\ UNCHANGED <<size, TransmissionBuffer, shift, line, ReceptionBuffer, peer>>

Writing == pc \in {"hello", "prompt", "echo"}

SliceWhole == MaxSize
\* the last index of the slice WriteArray was given
SliceLast ==
  CASE pc = "hello"  -> Len(HelloString)
    [] pc = "prompt" -> Len(EchoString)
    [] pc = "echo"   -> size

WriteAnyTime == Writing /\ i <= SliceLast
CanWrite == Writing /\ i <= SliceLast /\ txifg

(* One round of the loop of WriteArray: Write polls USCI_A0_TX_INTERRUPT,  *)
(* which only the hardware sets, and stores the byte.                      *)
Write ==
  /\ CanWrite
  /\ TransmissionBuffer' = buffer[i]
  /\ txifg' = FALSE
  /\ i' = i + 1
  /\ UNCHANGED <<pc, buffer, size, enabled, shift, line, receiver, peer>>

(* WriteArray returns and main goes on. *)
WriteArrayReturns ==
  /\ Writing /\ i > SliceLast
  /\ i' = 1
  /\ \/ /\ pc = "hello" /\ pc' = "prompt"
        /\ buffer' = ToArray(buffer, EchoString)
     \/ pc = "prompt" /\ pc' = "read" /\ UNCHANGED buffer
     \/ pc = "echo" /\ pc' = "loop" /\ UNCHANGED buffer
  /\ UNCHANGED <<size, enabled, transmitter, receiver, peer>>

CountTerminator(k) == k
SizeAtTerminator(k) == k - 1

(* One round of the loop of ReadArray.  Read polls USCI_A0_RX_INTERRUPT    *)
(* and fetches the byte; a byte that arrives between the two overwrites it *)
(* as one that arrived just before the poll would.                         *)
Read ==
  /\ pc = "read" /\ rxifg
  /\ rxifg' = FALSE
  /\ IF ReceptionBuffer = Terminator
       THEN /\ size' = SizeAtTerminator(i)
            /\ pc' = "echo" /\ i' = 1
            /\ UNCHANGED buffer
       ELSE /\ buffer' = [buffer EXCEPT ![i] = ReceptionBuffer]
            /\ IF i < MaxSize
                 THEN i' = i + 1 /\ UNCHANGED <<pc, size>>
                 ELSE size' = MaxSize /\ pc' = "echo" /\ i' = 1
  /\ UNCHANGED <<enabled, transmitter, ReceptionBuffer, peer>>

(* The bodies of the polling loops, and the loop at the end of main. *)
Poll ==
  /\ \/ Writing /\ i <= SliceLast /\ ~txifg
     \/ pc = "read" /\ ~rxifg
     \/ pc = "loop"
  /\ UNCHANGED vars
-----------------------------------------------------------------------------
(* The USCI. *)
LoadShiftRegister ==
  /\ enabled /\ ~txifg /\ shift = <<>>
  /\ shift' = <<TransmissionBuffer>>
  /\ txifg' = TRUE
  /\ UNCHANGED <<program, enabled, TransmissionBuffer, line, receiver, peer>>

ByteSent ==
  /\ shift # <<>>
  /\ line' = line \o shift
  /\ shift' = <<>>
  /\ UNCHANGED <<program, enabled, txifg, TransmissionBuffer, receiver, peer>>

(* A byte of the peer arrives; without pace it may be lost. *)
ByteReceived ==
  /\ sent < Len(input)
  /\ paced => enabled /\ ~rxifg
  /\ sent' = sent + 1
  /\ IF enabled
       THEN ReceptionBuffer' = input[sent + 1] /\ rxifg' = TRUE
       ELSE UNCHANGED receiver
  /\ UNCHANGED <<program, enabled, transmitter, input, paced>>

Main == UartInit \/ Write \/ WriteArrayReturns \/ Read
Usci == LoadShiftRegister \/ ByteSent

Next == Main \/ Poll \/ Usci \/ ByteReceived

(* The processor runs, the baud clock ticks and the peer sends it all. *)
Spec ==
  Init /\ [][Next]_vars
    /\ WF_vars(Main) /\ WF_vars(Usci) /\ WF_vars(ByteReceived)
-----------------------------------------------------------------------------
(* A flag tells when there is a byte in the buffer of its direction. *)
UsciOK ==
  /\ txifg \in BOOLEAN /\ rxifg \in BOOLEAN
  /\ ~txifg => TransmissionBuffer \in Bytes
  /\ rxifg => ReceptionBuffer \in Bytes
  /\ pc = "init" => txifg
  /\ enabled \in BOOLEAN /\ (~enabled => ~rxifg)

(* Every index stays within the buffer it is used on. *)
MainOK ==
  /\ pc \in {"init", "hello", "prompt", "read", "echo", "loop"}
  /\ buffer \in [1 .. MaxSize -> Bytes \cup {Garbage}]
  /\ size \in 0 .. MaxSize
  /\ i \in 1 .. MaxSize + 1 /\ (pc = "read" => i <= MaxSize)
  /\ input \in Inputs /\ sent \in 0 .. Len(input)
  /\ shift = <<>> \/ \E b \in Bytes : shift = <<b>>
  /\ line \in Seq(Bytes)

TypeOK == UsciOK /\ MainOK

(* The part of the buffer that is sent, or has been read, was written.     *)
Filled ==
  /\ pc = "hello" => \A k \in DOMAIN HelloString : buffer[k] = HelloString[k]
  /\ pc = "prompt" => \A k \in DOMAIN EchoString : buffer[k] = EchoString[k]
  /\ pc = "read" => \A k \in 1 .. i - 1 : buffer[k] \in Bytes
  /\ pc \in {"echo", "loop"} => \A k \in 1 .. size : buffer[k] \in Bytes
  /\ Writing => i <= SliceLast + 1

(* What main has given to Write so far, whether or not it is on the line.  *)
Written ==
  CASE pc = "init"   -> <<>>
    [] pc = "hello"  -> SubSeq(HelloString, 1, i - 1)
    [] pc = "prompt" -> HelloString \o SubSeq(EchoString, 1, i - 1)
    [] pc = "read"   -> HelloString \o EchoString
    [] pc = "echo"   -> HelloString \o EchoString \o SubSeq(buffer, 1, i - 1)
    [] pc = "loop"   -> HelloString \o EchoString \o SubSeq(buffer, 1, size)

Pending == shift \o (IF txifg THEN <<>> ELSE <<TransmissionBuffer>>)

(* The polling of Write loses, doubles and reorders nothing: what was      *)
(* written is on the line, in the shift register or in TransmissionBuffer. *)
NothingLost == line \o Pending = Written

(* The buffers are used within their bounds and what is sent comes through *)
(* whole: the two go together, as an index that runs on sends what was     *)
(* never written.                                                          *)
UartInv == TypeOK /\ Filled /\ NothingLost

(* What the program makes of the bytes it was sent: up to the terminator,  *)
(* or size_t'Last of them.                                                 *)
Message ==
  LET ends == {k \in DOMAIN input : input[k] = Terminator}
      stop == IF ends = {} THEN Len(input) ELSE Min(ends) - 1
  IN  SubSeq(input, 1, Min({stop, MaxSize}))

(* However fast the peer sends, what is read is made of bytes it sent, in  *)
(* its order: a short message never brings stale bytes of the buffer, the  *)
(* terminator or a byte that is still to be fetched with it.               *)
InOrder(n, last) ==
  \E f \in [1 .. n -> 1 .. last] :
    /\ \A k \in 1 .. n : buffer[k] = input[f[k]] /\ buffer[k] # Terminator
    /\ \A k \in 1 .. n - 1 : f[k] < f[k + 1]
Taken == IF pc = "read" THEN i - 1 ELSE size
Fetched == IF rxifg THEN sent - 1 ELSE sent
EchoIsOfThePeer ==
  /\ rxifg => sent > 0 /\ ReceptionBuffer = input[sent]
  /\ pc \in {"read", "echo", "loop"} => InOrder(Taken, Fetched)

Answered == line = HelloString \o EchoString \o Message
Quiet == pc = "loop" /\ Pending = <<>>

(* A peer that keeps pace gets its message back if the message has an end, *)
(* as the test of the uart program expects: "Sputnik;" is answered         *)
(* "Hello!Echo:Sputnik".                                                   *)
Ended == Len(Message) = MaxSize \/ Terminator \in ToSet(input)
PeerIsAnswered == (paced /\ Ended) ~> (Quiet /\ Answered)
=============================================================================
