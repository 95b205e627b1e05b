--------------------------- MODULE SecondaryStack ---------------------------
(***************************************************************************)
(* System.Secondary_Stack of the MSP430 runtime (s-secsta.adb): a static   *)
(* chunk of bytes used as a stack of variable-sized results.  The chunk    *)
(* starts with the record header (Top, Last); Mem follows it and is        *)
(* indexed from 1.  Code generated by the compiler marks the stack when a  *)
(* scope is entered, allocates in the innermost scope and releases the     *)
(* mark when the scope is left.  The runtime has no exception propagation, *)
(* so an exhausted stack ends in the last chance handler and a restart.    *)
(***************************************************************************)
EXTENDS Integers, Sequences

CONSTANTS
  ChunkSize,    \* Default_Secondary_Stack_Size, bytes of Static_Chunk
  MarkBytes,    \* Mark_Id'Max_Size_In_Storage_Elements
  MaxAlign,     \* Standard'Maximum_Alignment
  MemorySize,   \* System.Memory_Size, the modulus of Mark_Id
  MaxScopes     \* bound on nested scopes that use the stack

ASSUME StackAssumption ==
  /\ ChunkSize \in Nat /\ MarkBytes \in Nat \ {0}
  /\ MaxAlign \in Nat \ {0} /\ MaxScopes \in Nat
  /\ ChunkSize >= 2 * MarkBytes                   \* the pragma Assert in SS_Init
  /\ MemorySize \in Nat /\ MemorySize % 2 = 0
  /\ 2 * (ChunkSize + MaxAlign) <= MemorySize

(* Mem follows the header without a gap and is aligned like the chunk.     *)
ASSUME AlignmentAssumption == (2 * MarkBytes) % MaxAlign = 0

VARIABLES
  isInitialized,  \* Is_Initialized
  top,            \* Stack_Id.Top, an index into Mem
  last,           \* Stack_Id.Last
  scopes,         \* the open scopes, outermost first: mark and blocks handed out
  raised          \* Storage_Error is on its way to the last chance handler

vars == <<isInitialized, top, last, scopes, raised>>

Mark_Id == 0 .. MemorySize - 1
Storage_Count == 0 .. (MemorySize \div 2) - 1
Block == [pos : Mark_Id, size : Mark_Id]
Scope == [mark : Mark_Id, blocks : SUBSET Block]

(* "+" of the modular type Mark_Id. *)
MarkAdd(a, b) == (a + b) % MemorySize

RoundUpNot(n) == n
(* Max_Size: the request rounded up to the maximum alignment. *)
RoundUp(n) == (MarkAdd(n, MaxAlign - 1) \div MaxAlign) * MaxAlign

MemFirst == 1
MemBase == 2 * MarkBytes - MemFirst   \* offset in the chunk of Mem (0)
InitialLast == ChunkSize - 2 * MarkBytes

CurrentTopAlwaysFirst == MemFirst
(* Get_Sec_Stack initializes the header on the first use of the stack.     *)
CurrentTop  == IF isInitialized THEN top ELSE MemFirst
CurrentLast == IF isInitialized THEN last ELSE InitialLast

ExhaustedWhenFull(n) == CurrentTop > CurrentLast
Exhausted(n) == MarkAdd(CurrentTop, RoundUp(n)) > CurrentLast

Innermost == Len(scopes)
-----------------------------------------------------------------------------
(* The C start-up code clears .bss before Ada code runs. *)
Init ==
  /\ isInitialized = FALSE
  /\ top = 0
  /\ last = 0
  /\ scopes = <<>>
  /\ raised = FALSE

(* A scope that uses the stack is entered: M := SS_Mark. *)
SS_Mark ==
  /\ ~raised
  /\ Innermost < MaxScopes
  /\ scopes' = Append(scopes, [mark |-> CurrentTop, blocks |-> {}])
  /\ isInitialized' = TRUE
  /\ top' = CurrentTop
  /\ last' = CurrentLast
  /\ UNCHANGED raised

(* SS_Allocate hands out Mem (Top .. Top + Max_Size - 1).                  *)
SS_Allocate(n) ==
  /\ ~raised
  /\ Innermost > 0
  /\ ~Exhausted(n)
  /\ isInitialized' = TRUE
  /\ last' = CurrentLast
  /\ top' = MarkAdd(CurrentTop, RoundUp(n))
  /\ LET block == [pos |-> CurrentTop, size |-> RoundUp(n)]
     IN  scopes' = [scopes EXCEPT ![Innermost] =
                      [mark |-> @.mark, blocks |-> @.blocks \cup {block}]]
  /\ UNCHANGED raised

(* SS_Allocate raises Storage_Error; nothing propagates the exception.     *)
SS_AllocateRaises(n) ==
  /\ ~raised
  /\ Innermost > 0
  /\ Exhausted(n)
  /\ raised' = TRUE
  /\ isInitialized' = TRUE
  /\ top' = CurrentTop
  /\ last' = CurrentLast
  /\ UNCHANGED scopes

SS_ReleaseNothing(M) ==
  /\ isInitialized' = TRUE
  /\ top' = CurrentTop
  /\ last' = CurrentLast

SS_Release(M) ==
  /\ isInitialized' = TRUE
  /\ top' = M
  /\ last' = CurrentLast

(* The innermost scope is left: SS_Release (M) with the mark it was given. *)
LeaveScope ==
  /\ ~raised
  /\ Innermost > 0
  /\ SS_Release(scopes[Innermost].mark)
  /\ scopes' = SubSeq(scopes, 1, Innermost - 1)
  /\ UNCHANGED raised

(* Reset of Ada.Exceptions jumps to address 0, which restarts the chip; a  *)
(* power or watchdog restart may come at any other moment as well.         *)
Restart ==
  /\ isInitialized' = FALSE
  /\ top' = 0
  /\ last' = 0
  /\ scopes' = <<>>
  /\ raised' = FALSE

Next ==
  \/ SS_Mark
  \/ \E n \in Storage_Count : SS_Allocate(n) \/ SS_AllocateRaises(n)
  \/ LeaveScope
  \/ Restart

Spec == Init /\ [][Next]_vars
-----------------------------------------------------------------------------
(* Every variable keeps the range of its Ada type. *)
TypeOK ==
  /\ isInitialized \in BOOLEAN
  /\ top \in Mark_Id
  /\ last \in Mark_Id
  /\ scopes \in Seq(Scope)
  /\ raised \in BOOLEAN

BlocksOf(i) == scopes[i].blocks

Bytes(b) == b.pos .. b.pos + b.size - 1

(* No byte of a live block lies outside Mem as SS_Init sized it: neither   *)
(* the (Top, Last) header nor what follows Static_Chunk is ever handed out *)
(* by SS_Allocate, however large the request and full the stack.           *)
BlocksInsideChunk ==
  \A i \in 1 .. Innermost : \A b \in BlocksOf(i) :
    Bytes(b) \subseteq MemFirst .. InitialLast

(* SS_Allocate never returns a byte that an open scope still uses, in      *)
(* whatever order marks, allocations and releases came before.             *)
BlocksDisjoint ==
  \A i, j \in 1 .. Innermost : \A b \in BlocksOf(i), c \in BlocksOf(j) :
    (i # j \/ b # c) => Bytes(b) \cap Bytes(c) = {}

(* Every byte of Mem below m belongs to a block of the k outermost scopes. *)
Covered(m, k) ==
  \A p \in MemFirst .. m - 1 :
    \E i \in 1 .. k : \E b \in BlocksOf(i) : p \in Bytes(b)

(* SS_Release gives back all a scope took: each byte below Top belongs to  *)
(* a live block, so Storage_Error means that live data fills the chunk.    *)
NothingLeaks == isInitialized => Covered(top, Innermost)

(* The strengthening that makes the properties above inductive: marks grow *)
(* with the depth of the scope, the blocks of a scope lie between its mark *)
(* and the mark of the next scope, those of one scope do not overlap, Top  *)
(* and every mark are aligned, and a mark is below nothing but live blocks *)
(* of the scopes outside its own (CoveredBelowMarks, which the proof of    *)
(* NothingLeaks adds).                                                     *)
Header ==
  IF isInitialized
    THEN last = InitialLast /\ top \in 1 .. ChunkSize + 1 /\ (top = 1 \/ top <= last)
    ELSE top = 0 /\ last = 0 /\ scopes = <<>> /\ ~raised

MarksOrdered ==
  \A i \in 1 .. Innermost :
    /\ 1 <= scopes[i].mark /\ scopes[i].mark <= top
    /\ \A j \in 1 .. Innermost : i <= j => scopes[i].mark <= scopes[j].mark

BlocksBetweenMarks ==
  \A i \in 1 .. Innermost : \A b \in BlocksOf(i) :
    /\ scopes[i].mark <= b.pos
    /\ b.pos + b.size <= top
    /\ \A j \in 1 .. Innermost : i < j => b.pos + b.size <= scopes[j].mark

ScopeDisjoint ==
  \A i \in 1 .. Innermost : \A b, c \in BlocksOf(i) :
    b = c \/ b.pos + b.size <= c.pos \/ c.pos + c.size <= b.pos

BlocksAligned ==
  /\ (MemBase + CurrentTop) % MaxAlign = 0
  /\ \A i \in 1 .. Innermost : (MemBase + scopes[i].mark) % MaxAlign = 0

CoveredBelowMarks ==
  \A k \in 1 .. Innermost : Covered(scopes[k].mark, k - 1)

(* The header, the marks and the blocks of the open scopes keep their      *)
(* order through every sequence of SS_Mark, SS_Allocate and SS_Release.    *)
StackInv ==
  /\ TypeOK /\ Header
  /\ MarksOrdered /\ BlocksBetweenMarks
  /\ ScopeDisjoint /\ BlocksAligned

(* The blocks of each open scope. *)
Frames == [i \in 1 .. Innermost |-> BlocksOf(i)]

Pool == INSTANCE ScopedPool WITH
  FirstByte <- MemFirst,
  LastByte  <- InitialLast,
  Alignment <- MaxAlign,
  Base      <- MemBase,
  Sizes     <- {RoundUp(n) : n \in Storage_Count},
  frames    <- Frames,
  failed    <- raised

(* The stack implements the pool of scopes: Get_Sec_Stack, SS_Allocate and *)
(* SS_Release never do what a scoped pool with the alignment promised in   *)
(* the comment on SS_Allocate could not do.                                *)
PoolSpec == Pool!Spec
=============================================================================
