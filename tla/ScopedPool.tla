------------------------------ MODULE ScopedPool ------------------------------
(***************************************************************************)
(* What the compiler expects of the secondary stack, free of tops, marks   *)
(* and headers: each open scope owns the blocks taken since it was entered *)
(* and loses all of them, and no others, when it is left.  A new block is  *)
(* aligned, lies in the pool and shares no byte with a block still owned.  *)
(***************************************************************************)
EXTENDS Integers, Sequences

CONSTANTS
  FirstByte, LastByte,  \* the bytes of the pool
  Alignment,            \* of the address of every block
  Base,                 \* address of the byte before FirstByte, from an aligned one
  Sizes                 \* the sizes a program may ask for

VARIABLES
  frames,   \* for each open scope, outermost first, the blocks it owns
  failed    \* a request was refused

BytesOf(b) == b.pos .. b.pos + b.size - 1

Owned == UNION {frames[i] : i \in 1 .. Len(frames)}

Fits(b) ==
  /\ BytesOf(b) \subseteq FirstByte .. LastByte
  /\ (Base + b.pos) % Alignment = 0
  /\ \A c \in Owned : BytesOf(b) \cap BytesOf(c) = {}
-----------------------------------------------------------------------------
Init == frames = <<>> /\ failed = FALSE

Enter ==
  /\ ~failed
  /\ frames' = Append(frames, {})
  /\ UNCHANGED failed

Take(b) ==
  /\ ~failed
  /\ frames # <<>>
  /\ Fits(b)
  /\ frames' = [frames EXCEPT ![Len(frames)] = @ \cup {b}]
  /\ UNCHANGED failed

(* A request may be refused, after which only a restart helps. *)
Refuse == ~failed /\ frames # <<>> /\ failed' = TRUE /\ UNCHANGED frames

Leave ==
  /\ ~failed
  /\ frames # <<>>
  /\ frames' = SubSeq(frames, 1, Len(frames) - 1)
  /\ UNCHANGED failed

Restart == frames' = <<>> /\ failed' = FALSE

Next ==
  \/ Enter
  \/ \E pos \in FirstByte .. LastByte + 1, size \in Sizes :
       Take([pos |-> pos, size |-> size])
  \/ Refuse
  \/ Leave
  \/ Restart

Spec == Init /\ [][Next]_<<frames, failed>>
=============================================================================
