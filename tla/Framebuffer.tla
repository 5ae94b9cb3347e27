---------------------------- MODULE Framebuffer ----------------------------
(* class Framebuffer of src/src/menu_ui.py, as the main loop and the workers *)
(* of MenuUI use it: each composes a frame in the one buffer they share and  *)
(* presents it through the one descriptor, whose offset they share too.      *)
(*                                                                           *)
(* The interpreter may change threads between two rows of a drawing and in   *)
(* any system call.  The device behind the descriptor is external: it holds  *)
(* MemLen rows, of which the first PageLen are page 0; a write stores some   *)
(* of what it was given, or fails.                                           *)
EXTENDS Integers

CONSTANTS
  Painters,   \* the threads that draw
  Frames,     \* what a draw can show
  Blank,      \* the background, and what the device holds at first
  PageLen, MemLen,
  Chunk       \* most rows in one write

ASSUME FramebufferAssumption ==
  /\ Blank \notin Frames
  /\ PageLen \in Nat \ {0} /\ MemLen \in Nat /\ PageLen <= MemLen
  /\ Chunk \in Nat \ {0}

VARIABLES
  opened,   \* is fd not None?
  buf,      \* the shared buffer, by row
  mem,      \* the rows of the device
  offset,   \* the file offset of fd
  pc, at,   \* of a painter: its place, and the row it is at
  frame,    \* the frame it draws
  alone     \* observer: has no other painter been at work since it began?

vars == <<opened, buf, mem, offset, pc, at, frame, alone>>

Rows    == 0..PageLen - 1
Content == Frames \cup {Blank}

TypeOK ==
  /\ opened \in BOOLEAN
  /\ buf \in [Rows -> Content]
  /\ mem \in [0..MemLen - 1 -> Content]
  /\ offset \in 0..MemLen
  /\ pc \in [Painters -> {"idle", "clear", "fill", "seek", "write"}]
  /\ at \in [Painters -> 0..PageLen]
  /\ frame \in [Painters -> Frames]
  /\ alone \in [Painters -> BOOLEAN]

(* open() succeeds or leaves fd at None; the draws go on without it.         *)
Init ==
  /\ opened \in BOOLEAN
  /\ buf = [r \in Rows |-> Blank]
  /\ mem = [r \in 0..MemLen - 1 |-> Blank]
  /\ offset = 0
  /\ pc = [p \in Painters |-> "idle"]
  /\ at = [p \in Painters |-> 0]
  /\ frame \in [Painters -> Frames]
  /\ alone = [p \in Painters |-> FALSE]

----------------------------------------------------------------------------
(* draw() and draw_idle(): clear, the rectangles and glyphs, present.        *)

Go(p, step, row) ==
  /\ pc' = [pc EXCEPT ![p] = step]
  /\ at' = [at EXCEPT ![p] = row]

Begin(p) ==
  /\ pc[p] = "idle"
  /\ Go(p, "clear", 0)
  /\ \E f \in Frames : frame' = [frame EXCEPT ![p] = f]
  /\ alone' = [q \in Painters |-> q = p /\ \A o \in Painters : pc[o] = "idle"]
  /\ UNCHANGED <<opened, buf, mem, offset>>

(* A mutant: one row too many is drawn.                                      *)
DrawRowMutant(p, content, next) ==
  /\ buf' = [buf EXCEPT ![at[p]] = content]
  /\ IF at[p] < PageLen THEN Go(p, pc[p], at[p] + 1) ELSE Go(p, next, at[p] + 1)
  /\ UNCHANGED <<opened, mem, offset, frame, alone>>

(* The row of the buffer that p is at gets its content, the last one before  *)
(* the next step.                                                            *)
DrawRow(p, content, next) ==
  /\ buf' = [buf EXCEPT ![at[p]] = content]
  /\ IF at[p] + 1 < PageLen THEN Go(p, pc[p], at[p] + 1) ELSE Go(p, next, 0)
  /\ UNCHANGED <<opened, mem, offset, frame, alone>>

(* A mutant: clearing starts anew when it is done.                           *)
ClearMutant(p) == pc[p] = "clear" /\ DrawRow(p, Blank, "clear")

Clear(p) == pc[p] = "clear" /\ DrawRow(p, Blank, "fill")

FillRect(p) == pc[p] = "fill" /\ DrawRow(p, frame[p], "seek")

Return(p) ==
  /\ Go(p, "idle", at[p])
  /\ UNCHANGED <<opened, buf, frame, alone>>

(* present() without a descriptor, or when the seek fails.                   *)
SeekFails(p) ==
  /\ pc[p] = "seek"
  /\ Return(p) /\ UNCHANGED <<mem, offset>>

(* A mutant: the frame is written where the last one ended.                  *)
SeekMutant(p) ==
  /\ pc[p] = "seek" /\ opened
  /\ Go(p, "write", 0)
  /\ UNCHANGED <<opened, buf, mem, offset, frame, alone>>

Seek(p) ==
  /\ pc[p] = "seek" /\ opened
  /\ offset' = 0
  /\ Go(p, "write", 0)
  /\ UNCHANGED <<opened, buf, mem, frame, alone>>

(* EINTR: the call is made again.                                            *)
Interrupted(p) == opened /\ pc[p] \in {"seek", "write"} /\ UNCHANGED vars

(* The device takes the first n rows that are left of the chunk.             *)
Stored(p, n) ==
  [r \in 0..MemLen - 1 |->
     IF offset <= r /\ r < offset + n THEN buf[at[p] + r - offset] ELSE mem[r]]

(* A mutant: the chunk counts as written whatever the device took.           *)
WriteMutant(p) ==
  /\ pc[p] = "write"
  /\ \E chunk \in 1..Chunk, n \in 1..Chunk :
       /\ n <= chunk
       /\ chunk = Chunk \/ at[p] + chunk = PageLen
       /\ at[p] + chunk <= PageLen /\ offset + n <= MemLen
       /\ mem' = Stored(p, n)
       /\ offset' = offset + n
       /\ Go(p, IF at[p] + chunk < PageLen THEN "write" ELSE "idle", at[p] + chunk)
  /\ UNCHANGED <<opened, buf, frame, alone>>

Write(p) ==
  /\ pc[p] = "write"
  /\ \E n \in 1..Chunk :
       /\ at[p] + n <= PageLen /\ offset + n <= MemLen
       /\ mem' = Stored(p, n)
       /\ offset' = offset + n
       /\ Go(p, IF at[p] + n < PageLen THEN "write" ELSE "idle", at[p] + n)
  /\ UNCHANGED <<opened, buf, frame, alone>>

(* A write fails or stores nothing: the rest of the frame is given up.       *)
WriteFails(p) ==
  /\ pc[p] = "write"
  /\ Return(p) /\ UNCHANGED <<mem, offset>>

Draws(p) ==
  Clear(p) \/ FillRect(p) \/ SeekFails(p) \/ Seek(p) \/ Write(p) \/ WriteFails(p)

Next == \E p \in Painters : Begin(p) \/ Draws(p) \/ Interrupted(p)

(* A thread that draws goes on; signals do not interrupt it for ever.        *)
Fairness == \A p \in Painters : WF_vars(Draws(p))

Spec == Init /\ [][Next]_vars /\ Fairness

----------------------------------------------------------------------------
(* A painter that no other one joins writes its frame row by row, however    *)
(* the device splits it: when present() ends with all of it written, page 0  *)
(* is the frame, whatever a failed or an overlapped paint had left there.    *)
FrameExact ==
  [][\A p \in Painters :
       alone[p] /\ pc[p] = "write" /\ pc'[p] = "idle" /\ at'[p] = PageLen
         => \A r \in Rows : mem'[r] = frame[p]]_vars

(* While one painter is at work, page 0 alone is written: the offset that    *)
(* an overlapped paint left anywhere is set back.                            *)
OnlyPageZero ==
  [][\A p \in Painters :
       alone[p] /\ pc[p] # "idle"
         => \A r \in (0..MemLen - 1) \ Rows : mem'[r] = mem[r]]_vars

(* Every draw ends, whatever the others do to the offset.                    *)
DrawsEnd == \A p \in Painters : pc[p] # "idle" ~> pc[p] = "idle"
=============================================================================
