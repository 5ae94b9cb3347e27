------------------------- MODULE Framebuffer_proofs -------------------------
(* Proofs about Framebuffer for any number of painters, any page and any     *)
(* size of the writes.                                                       *)
EXTENDS Framebuffer, TLAPS

(* A painter that draws rows or writes them has a row left.                  *)
RowLeft ==
  \A p \in Painters : pc[p] \in {"clear", "fill", "write"} => at[p] < PageLen

(* While a painter works alone, the rows it has drawn and the rows it has    *)
(* written are its frame's, and the shared offset is its own count.          *)
WorksAlone(p) ==
  /\ \A q \in Painters : q # p => pc[q] = "idle"
  /\ pc[p] = "fill" => \A r \in Rows : r < at[p] => buf[r] = frame[p]
  /\ pc[p] \in {"seek", "write"} => \A r \in Rows : buf[r] = frame[p]
  /\ pc[p] = "write" => /\ offset = at[p]
                        /\ \A r \in Rows : r < at[p] => mem[r] = frame[p]

AloneInv == \A p \in Painters : alone[p] /\ pc[p] # "idle" => WorksAlone(p)

Inv == TypeOK /\ RowLeft /\ AloneInv

----------------------------------------------------------------------------
LEMMA InitInv == Init => Inv
  BY FramebufferAssumption
  DEF Init, Inv, TypeOK, RowLeft, AloneInv, Rows, Content

(* What a write stores is content of the buffer or of the device. *)
LEMMA StoredType ==
  ASSUME TypeOK, NEW p \in Painters, NEW n \in 1..Chunk,
         at[p] + n <= PageLen, offset + n <= MemLen
  PROVE  Stored(p, n) \in [0..MemLen - 1 -> Content]
  <1>1. ASSUME NEW r \in 0..MemLen - 1, offset <= r, r < offset + n
        PROVE  at[p] + r - offset \in Rows
    BY <1>1, FramebufferAssumption DEF TypeOK, Rows
  <1>2. ASSUME NEW r \in 0..MemLen - 1
        PROVE  (IF offset <= r /\ r < offset + n
                THEN buf[at[p] + r - offset] ELSE mem[r]) \in Content
    BY <1>1, <1>2 DEF TypeOK
  <1> QED BY <1>2 DEF Stored

(* A row that is drawn keeps the types and, unless it was the last one,      *)
(* leaves a row.                                                             *)
LEMMA DrawRowType ==
  ASSUME TypeOK, RowLeft, NEW p \in Painters, at[p] \in Rows,
         NEW content \in Content, NEW next \in {"fill", "seek"},
         DrawRow(p, content, next)
  PROVE  TypeOK' /\ RowLeft'
  <1> USE FramebufferAssumption
  <1>1. buf' \in [Rows -> Content]
    BY DEF TypeOK, DrawRow
  <1>2. PICK step \in {"clear", "fill", "seek", "write", "idle"}, row \in 0..PageLen :
          row < PageLen /\ Go(p, step, row)
    <2>1. CASE at[p] + 1 < PageLen
      <3>1. Go(p, pc[p], at[p] + 1)
        BY <2>1 DEF DrawRow
      <3> QED BY <2>1, <3>1 DEF TypeOK, Rows
    <2>2. CASE ~(at[p] + 1 < PageLen)
      <3>1. Go(p, next, 0)
        BY <2>2 DEF DrawRow
      <3> QED BY <3>1
    <2> QED BY <2>1, <2>2
  <1>3. pc' \in [Painters -> {"idle", "clear", "fill", "seek", "write"}]
    BY <1>2 DEF TypeOK, Go
  <1>4. at' \in [Painters -> 0..PageLen]
    BY <1>2 DEF TypeOK, Go
  <1>5. TypeOK'
    BY <1>1, <1>3, <1>4 DEF TypeOK, DrawRow
  <1>6. RowLeft'
    BY <1>2 DEF TypeOK, RowLeft, Go
  <1> QED BY <1>5, <1>6

LEMMA NextInv == Inv /\ [Next]_vars => Inv'
  <1> SUFFICES ASSUME Inv, [Next]_vars PROVE Inv'
    OBVIOUS
  <1> USE FramebufferAssumption
  <1>1. CASE UNCHANGED vars
    BY <1>1 DEF Inv, TypeOK, RowLeft, AloneInv, WorksAlone, vars
  <1>2. ASSUME NEW p \in Painters, Begin(p) PROVE Inv'
    <2>1. PICK f \in Frames : frame' = [frame EXCEPT ![p] = f]
      BY <1>2 DEF Begin
    <2>2. TypeOK'
      BY <1>2, <2>1 DEF Inv, TypeOK, Begin, Go
    <2>3. RowLeft'
      BY <1>2 DEF Inv, TypeOK, RowLeft, Begin, Go
    <2>4. ASSUME NEW q \in Painters, alone'[q], pc'[q] # "idle"
          PROVE  WorksAlone(q)'
      BY <1>2, <2>4 DEF Inv, TypeOK, WorksAlone, Begin, Go
    <2> QED BY <2>2, <2>3, <2>4 DEF Inv, AloneInv
  <1>3. ASSUME NEW p \in Painters, Clear(p) PROVE Inv'
    <2>1. at[p] \in Rows
      BY <1>3 DEF Inv, TypeOK, RowLeft, Clear, Rows
    <2>2. TypeOK' /\ RowLeft'
      BY <1>3, <2>1, DrawRowType DEF Inv, TypeOK, Clear, Content
    <2>4. ASSUME NEW q \in Painters, alone'[q], pc'[q] # "idle"
          PROVE  WorksAlone(q)'
      <3>1. q = p
        BY <1>3, <2>4 DEF Inv, TypeOK, AloneInv, WorksAlone, Clear, DrawRow, Go
      <3>2. WorksAlone(p)
        BY <1>3, <2>4, <3>1 DEF Inv, AloneInv, Clear, DrawRow
      <3> QED BY <1>3, <2>1, <3>1, <3>2
              DEF Inv, TypeOK, WorksAlone, Clear, DrawRow, Go, Rows
    <2> QED BY <2>2, <2>4 DEF Inv, AloneInv
  <1>4. ASSUME NEW p \in Painters, FillRect(p) PROVE Inv'
    <2>1. at[p] \in Rows
      BY <1>4 DEF Inv, TypeOK, RowLeft, FillRect, Rows
    <2>2. TypeOK' /\ RowLeft'
      BY <1>4, <2>1, DrawRowType DEF Inv, TypeOK, FillRect, Content
    <2>4. ASSUME NEW q \in Painters, alone'[q], pc'[q] # "idle"
          PROVE  WorksAlone(q)'
      <3>1. q = p
        BY <1>4, <2>4 DEF Inv, TypeOK, AloneInv, WorksAlone, FillRect, DrawRow, Go
      <3>2. WorksAlone(p)
        BY <1>4, <2>4, <3>1 DEF Inv, AloneInv, FillRect, DrawRow
      <3> QED BY <1>4, <2>1, <3>1, <3>2
              DEF Inv, TypeOK, WorksAlone, FillRect, DrawRow, Go, Rows
    <2> QED BY <2>2, <2>4 DEF Inv, AloneInv
  <1>5. ASSUME NEW p \in Painters, SeekFails(p) PROVE Inv'
    <2>1. TypeOK' /\ RowLeft'
      BY <1>5 DEF Inv, TypeOK, RowLeft, SeekFails, Return, Go
    <2> QED BY <1>5, <2>1
            DEF Inv, TypeOK, AloneInv, WorksAlone, SeekFails, Return, Go
  <1>6. ASSUME NEW p \in Painters, Seek(p) PROVE Inv'
    BY <1>6 DEF Inv, TypeOK, RowLeft, AloneInv, WorksAlone, Seek, Go, Rows
  <1>7. ASSUME NEW p \in Painters, Write(p) PROVE Inv'
    <2>1. PICK n \in 1..Chunk :
            /\ at[p] + n <= PageLen /\ offset + n <= MemLen
            /\ mem' = Stored(p, n)
            /\ offset' = offset + n
            /\ Go(p, IF at[p] + n < PageLen THEN "write" ELSE "idle", at[p] + n)
      BY <1>7 DEF Write
    <2>2. mem' \in [0..MemLen - 1 -> Content]
      BY <2>1, StoredType DEF Inv
    <2>3. TypeOK' /\ RowLeft'
      BY <1>7, <2>1, <2>2 DEF Inv, TypeOK, RowLeft, Write, Go
    <2>4. ASSUME NEW q \in Painters, alone'[q], pc'[q] # "idle"
          PROVE  WorksAlone(q)'
      <3>1. q = p
        BY <1>7, <2>1, <2>4 DEF Inv, TypeOK, AloneInv, WorksAlone, Write, Go
      <3>2. WorksAlone(p)
        BY <1>7, <2>4, <3>1 DEF Inv, AloneInv, Write
      <3>3. ASSUME NEW r \in Rows, r < at[p] + n PROVE mem'[r] = frame[p]
        <4>1. r \in 0..MemLen - 1
          BY <3>3 DEF Rows
        <4>2. offset = at[p]
          BY <1>7, <3>2 DEF WorksAlone, Write
        <4>3. CASE r < at[p]
          BY <1>7, <2>1, <3>2, <4>1, <4>2, <4>3
          DEF Inv, TypeOK, WorksAlone, Write, Stored
        <4>4. CASE r >= at[p]
          <5>1. at[p] + r - offset = r
            BY <4>2, <4>1 DEF Inv, TypeOK
          <5>2. mem'[r] = buf[r]
            BY <2>1, <3>3, <4>1, <4>2, <4>4, <5>1 DEF Stored
          <5> QED BY <1>7, <3>2, <5>2 DEF WorksAlone, Write
        <4> QED BY <4>1, <4>3, <4>4 DEF Inv, TypeOK
      <3> QED BY <1>7, <2>1, <2>3, <3>1, <3>2, <3>3
              DEF Inv, TypeOK, WorksAlone, Write, Go
    <2> QED BY <2>3, <2>4 DEF Inv, AloneInv
  <1>8. ASSUME NEW p \in Painters, WriteFails(p) PROVE Inv'
    BY <1>8 DEF Inv, TypeOK, RowLeft, AloneInv, WorksAlone, WriteFails, Return, Go
  <1>9. ASSUME NEW p \in Painters, Interrupted(p) PROVE Inv'
    BY <1>1, <1>9 DEF Interrupted
  <1> QED BY <1>1, <1>2, <1>3, <1>4, <1>5, <1>6, <1>7, <1>8, <1>9
          DEF Next, Draws

LEMMA InvHolds == Spec => []Inv
  BY InitInv, NextInv, PTL DEF Spec

(* The variables keep their types: above all, no row is drawn or read beyond *)
(* the buffer, and the offset stays on the device.                           *)
THEOREM TypeCorrect == Spec => []TypeOK
  BY InvHolds, PTL DEF Inv

(* A whole frame, written by one painter alone, is page 0, however the       *)
(* device splits its writes.                                                 *)
THEOREM FramesAreExact == Spec => FrameExact
  <1>1. Inv /\ Inv' /\ [Next]_vars =>
          [\A p \in Painters :
             alone[p] /\ pc[p] = "write" /\ pc'[p] = "idle" /\ at'[p] = PageLen
               => \A r \in Rows : mem'[r] = frame[p]]_vars
    <2> SUFFICES ASSUME Inv, Inv', [Next]_vars, NEW p \in Painters,
                        alone[p], pc[p] = "write", pc'[p] = "idle",
                        at'[p] = PageLen, NEW r \in Rows
                 PROVE  mem'[r] = frame[p]
      OBVIOUS
    <2>1. WorksAlone(p)
      BY DEF Inv, AloneInv
    <2>2. PICK q \in Painters : Begin(q) \/ Draws(q)
      BY DEF Next, Interrupted, vars
    <2>3. q = p
      BY <2>1, <2>2 DEF Inv, TypeOK, WorksAlone, Draws, Begin, Clear, FillRect,
                        SeekFails, Seek, Write, WriteFails, DrawRow, Return, Go
    <2>4. Write(p) \/ WriteFails(p)
      BY <2>2, <2>3 DEF Draws, Begin, Clear, FillRect, SeekFails, Seek
    <2>5. Write(p)
      BY <2>4 DEF Inv, TypeOK, RowLeft, WriteFails, Return, Go
    <2>6. PICK n \in 1..Chunk :
            /\ at[p] + n <= PageLen /\ offset + n <= MemLen
            /\ mem' = Stored(p, n)
            /\ Go(p, IF at[p] + n < PageLen THEN "write" ELSE "idle", at[p] + n)
      BY <2>5 DEF Write
    <2>7. at[p] + n = PageLen /\ offset = at[p] /\ r \in 0..MemLen - 1
      BY <2>1, <2>6, FramebufferAssumption DEF Inv, TypeOK, WorksAlone, Go, Rows
    <2>8. CASE r < at[p]
      BY <2>1, <2>6, <2>7, <2>8 DEF Inv, TypeOK, WorksAlone, Stored, Rows
    <2>9. CASE r >= at[p]
      <3>1. at[p] + r - offset = r /\ r < offset + n
        BY <2>6, <2>7, FramebufferAssumption DEF Inv, TypeOK, Rows
      <3> QED BY <2>1, <2>6, <2>7, <2>9, <3>1 DEF WorksAlone, Stored
    <2> QED BY <2>7, <2>8, <2>9 DEF Inv, TypeOK
  <1> QED BY InvHolds, <1>1, PTL DEF Spec, FrameExact

(* A painter alone never writes outside page 0.                              *)
THEOREM PageZeroOnly == Spec => OnlyPageZero
  <1>1. Inv /\ [Next]_vars =>
          [\A p \in Painters :
             alone[p] /\ pc[p] # "idle"
               => \A r \in (0..MemLen - 1) \ Rows : mem'[r] = mem[r]]_vars
    <2> SUFFICES ASSUME Inv, [Next]_vars, NEW p \in Painters,
                        alone[p], pc[p] # "idle",
                        NEW r \in (0..MemLen - 1) \ Rows
                 PROVE  mem'[r] = mem[r]
      OBVIOUS
    <2>1. WorksAlone(p)
      BY DEF Inv, AloneInv
    <2>2. CASE Write(p)
      <3>1. PICK n \in 1..Chunk : at[p] + n <= PageLen /\ mem' = Stored(p, n)
        BY <2>2 DEF Write
      <3>2. offset = at[p] /\ r >= PageLen
        BY <2>1, <2>2, FramebufferAssumption DEF WorksAlone, Write, Rows
      <3>3. ~(r < offset + n)
        BY <3>1, <3>2, FramebufferAssumption DEF Inv, TypeOK
      <3> QED BY <3>1, <3>3 DEF Stored
    <2>3. CASE mem' = mem
      BY <2>3
    <2> QED BY <2>1, <2>2, <2>3
            DEF Inv, TypeOK, WorksAlone, Next, Draws, Begin, Clear, FillRect,
                SeekFails, Seek, Write, WriteFails, Interrupted, DrawRow, Return,
                vars
  <1> QED BY InvHolds, <1>1, PTL DEF Spec, OnlyPageZero
=============================================================================
