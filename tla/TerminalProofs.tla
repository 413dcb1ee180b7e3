--------------------------- MODULE TerminalProofs ---------------------------
(***************************************************************************)
(* The keyboard ring for every buffer size and every set of readers, then  *)
(* the keyboard behind both controllers with any number of bytes on their  *)
(* way: the byte in the 8042 is always noticed, and no step shows the      *)
(* driver and its readers anything that Keyboard does not describe.  What  *)
(* is proved of Keyboard holds here.  And the screen shows the line that   *)
(* was typed, for every size of screen and line and any number of keys.    *)
(*                                                                         *)
(* The ring's invariant says that only the running reader is past its test *)
(* of the ring (Alone), that the ring stays non-empty until that reader    *)
(* has freed its slot (Present), and that the character it read is still   *)
(* there.                                                                  *)
(***************************************************************************)
EXTENDS Terminal, SequenceTheorems, NaturalsInduction, WellFoundedInduction, TLAPS

Alone   == \A r \in Readers : pc[r] \in {"get", "advance", "use"} => r = cpu
Present == /\ pc[cpu] \in {"get", "advance"} => kbd_head # kbd_tail
           /\ pc[cpu] = "advance" => got = kbd_buffer[kbd_tail]
           /\ pc[cpu] = "use" => got \in Chars
Asleep  == asleep => pc[cpu] = "check"

IInv == TypeOK /\ Alone /\ Present /\ Asleep

----------------------------------------------------------------------------
(* Arithmetic of the ring.                                                 *)

LEMMA ModSmall == ASSUME NEW a \in Nat, a < KBD_BUFFER_SIZE
                  PROVE  a % KBD_BUFFER_SIZE = a
  BY SizeAssumption

LEMMA ModWrap == ASSUME NEW a \in Nat, a >= KBD_BUFFER_SIZE, a < 2 * KBD_BUFFER_SIZE
                 PROVE  a % KBD_BUFFER_SIZE = a - KBD_BUFFER_SIZE
  BY SizeAssumption

LEMMA NextSlot ==
  ASSUME NEW i \in Slots
  PROVE  (i + 1) % KBD_BUFFER_SIZE = IF i = KBD_BUFFER_SIZE - 1 THEN 0 ELSE i + 1
<1>1. CASE i = KBD_BUFFER_SIZE - 1
  BY <1>1, SizeAssumption, ModWrap, i + 1 >= KBD_BUFFER_SIZE DEF Slots
<1>2. CASE i # KBD_BUFFER_SIZE - 1
  BY <1>2, SizeAssumption, ModSmall DEF Slots
<1> QED BY <1>1, <1>2

----------------------------------------------------------------------------
(* The invariant.                                                          *)

LEMMA InitInv == Init => IInv
<1> SUFFICES ASSUME Init PROVE IInv
  OBVIOUS
<1>1. TypeOK
  <2>1. kbd_buffer \in [Slots -> Chars]
    BY DEF Init, Chars
  <2>2. switches \in [Readers -> 0 .. MaxSwitches]
    BY SwitchesAssumption DEF Init
  <2>3. kbd_head \in Slots /\ kbd_tail \in Slots /\ input_pos \in 0 .. INPUT_BUF_SIZE - 1
    BY SizeAssumption DEF Init, Slots
  <2> QED
    BY <2>1, <2>2, <2>3 DEF Init, TypeOK, Readers
<1>2. Alone /\ Present /\ Asleep
  BY DEF Init, Alone, Present, Asleep, Readers
<1> QED BY <1>1, <1>2 DEF IInv

LEMMA NextInv == IInv /\ [Next]_vars => IInv'
<1> SUFFICES ASSUME IInv, [Next]_vars PROVE IInv'
  OBVIOUS
<1> USE DEF IInv
<1>1. ASSUME NEW key \in Keys, keyboard_handler_c(key) PROVE IInv'
  <2>1. CASE \E down \in BOOLEAN : Modifier(key, down)
    <3>1. UNCHANGED ring
      BY <1>1, <2>1 DEF keyboard_handler_c, Modifier, HasChar, ring
    <3> QED
      BY <1>1, <2>1, <3>1
      DEF keyboard_handler_c, Modifier, TypeOK, Alone, Present, Asleep, ring, eval
  <2>2. CASE HasChar(key)
    <3>1. Translate(key) \in Chars
      BY <2>2 DEF HasChar, Translate, Chars
    <3>2. kbd_buffer_put(Translate(key)) /\ UNCHANGED mods
      BY <1>1, <2>2 DEF keyboard_handler_c, HasChar, Modifier
    <3>3. (kbd_head + 1) % KBD_BUFFER_SIZE \in Slots
      BY NextSlot, SizeAssumption DEF TypeOK, Slots
    <3>4. TypeOK'
      BY <1>1, <3>1, <3>2, <3>3 DEF keyboard_handler_c, kbd_buffer_put, TypeOK, mods, eval
    <3>5. Present'
      BY <1>1, <3>2, <3>3 DEF keyboard_handler_c, kbd_buffer_put, TypeOK, Present
    <3> QED
      BY <1>1, <3>4, <3>5 DEF keyboard_handler_c, Alone, Asleep
  <2>3. CASE UNCHANGED <<kbd_buffer, kbd_head, mods>>
    BY <1>1, <2>3 DEF keyboard_handler_c, TypeOK, Alone, Present, Asleep, mods, eval
  <2> QED
    BY <1>1, <2>1, <2>2, <2>3 DEF keyboard_handler_c
<1>2. CASE timer_handler_c
  BY <1>2 DEF timer_handler_c, TypeOK, Alone, Present, Asleep, ring, mods, eval
<1>3. CASE Check
  BY <1>3 DEF Check, At, Live, TypeOK, Alone, Present, Asleep, ring, mods, eval
<1>4. CASE Halt
  BY <1>4 DEF Halt, At, TypeOK, Alone, Present, Asleep, ring, mods, eval
<1>5. CASE GetRead
  BY <1>5 DEF GetRead, At, TypeOK, Alone, Present, Asleep, ring, mods, eval
<1>6. CASE GetAdvance
  <2>1. (kbd_tail + 1) % KBD_BUFFER_SIZE \in Slots
    BY NextSlot, SizeAssumption DEF TypeOK, Slots
  <2> QED
    BY <1>6, <2>1 DEF GetAdvance, At, TypeOK, Alone, Present, Asleep, mods, eval
<1>7. CASE Use
  <2>1. CASE KeyInLine
    <3>1. input_pos' =
            CASE got = "BS" /\ input_pos > 0 -> input_pos - 1
              [] got \in Printable /\ input_pos < INPUT_BUF_SIZE - 1 -> input_pos + 1
              [] OTHER -> input_pos
      BY <2>1 DEF KeyInLine
    <3>2. "BS" \notin Printable
      BY DEF Printable
    <3>3. input_pos' \in 0 .. INPUT_BUF_SIZE - 1
      BY <3>1, <3>2, SizeAssumption DEF TypeOK
    <3>4. pc' = [pc EXCEPT ![cpu] = "check"] /\ UNCHANGED eval
      BY <2>1 DEF KeyInLine
    <3>5. UNCHANGED <<ring, mods, cpu, asleep>> /\ got' = NoChar /\ At("use")
      BY <1>7 DEF Use
    <3> QED BY <3>3, <3>4, <3>5
            DEF At, TypeOK, Alone, Present, Asleep, ring, mods, eval
  <2>2. CASE EvalLine
    <3>1. /\ pc' = [pc EXCEPT ![cpu] = "eval"] /\ evaluating' = TRUE
          /\ UNCHANGED <<input_pos, switches>>
      BY <2>2 DEF EvalLine
    <3>2. UNCHANGED <<ring, mods, cpu, asleep>> /\ got' = NoChar /\ At("use")
      BY <1>7 DEF Use
    <3> QED BY <3>1, <3>2 DEF At, TypeOK, Alone, Present, Asleep, ring, mods
  <2>3. CASE /\ pc' = [pc EXCEPT ![cpu] = IF got = "ESC" THEN "eval" ELSE "check"]
             /\ UNCHANGED <<input_pos, eval>>
    BY <1>7, <2>3 DEF Use, At, TypeOK, Alone, Present, Asleep, ring, mods, eval
  <2>4. \/ KeyInLine \/ EvalLine
        \/ /\ pc' = [pc EXCEPT ![cpu] = IF got = "ESC" THEN "eval" ELSE "check"]
           /\ UNCHANGED <<input_pos, eval>>
    BY <1>7, Zenon DEF Use
  <2> QED
    BY <2>1, <2>2, <2>3, <2>4
<1>9. CASE WordSwitches
  <2>1. switches' \in [Readers -> 0 .. MaxSwitches]
    <3>1. switches[cpu] - 1 \in 0 .. MaxSwitches
      BY <1>9, SwitchesAssumption DEF WordSwitches, TypeOK
    <3> QED BY <1>9, <3>1 DEF WordSwitches, TypeOK
  <2>2. CASE cpu' \in Live /\ UNCHANGED pc
    BY <1>9, <2>1, <2>2
    DEF WordSwitches, At, Live, TypeOK, Alone, Present, Asleep, ring, mods
  <2>3. CASE pc' = [pc EXCEPT ![cpu] = "check"] /\ UNCHANGED cpu
    BY <1>9, <2>1, <2>3 DEF WordSwitches, At, TypeOK, Alone, Present, Asleep, ring, mods
  <2> QED BY <1>9, <2>2, <2>3 DEF WordSwitches
<1>10. CASE CodeEnds
  <2>3. switches' \in [Readers -> 0 .. MaxSwitches]
    BY <1>10, SwitchesAssumption DEF CodeEnds, TypeOK
  <2>1. CASE cpu = Repl
    <3>1. /\ pc' = [pc EXCEPT ![cpu] = "check"] /\ cpu' = cpu
          /\ input_pos' = 0 /\ evaluating' = FALSE
          /\ UNCHANGED <<ring, mods, got, asleep>> /\ At("eval")
      BY <1>10, <2>1 DEF CodeEnds
    <3>2. 0 \in 0 .. INPUT_BUF_SIZE - 1
      BY SizeAssumption
    <3> QED BY <2>3, <3>1, <3>2 DEF At, TypeOK, Alone, Present, Asleep, ring, mods
  <2>2. CASE cpu # Repl
    <3>1. /\ pc' = [pc EXCEPT ![cpu] = "done"] /\ cpu' \in Live \ {cpu}
          /\ UNCHANGED <<input_pos, evaluating>>
          /\ UNCHANGED <<ring, mods, got, asleep>> /\ At("eval")
      BY <1>10, <2>2 DEF CodeEnds
    <3> QED BY <2>3, <3>1 DEF At, Live, TypeOK, Alone, Present, Asleep, ring, mods
  <2> QED BY <2>1, <2>2
<1>8. CASE UNCHANGED vars
  BY <1>8 DEF vars, ring, mods, eval, TypeOK, Alone, Present, Asleep
<1> QED
  BY <1>1, <1>2, <1>3, <1>4, <1>5, <1>6, <1>7, <1>8, <1>9, <1>10 DEF Next, Run

\* The three facts hold together in every reachable state.
THEOREM Invariance == Spec => []IInv
  BY InitInv, NextInv, PTL DEF Spec

\* Type correctness: the ring's indices and the line's length stay in bounds.
THEOREM TypeCorrect == Spec => []TypeOK
  BY Invariance, PTL DEF IInv

\* keyboard_getchar never stops the CPU: the character a reader saw is there.
THEOREM NoWait == Spec => []GetNeverWaits
<1>1. IInv => GetNeverWaits
  BY DEF IInv, Present, GetNeverWaits, At
<1> QED BY <1>1, Invariance, PTL

----------------------------------------------------------------------------
(* The ring as a queue: b, h and t are a buffer, its head and its tail.    *)

CountOf(h, t) == (h + KBD_BUFFER_SIZE - t) % KBD_BUFFER_SIZE
RingOf(b, h, t) == [i \in 1 .. CountOf(h, t) |-> b[(t + i - 1) % KBD_BUFFER_SIZE]]

\* The slot of the k-th character from the tail, k counted from 0.
SlotOf(t, k) == IF t + k < KBD_BUFFER_SIZE THEN t + k ELSE t + k - KBD_BUFFER_SIZE

Ring == RingOf(kbd_buffer, kbd_head, kbd_tail)
Held == IF pc[cpu] = "use" THEN got ELSE NoChar

LEMMA CountIs ==
  ASSUME NEW h \in Slots, NEW t \in Slots
  PROVE  /\ CountOf(h, t) = IF h >= t THEN h - t ELSE h + KBD_BUFFER_SIZE - t
         /\ CountOf(h, t) \in 0 .. KBD_BUFFER_SIZE - 1
<1> DEFINE a == h + KBD_BUFFER_SIZE - t
<1>1. a \in Nat /\ a < 2 * KBD_BUFFER_SIZE
  BY SizeAssumption DEF Slots
<1>2. CASE h >= t
  <2>1. a >= KBD_BUFFER_SIZE
    BY <1>2, SizeAssumption DEF Slots
  <2>2. CountOf(h, t) = a - KBD_BUFFER_SIZE
    BY <1>1, <2>1, ModWrap DEF CountOf
  <2> QED
    BY <1>2, <2>2, SizeAssumption DEF Slots
<1>3. CASE h < t
  <2>1. a < KBD_BUFFER_SIZE
    BY <1>3, SizeAssumption DEF Slots
  <2>2. CountOf(h, t) = a
    BY <1>1, <2>1, ModSmall DEF CountOf
  <2> QED
    BY <1>3, <2>2, SizeAssumption DEF Slots
<1> QED
  BY <1>2, <1>3, SizeAssumption DEF Slots

LEMMA RingIs ==
  ASSUME NEW b \in [Slots -> Chars], NEW h \in Slots, NEW t \in Slots
  PROVE  /\ RingOf(b, h, t) \in Seq(Chars)
         /\ Len(RingOf(b, h, t)) = CountOf(h, t)
         /\ \A i \in 1 .. CountOf(h, t) : RingOf(b, h, t)[i] = b[SlotOf(t, i - 1)]
<1>1. CountOf(h, t) \in Nat /\ CountOf(h, t) < KBD_BUFFER_SIZE
  BY CountIs, SizeAssumption
<1>2. ASSUME NEW i \in 1 .. CountOf(h, t)
      PROVE  /\ (t + i - 1) % KBD_BUFFER_SIZE = SlotOf(t, i - 1)
             /\ SlotOf(t, i - 1) \in Slots
  <2> DEFINE a == t + i - 1
  <2>1. a \in Nat /\ a < 2 * KBD_BUFFER_SIZE
    BY <1>1, SizeAssumption DEF Slots
  <2>2. CASE a < KBD_BUFFER_SIZE
    <3>1. a % KBD_BUFFER_SIZE = a
      BY <2>1, <2>2, ModSmall
    <3> QED BY <2>1, <2>2, <3>1, SizeAssumption DEF Slots, SlotOf
  <2>3. CASE a >= KBD_BUFFER_SIZE
    <3>1. a % KBD_BUFFER_SIZE = a - KBD_BUFFER_SIZE
      BY <2>1, <2>3, ModWrap
    <3> QED BY <1>1, <2>1, <2>3, <3>1, SizeAssumption DEF Slots, SlotOf
  <2> QED BY <2>1, <2>2, <2>3, SizeAssumption
<1>3. \A i \in 1 .. CountOf(h, t) : /\ RingOf(b, h, t)[i] = b[SlotOf(t, i - 1)]
                                    /\ RingOf(b, h, t)[i] \in Chars
  BY <1>2 DEF RingOf
<1>4. RingOf(b, h, t) \in [1 .. CountOf(h, t) -> Chars]
  BY <1>3 DEF RingOf
<1> QED
  BY <1>1, <1>3, <1>4

\* Storing a character at the head appends it to the queue.
LEMMA PutAppends ==
  ASSUME NEW b \in [Slots -> Chars], NEW h \in Slots, NEW t \in Slots, NEW c \in Chars,
         (h + 1) % KBD_BUFFER_SIZE # t
  PROVE  LET r == RingOf(b, h, t)
         IN  /\ Len(r) < KBD_BUFFER_SIZE - 1
             /\ RingOf([b EXCEPT ![h] = c], (h + 1) % KBD_BUFFER_SIZE, t) = Append(r, c)
<1> DEFINE n == CountOf(h, t)
           r == RingOf(b, h, t)
           b2 == [b EXCEPT ![h] = c]
           h2 == (h + 1) % KBD_BUFFER_SIZE
           r2 == RingOf(b2, h2, t)
<1>1. h2 = IF h = KBD_BUFFER_SIZE - 1 THEN 0 ELSE h + 1
  BY NextSlot
<1>2. h2 \in Slots /\ b2 \in [Slots -> Chars]
  BY <1>1, SizeAssumption DEF Slots
<1>3. /\ n = IF h >= t THEN h - t ELSE h + KBD_BUFFER_SIZE - t
      /\ n \in 0 .. KBD_BUFFER_SIZE - 1
  BY CountIs
<1>4. CountOf(h2, t) = IF h2 >= t THEN h2 - t ELSE h2 + KBD_BUFFER_SIZE - t
  <2> HIDE DEF h2
  <2> QED BY <1>2, CountIs
<1>5. CountOf(h2, t) = n + 1 /\ n < KBD_BUFFER_SIZE - 1
  <2> HIDE DEF h2, n
  <2>1. h2 # t
    BY DEF h2
  <2> QED BY <1>1, <1>3, <1>4, <2>1, SizeAssumption DEF Slots
<1>6. /\ r2 \in Seq(Chars) /\ Len(r2) = n + 1
      /\ \A i \in 1 .. n + 1 : r2[i] = b2[SlotOf(t, i - 1)]
  <2> HIDE DEF h2, b2, n
  <2>1. /\ RingOf(b2, h2, t) \in Seq(Chars)
        /\ Len(RingOf(b2, h2, t)) = CountOf(h2, t)
        /\ \A i \in 1 .. CountOf(h2, t) : RingOf(b2, h2, t)[i] = b2[SlotOf(t, i - 1)]
    BY <1>2, RingIs
  <2> QED BY <1>5, <2>1
<1>7. /\ r \in Seq(Chars) /\ Len(r) = n
      /\ \A i \in 1 .. n : r[i] = b[SlotOf(t, i - 1)]
  BY RingIs
<1>8. SlotOf(t, n) = h
  BY <1>3, SizeAssumption DEF Slots, SlotOf
<1>9. ASSUME NEW i \in 1 .. n
      PROVE  SlotOf(t, i - 1) # h /\ SlotOf(t, i - 1) \in Slots
  BY <1>3, SizeAssumption DEF Slots, SlotOf
<1>10. \A i \in 1 .. n + 1 : r2[i] = Append(r, c)[i]
  <2> SUFFICES ASSUME NEW i \in 1 .. n + 1 PROVE r2[i] = Append(r, c)[i]
    OBVIOUS
  <2> HIDE DEF n, r, r2
  <2>1. CASE i = n + 1
    BY <1>3, <1>6, <1>7, <1>8, <2>1
  <2>2. CASE i # n + 1
    BY <1>3, <1>6, <1>7, <1>9, <2>2
  <2> QED BY <2>1, <2>2
<1> QED
  <2> HIDE DEF n, r, r2
  <2>1. Append(r, c) \in Seq(Chars) /\ Len(Append(r, c)) = n + 1
    BY <1>7, <1>3
  <2>2. r2 = Append(r, c)
    BY <1>6, <1>10, <2>1, SeqEqual
  <2> QED BY <2>2, <1>5, <1>7 DEF r, r2

\* Freeing the slot at the tail takes the first character off the queue.
LEMMA AdvanceTakes ==
  ASSUME NEW b \in [Slots -> Chars], NEW h \in Slots, NEW t \in Slots, h # t
  PROVE  LET r == RingOf(b, h, t)
         IN  /\ r # <<>> /\ Head(r) = b[t]
             /\ RingOf(b, h, (t + 1) % KBD_BUFFER_SIZE) = Tail(r)
<1> DEFINE n == CountOf(h, t)
           r == RingOf(b, h, t)
           t2 == (t + 1) % KBD_BUFFER_SIZE
           r2 == RingOf(b, h, t2)
<1>1. t2 = IF t = KBD_BUFFER_SIZE - 1 THEN 0 ELSE t + 1
  BY NextSlot
<1>2. t2 \in Slots
  BY <1>1, SizeAssumption DEF Slots
<1>3. /\ n = IF h >= t THEN h - t ELSE h + KBD_BUFFER_SIZE - t
      /\ n \in 1 .. KBD_BUFFER_SIZE - 1
  <2>1. /\ n = IF h >= t THEN h - t ELSE h + KBD_BUFFER_SIZE - t
        /\ n \in 0 .. KBD_BUFFER_SIZE - 1
    BY CountIs
  <2> HIDE DEF n
  <2> QED BY <2>1, SizeAssumption DEF Slots
<1>4. CountOf(h, t2) = n - 1
  <2> HIDE DEF t2, n
  <2>1. CountOf(h, t2) = IF h >= t2 THEN h - t2 ELSE h + KBD_BUFFER_SIZE - t2
    BY <1>2, CountIs
  <2> QED BY <1>1, <1>3, <2>1, SizeAssumption DEF Slots
<1>5. /\ r2 \in Seq(Chars) /\ Len(r2) = n - 1
      /\ \A i \in 1 .. n - 1 : r2[i] = b[SlotOf(t2, i - 1)]
  <2> HIDE DEF t2, n
  <2>1. /\ r2 \in Seq(Chars) /\ Len(r2) = CountOf(h, t2)
        /\ \A i \in 1 .. CountOf(h, t2) : r2[i] = b[SlotOf(t2, i - 1)]
    BY <1>2, RingIs
  <2> QED BY <1>4, <2>1
<1>6. /\ r \in Seq(Chars) /\ Len(r) = n
      /\ \A i \in 1 .. n : r[i] = b[SlotOf(t, i - 1)]
  BY RingIs
<1>7. ASSUME NEW i \in 1 .. n - 1 PROVE SlotOf(t2, i - 1) = SlotOf(t, i)
  <2> HIDE DEF t2, n
  <2> QED BY <1>1, <1>3, SizeAssumption DEF Slots, SlotOf
<1>8. SlotOf(t, 0) = t
  BY SizeAssumption DEF Slots, SlotOf
<1> HIDE DEF n, r, r2
<1>9. r # <<>> /\ Head(r) = b[t]
  BY <1>3, <1>6, <1>8
<1>10. Tail(r) \in Seq(Chars) /\ Len(Tail(r)) = n - 1
  BY <1>3, <1>6, <1>9, HeadTailProperties
<1>11. \A i \in 1 .. n - 1 : Tail(r)[i] = r[i + 1]
  BY <1>6, <1>9, <1>10, HeadTailProperties
<1>12. \A i \in 1 .. n - 1 : r2[i] = Tail(r)[i]
  <2> SUFFICES ASSUME NEW i \in 1 .. n - 1 PROVE r2[i] = Tail(r)[i]
    OBVIOUS
  <2>1. r2[i] = b[SlotOf(t, i)]
    BY <1>5, <1>7
  <2>2. i + 1 \in 1 .. n /\ (i + 1) - 1 = i
    BY <1>3
  <2>3. r[i + 1] = b[SlotOf(t, i)]
    BY <1>6, <2>2
  <2> QED BY <1>11, <2>1, <2>3
<1>13. r2 = Tail(r)
  BY <1>5, <1>10, <1>12, SeqEqual
<1> QED BY <1>9, <1>13 DEF r, r2

----------------------------------------------------------------------------
(* Every step is a step of the queue, or leaves it alone.                  *)

LEMMA NextRefines ==
  IInv /\ [Next]_vars =>
      [Queue!Get \/ Queue!Handle \/ \E c \in Chars : Queue!Put(c)]_<<Ring, Held>>
<1> SUFFICES ASSUME IInv, [Next]_vars
             PROVE  \/ Queue!Get \/ Queue!Handle
                    \/ \E c \in Chars : Queue!Put(c)
                    \/ UNCHANGED <<Ring, Held>>
  OBVIOUS
<1> USE DEF IInv
<1>1. ASSUME NEW key \in Keys, keyboard_handler_c(key)
      PROVE  (\E c \in Chars : Queue!Put(c)) \/ UNCHANGED <<Ring, Held>>
  <2>1. UNCHANGED <<kbd_tail, Held>>
    BY <1>1 DEF keyboard_handler_c, Held
  <2>2. CASE UNCHANGED <<kbd_buffer, kbd_head>>
    BY <2>1, <2>2 DEF Ring
  <2>3. CASE HasChar(key) /\ kbd_buffer_put(Translate(key))
    <3>1. PICK c \in Chars : c = Translate(key)
      BY <2>3 DEF HasChar, Translate, Chars
    <3>2. CASE (kbd_head + 1) % KBD_BUFFER_SIZE = kbd_tail
      BY <2>1, <2>3, <3>2 DEF kbd_buffer_put, Ring
    <3>3. CASE (kbd_head + 1) % KBD_BUFFER_SIZE # kbd_tail
      <4>1. /\ kbd_buffer' = [kbd_buffer EXCEPT ![kbd_head] = c]
            /\ kbd_head' = (kbd_head + 1) % KBD_BUFFER_SIZE
        BY <2>3, <3>1, <3>3 DEF kbd_buffer_put
      <4>2. Len(Ring) < KBD_BUFFER_SIZE - 1 /\ Ring' = Append(Ring, c)
        BY <2>1, <3>3, <4>1, PutAppends DEF Ring, TypeOK
      <4>3. Queue!Put(c)
        BY <2>1, <4>2 DEF Queue!Put, Ring, RingOf, CountOf, Count, Held
      <4> QED BY <4>3
    <3> QED BY <3>2, <3>3
  <2> QED
    BY <1>1, <2>2, <2>3 DEF keyboard_handler_c
<1>2. CASE timer_handler_c
  BY <1>2 DEF timer_handler_c, Ring, Held, ring
<1>3. CASE Check
  <2>1. pc[cpu] # "use" /\ pc'[cpu'] # "use"
    BY <1>3 DEF Check, At, Live, TypeOK, Alone
  <2> QED BY <1>3, <2>1 DEF Check, Ring, Held, ring
<1>4. CASE Halt
  BY <1>4 DEF Halt, At, TypeOK, Ring, Held, ring
<1>5. CASE GetRead
  BY <1>5 DEF GetRead, At, TypeOK, Ring, Held, ring
<1>6. CASE GetAdvance
  <2>1. kbd_head # kbd_tail /\ got = kbd_buffer[kbd_tail]
    BY <1>6 DEF GetAdvance, At, Present
  <2>2. /\ Ring # <<>> /\ Head(Ring) = got
        /\ Ring' = Tail(Ring)
    BY <1>6, <2>1, AdvanceTakes DEF GetAdvance, Ring, TypeOK
  <2>3. Held = NoChar /\ Held' = got
    BY <1>6 DEF GetAdvance, At, Held, TypeOK
  <2>4. Queue!Get
    BY <2>2, <2>3 DEF Queue!Get, Ring, RingOf, CountOf, Count, Held
  <2> QED BY <2>4
<1>7. CASE Use
  <2>1. Held # NoChar
    BY <1>7, NoCharAssumption DEF Use, At, Held, Present
  <2>2. Held' = NoChar
    BY <1>7 DEF Use, Held
  <2>3. UNCHANGED Ring
    BY <1>7 DEF Use, Ring, ring
  <2>4. Queue!Handle
    BY <2>1, <2>2, <2>3 DEF Queue!Handle, Ring, RingOf, CountOf, Count, Held
  <2> QED BY <2>4
<1>8. CASE UNCHANGED vars
  BY <1>8 DEF vars, ring, Ring, Held
<1>9. CASE WordSwitches
  <2>1. pc[cpu] # "use" /\ pc'[cpu'] # "use"
    BY <1>9 DEF WordSwitches, At, Live, TypeOK, Alone
  <2> QED BY <1>9, <2>1 DEF WordSwitches, Ring, Held, ring
<1>10. CASE CodeEnds
  <2>1. pc[cpu] # "use" /\ pc'[cpu'] # "use"
    BY <1>10 DEF CodeEnds, At, Live, TypeOK, Alone
  <2> QED BY <1>10, <2>1 DEF CodeEnds, Ring, Held, ring
<1> QED
  BY <1>1, <1>2, <1>3, <1>4, <1>5, <1>6, <1>7, <1>8, <1>9, <1>10 DEF Next, Run

\* The driver implements the bounded FIFO queue KeyQueue.
THEOREM RingIsQueue == Spec => DeliversInOrder
<1>1. Init => Queue!Init
  <2> SUFFICES ASSUME Init PROVE Queue!Init
    OBVIOUS
  <2>1. Count = 0
    BY SizeAssumption, ModWrap DEF Init, Count
  <2> QED BY <2>1 DEF Init, Queue!Init
<1>2. IInv /\ [Next]_vars =>
        [Queue!Get \/ Queue!Handle \/ \E c \in Chars : Queue!Put(c)]_<<Ring, Held>>
  BY NextRefines
<1> QED
  BY <1>1, <1>2, Invariance, PTL
  DEF Spec, DeliversInOrder, Queue!Spec, Ring, RingOf, CountOf, Count, Held

----------------------------------------------------------------------------
(* The two controllers.                                                    *)

\* Only a line that pic_init left unmasked, or the 8259's answer for none, is
\* served; what is in service is the line whose handler runs.
Serving ==
    \/ irq = NoIrq /\ in_service = {}
    \/ \E l \in Unmasked, s \in {"handler", "eoi"} : InHandler(l, s) /\ in_service = {l}
    \/ InHandler(7, "handler") /\ in_service = {}

Lines == /\ irr \subseteq {0, 1}
         /\ boot \in {"idt_init", "keyboard_init", "sti"} => irq = NoIrq

TInv == Serving /\ Lines /\ ByteIsNoticed

LEMMA TerminalInitInv == TerminalInit => TInv
  BY DEF TerminalInit, TInv, Serving, Lines, ByteIsNoticed

LEMMA BootInv == ASSUME TInv, Boot PROVE TInv'
<1>1. irq = NoIrq /\ in_service = {} /\ irr \subseteq {0, 1}
  BY DEF TInv, Boot, pic_init, keyboard_init, sti, Lines, Serving, InHandler, NoIrq
<1>2. irq' = NoIrq /\ in_service' = {} /\ irr' \subseteq {0, 1}
  BY <1>1 DEF Boot, pic_init, keyboard_init, sti, hardware
<1>3. ByteIsNoticed'
  <2>1. CASE pic_init
    BY <2>1 DEF pic_init, ByteIsNoticed
  <2>2. CASE keyboard_init
    BY <2>2 DEF keyboard_init, ByteIsNoticed
  <2>3. CASE sti
    BY <2>3 DEF sti, hardware, TInv, ByteIsNoticed, InHandler
  <2> QED BY <2>1, <2>2, <2>3 DEF Boot
<1> QED BY <1>2, <1>3 DEF TInv, Serving, Lines

LEMMA HardwareInv == ASSUME TInv, KeyHit \/ Deliver \/ Pulse PROVE TInv'
<1>1. /\ boot' = boot /\ irq' = irq /\ in_service' = in_service
      /\ irr \subseteq irr' /\ irr' \subseteq {0, 1}
      /\ obf' => obf \/ 1 \in irr'
  <2>1. CASE KeyHit
    BY <2>1 DEF KeyHit, TInv, Lines
  <2>2. CASE Deliver
    BY <2>2 DEF Deliver, TInv, Lines
  <2>3. CASE Pulse
    BY <2>3 DEF Pulse, TInv, Lines
  <2> QED BY <2>1, <2>2, <2>3
<1> QED BY <1>1 DEF TInv, Serving, Lines, ByteIsNoticed, InHandler

LEMMA AcceptInv == ASSUME TInv, NEW l \in {0, 1}, Accept(l) PROVE TInv'
<1>1. /\ boot = "run" /\ boot' = boot /\ irq = NoIrq /\ in_service = {} /\ obf' = obf
      /\ irr' = irr \ {l}
  BY DEF Accept, Interruptible, TInv, Serving, InHandler, NoIrq
<1>2. \/ irq' = [line |-> l, stage |-> "handler"] /\ in_service' = {l}
      \/ (l = 0 \/ ~obf) /\ irq' = [line |-> 7, stage |-> "handler"] /\ in_service' = {}
  BY <1>1 DEF Accept
<1>3. Serving' /\ Lines'
  BY <1>1, <1>2 DEF Serving, Lines, TInv, InHandler, Unmasked
<1>4. obf => 1 \in irr
  BY <1>1 DEF TInv, ByteIsNoticed, InHandler, NoIrq
<1>5. ByteIsNoticed'
  BY <1>1, <1>2, <1>4 DEF ByteIsNoticed, InHandler
<1> QED BY <1>3, <1>5 DEF TInv

LEMMA HandlerInv == ASSUME TInv, irq_handler_c PROVE TInv'
<1>1. CASE HandleTimer \/ HandleSpurious
  <2>1. /\ boot' = boot /\ obf' = obf /\ irr' = irr /\ in_service' = in_service
        /\ irq.line # 1
    BY <1>1 DEF HandleTimer, HandleSpurious, hardware, InHandler
  <2>2. Serving'
    <3>1. CASE HandleTimer
      BY <2>1, <3>1 DEF HandleTimer, TInv, Serving, InHandler, NoIrq, Unmasked
    <3>2. CASE HandleSpurious
      BY <2>1, <3>2 DEF HandleSpurious, TInv, Serving, InHandler, NoIrq, Unmasked
    <3> QED BY <1>1, <3>1, <3>2
  <2>3. Lines' /\ ByteIsNoticed'
    BY <1>1, <2>1 DEF HandleTimer, HandleSpurious, TInv, Lines, ByteIsNoticed, InHandler, NoIrq
  <2> QED BY <2>2, <2>3 DEF TInv
<1>2. CASE HandleKey
  BY <1>2 DEF HandleKey, TInv, Serving, Lines, ByteIsNoticed, InHandler, NoIrq, Unmasked
<1>3. CASE pic_send_eoi
  <2>1. /\ boot' = boot /\ obf' = obf /\ irr' = irr /\ irq' = NoIrq /\ irq.stage = "eoi"
        /\ in_service' = in_service \ {l \in in_service : \A s \in in_service : l <= s}
    BY <1>3 DEF pic_send_eoi
  <2>2. PICK l \in {0, 1} : irq.line = l /\ in_service = {l}
    BY <2>1 DEF TInv, Serving, InHandler, NoIrq, Unmasked
  <2>3. in_service' = {}
    BY <2>1, <2>2
  <2>4. ByteIsNoticed'
    BY <2>1 DEF TInv, ByteIsNoticed, InHandler
  <2> QED BY <2>1, <2>3, <2>4 DEF TInv, Serving, Lines
<1> QED BY <1>1, <1>2, <1>3 DEF irq_handler_c

LEMMA TerminalNextInv == TInv /\ [TerminalNext]_tvars => TInv'
<1> SUFFICES ASSUME TInv, [TerminalNext]_tvars PROVE TInv'
  OBVIOUS
<1>1. CASE TaskStep \/ UNCHANGED tvars
  <2>1. UNCHANGED <<boot, obf, irr, in_service, irq>>
    BY <1>1 DEF TaskStep, tvars, hardware
  <2> QED BY <2>1 DEF TInv, Serving, Lines, ByteIsNoticed, InHandler
<1> QED BY <1>1, BootInv, HardwareInv, AcceptInv, HandlerInv DEF TerminalNext

----------------------------------------------------------------------------
(* What the driver and its readers see.                                    *)

LEMMA DriverStep == [TerminalNext]_tvars => [Next]_vars
<1> SUFFICES ASSUME [TerminalNext]_tvars PROVE Next \/ UNCHANGED vars
  OBVIOUS
<1>1. CASE Boot \/ KeyHit \/ Deliver \/ Pulse \/ Accept(0) \/ Accept(1) \/ UNCHANGED tvars
  BY <1>1 DEF Boot, pic_init, keyboard_init, sti, KeyHit, Deliver, Pulse, Accept, tvars
<1>2. CASE irq_handler_c
  BY <1>2 DEF irq_handler_c, HandleTimer, HandleKey, HandleSpurious, pic_send_eoi, Wakes, Next
<1>3. CASE TaskStep
  BY <1>3 DEF TaskStep, Next
<1> QED BY <1>1, <1>2, <1>3 DEF TerminalNext

\* The step relation of Keyboard, without its fairness.
KeyboardSafety == Init /\ [][Next]_vars

\* Behind the interrupt and keyboard controllers the driver takes only the
\* steps that Keyboard allows (the safety part of ImplementsKeyboard).
THEOREM ImplementsDriver == TerminalSpec => KeyboardSafety
<1>1. TerminalInit => Init
  BY DEF TerminalInit
<1> QED BY <1>1, DriverStep, PTL DEF TerminalSpec, KeyboardSafety

\* The keyboard cannot go dead: a byte in the 8042 has its interrupt latched
\* or its handler running, whatever was typed while the kernel booted.
THEOREM NoticesBytes == TerminalSpec => []ByteIsNoticed
<1>1. TInv => ByteIsNoticed
  BY DEF TInv
<1> QED BY <1>1, TerminalInitInv, TerminalNextInv, PTL DEF TerminalSpec

\* An interrupt handler is never interrupted, and every interrupt but the
\* spurious one gets its EOI: what is in service is the line being handled.
THEOREM OneInService == TerminalSpec => []Serving
<1>1. TInv => Serving
  BY DEF TInv
<1> QED BY <1>1, TerminalInitInv, TerminalNextInv, PTL DEF TerminalSpec

\* So keyboard_getchar never waits, with the controllers in between ...
THEOREM TerminalNoWait == TerminalSpec => []GetNeverWaits
<1>1. IInv => GetNeverWaits
  BY DEF IInv, Present, GetNeverWaits, At
<1> QED BY <1>1, InitInv, NextInv, ImplementsDriver, PTL DEF KeyboardSafety

\* ... and the ring is still a FIFO queue.
THEOREM TerminalInOrder == TerminalSpec => DeliversInOrder
<1>1. Init => Queue!Init
  <2> SUFFICES ASSUME Init PROVE Queue!Init
    OBVIOUS
  <2>1. Count = 0
    BY SizeAssumption, ModWrap DEF Init, Count
  <2> QED BY <2>1 DEF Init, Queue!Init
<1> QED
  BY <1>1, InitInv, NextInv, NextRefines, ImplementsDriver, PTL
  DEF KeyboardSafety, DeliversInOrder, Queue!Spec, Ring, RingOf, CountOf, Count, Held

----------------------------------------------------------------------------
(* The screen.  A row may be one too far until vga_scroll has run.         *)

Glyphs == {" ", "x", ">", "*"}
Screens(rows) == [buffer : [Cells -> Glyphs], row : 0 .. rows, col : 0 .. VGA_WIDTH - 1]
Consoles == Screens(VGA_HEIGHT - 1)

LEMMA Rows ==
  ASSUME NEW r \in 0 .. VGA_HEIGHT
  PROVE  /\ r * VGA_WIDTH \in Nat
         /\ (r + 1) * VGA_WIDTH = r * VGA_WIDTH + VGA_WIDTH
         /\ (r - 1) * VGA_WIDTH = r * VGA_WIDTH - VGA_WIDTH
         /\ VGA_WIDTH * VGA_HEIGHT = VGA_HEIGHT * VGA_WIDTH
         /\ r # VGA_HEIGHT => r * VGA_WIDTH + VGA_WIDTH <= VGA_WIDTH * VGA_HEIGHT
<1>1. /\ VGA_WIDTH \in Nat /\ VGA_HEIGHT \in Nat /\ r \in Nat
      /\ VGA_HEIGHT - r \in Nat
  BY ScreenAssumption
<1>2. \A a, b \in Int : a * b \in Int /\ a * b = b * a
  OBVIOUS
<1>3. \A a, b \in Nat : a * b \in Nat
  OBVIOUS
<1>4. \A a, b, d \in Int : (a + b) * d = a * d + b * d
  OBVIOUS
<1>5. \A a, d \in Int : (a + 1) * d = a * d + d /\ (a - 1) * d = a * d - d
  OBVIOUS
<1>6. ASSUME r # VGA_HEIGHT PROVE r * VGA_WIDTH + VGA_WIDTH <= VGA_WIDTH * VGA_HEIGHT
  <2>1. PICK d \in Nat : VGA_HEIGHT = (r + 1) + d
    <3>1. VGA_HEIGHT - r - 1 \in Nat /\ VGA_HEIGHT = (r + 1) + (VGA_HEIGHT - r - 1)
      BY <1>1, <1>6
    <3> QED BY <3>1
  <2>2. VGA_HEIGHT * VGA_WIDTH = (r + 1) * VGA_WIDTH + d * VGA_WIDTH
    BY <1>1, <1>4, <2>1
  <2>3. /\ (r + 1) * VGA_WIDTH = r * VGA_WIDTH + VGA_WIDTH
        /\ d * VGA_WIDTH \in Nat /\ r * VGA_WIDTH \in Nat
        /\ VGA_WIDTH * VGA_HEIGHT = VGA_HEIGHT * VGA_WIDTH
    BY <1>1, <1>2, <1>3, <1>5
  <2> QED BY <1>1, <2>2, <2>3
<1> QED BY <1>1, <1>2, <1>3, <1>5, <1>6

LEMMA CursorIs ==
  ASSUME NEW c \in Consoles
  PROVE  /\ Cursor(c) \in Cells
         /\ Cursor(c) = c.row * VGA_WIDTH + c.col
         /\ c.col \in Nat /\ c.row \in Nat /\ c.row < VGA_HEIGHT /\ c.col < VGA_WIDTH
         /\ c.buffer \in [Cells -> Glyphs]
<1>1. /\ c.row \in Nat /\ c.row < VGA_HEIGHT /\ c.col \in Nat /\ c.col < VGA_WIDTH
      /\ c.buffer \in [Cells -> Glyphs]
  BY ScreenAssumption DEF Consoles, Screens
<1>2. /\ c.row * VGA_WIDTH \in Nat
      /\ c.row * VGA_WIDTH + VGA_WIDTH <= VGA_WIDTH * VGA_HEIGHT
  <2>1. c.row \in 0 .. VGA_HEIGHT /\ c.row # VGA_HEIGHT
    BY <1>1, ScreenAssumption
  <2> QED BY <2>1, Rows
<1>3. VGA_WIDTH * VGA_HEIGHT \in Nat
  BY ScreenAssumption
<1>4. PICK p, q \in Nat : p = c.row * VGA_WIDTH /\ q = VGA_WIDTH * VGA_HEIGHT
  BY <1>2, <1>3
<1>5. p + c.col \in 0 .. q - 1
  BY <1>1, <1>2, <1>4, ScreenAssumption
<1> QED BY <1>1, <1>4, <1>5 DEF Cursor, Cells

\* s cells up.
Moved(c, d, s) == /\ Cursor(d) = Cursor(c) - s
                  /\ \A i \in Cells : d.buffer[i] = IF i + s \in Cells THEN c.buffer[i + s] ELSE " "

LEMMA Scrolls ==
  ASSUME NEW c \in Screens(VGA_HEIGHT)
  PROVE  /\ vga_scroll(c) \in Consoles
         /\ \E s \in {0, VGA_WIDTH} : Moved(c, vga_scroll(c), s)
         /\ vga_scroll(c).col = c.col
         /\ c.row = VGA_HEIGHT => Moved(c, vga_scroll(c), VGA_WIDTH)
         /\ c.row # VGA_HEIGHT => vga_scroll(c) = c
<1>0. /\ c.row \in Nat /\ c.row <= VGA_HEIGHT /\ c.col \in Nat /\ c.col < VGA_WIDTH
      /\ c.buffer \in [Cells -> Glyphs] /\ VGA_HEIGHT \in Nat /\ VGA_WIDTH \in Nat
  BY ScreenAssumption DEF Screens
<1>1. CASE c.row < VGA_HEIGHT
  <2>1. vga_scroll(c) = c
    BY <1>1 DEF vga_scroll
  <2>2. c \in Consoles
    BY <1>0, <1>1, ScreenAssumption DEF Consoles, Screens
  <2>3. Cursor(c) = Cursor(c) - 0
    BY <2>2, CursorIs DEF Cells
  <2>4. \A i \in Cells : i + 0 = i
    BY DEF Cells
  <2>5. Moved(c, c, 0)
    BY <2>3, <2>4 DEF Moved
  <2> QED BY <1>0, <1>1, <2>1, <2>2, <2>5
<1>2. CASE c.row = VGA_HEIGHT
  <2> DEFINE b == [i \in Cells |-> IF i + VGA_WIDTH \in Cells THEN c.buffer[i + VGA_WIDTH] ELSE " "]
             d == [buffer |-> b, row |-> VGA_HEIGHT - 1, col |-> c.col]
  <2>1. vga_scroll(c) = d
    <3>1. vga_scroll(c) = [c EXCEPT !.buffer = b, !.row = VGA_HEIGHT - 1]
      BY <1>0, <1>2 DEF vga_scroll
    <3> HIDE DEF b
    <3> QED BY <3>1 DEF Screens
  <2>2. \A i \in Cells : b[i] \in Glyphs
    BY <1>0 DEF Glyphs
  <2>3. b \in [Cells -> Glyphs]
    BY <2>2
  <2> HIDE DEF b
  <2>4. d \in Consoles
    BY <1>0, <2>3, ScreenAssumption DEF Consoles, Screens
  <2>5. Cursor(d) = Cursor(c) - VGA_WIDTH
    <3>1. /\ (VGA_HEIGHT - 1) * VGA_WIDTH = VGA_HEIGHT * VGA_WIDTH - VGA_WIDTH
          /\ VGA_HEIGHT * VGA_WIDTH \in Nat
      BY <1>0, Rows
    <3>2. Cursor(d) = (VGA_HEIGHT - 1) * VGA_WIDTH + c.col
      BY DEF Cursor
    <3>3. Cursor(c) = VGA_HEIGHT * VGA_WIDTH + c.col
      BY <1>2 DEF Cursor
    <3> QED BY <1>0, <3>1, <3>2, <3>3
  <2>6. Moved(c, d, VGA_WIDTH)
    BY <2>5 DEF Moved, b
  <2>7. d.col = c.col
    OBVIOUS
  <2> HIDE DEF d
  <2> QED BY <1>2, <2>1, <2>4, <2>6, <2>7
<1> QED BY <1>0, <1>1, <1>2

\* The n cells before the cursor show s, the spinner's cell aside, and
\* nothing stands after it.
Showing(c, s, n) ==
    \A i \in Cells \ {VGA_WIDTH - 1} :
        /\ i \in Cursor(c) - n .. Cursor(c) - 1 => c.buffer[i] = s[i - (Cursor(c) - n) + 1]
        /\ i >= Cursor(c) => c.buffer[i] = " "

Agree(s, t, n) == \A j \in 1 .. n : s[j] = t[j]

LEMMA MovedShows ==
  ASSUME NEW c, NEW d \in Consoles, NEW s \in {0, VGA_WIDTH}, NEW t, NEW n \in Nat,
         Moved(c, d, s), Showing(c, t, n), Cursor(c) \in 0 .. VGA_WIDTH * VGA_HEIGHT
  PROVE  Showing(d, t, n)
<1>0. VGA_WIDTH \in Nat /\ s \in Nat /\ (s = 0 \/ s = VGA_WIDTH)
  BY ScreenAssumption
<1>1. PICK q \in Nat : q = VGA_WIDTH * VGA_HEIGHT
  BY ScreenAssumption
<1>2. PICK k : k = Cursor(c) /\ k \in 0 .. q /\ Cursor(d) = k - s
  BY <1>1 DEF Moved
<1>3. Cells = 0 .. q - 1
  BY <1>1 DEF Cells
<1>4. SUFFICES ASSUME NEW i \in Cells, i # VGA_WIDTH - 1
               PROVE  /\ i \in (k - s) - n .. (k - s) - 1 => d.buffer[i] = t[i - ((k - s) - n) + 1]
                      /\ i >= k - s => d.buffer[i] = " "
  BY <1>2, <1>4 DEF Showing
<1>5. i \in Nat /\ i + s \in Nat
  BY <1>0, <1>3
<1>6. CASE i + s \in Cells
  <2>1. d.buffer[i] = c.buffer[i + s]
    BY <1>6 DEF Moved
  <2>2. i + s # VGA_WIDTH - 1
    BY <1>0, <1>4, <1>5
  <2>3. /\ i + s \in k - n .. k - 1 => c.buffer[i + s] = t[(i + s) - (k - n) + 1]
        /\ i + s >= k => c.buffer[i + s] = " "
    BY <1>2, <1>6, <2>2 DEF Showing
  <2>4. (i + s) - (k - n) + 1 = i - ((k - s) - n) + 1
    BY <1>0, <1>2, <1>5
  <2>5. /\ i \in (k - s) - n .. (k - s) - 1 => i + s \in k - n .. k - 1
        /\ i >= k - s => i + s >= k
    BY <1>0, <1>2, <1>5
  <2> QED BY <2>1, <2>3, <2>4, <2>5
<1>7. CASE i + s \notin Cells
  <2>1. d.buffer[i] = " "
    BY <1>7 DEF Moved
  <2>2. i + s >= q
    BY <1>3, <1>5, <1>7
  <2>3. i \notin (k - s) - n .. (k - s) - 1
    BY <1>0, <1>2, <1>5, <2>2
  <2> QED BY <2>1, <2>3
<1> QED BY <1>6, <1>7

\* Writing a character at the cursor, before the screen scrolls.
Written(c, ch) == Column([c EXCEPT !.buffer[Cursor(c)] = ch], c.col + 1)

LEMMA WrittenIs ==
  ASSUME NEW c \in Consoles, NEW ch \in Glyphs
  PROVE  /\ Written(c, ch) \in Screens(VGA_HEIGHT)
         /\ Cursor(Written(c, ch)) = Cursor(c) + 1
         /\ Written(c, ch).buffer = [c.buffer EXCEPT ![Cursor(c)] = ch]
         /\ c.col + 1 < VGA_WIDTH => Written(c, ch).col = c.col + 1 /\ Written(c, ch).row = c.row
<1>1. PICK k : k = Cursor(c)
  OBVIOUS
<1>2. /\ k \in Cells /\ k = c.row * VGA_WIDTH + c.col
      /\ c.col \in Nat /\ c.row \in Nat /\ c.row < VGA_HEIGHT /\ c.col < VGA_WIDTH
      /\ c.buffer \in [Cells -> Glyphs]
  BY <1>1, CursorIs
<1>3. PICK b : b = [c.buffer EXCEPT ![k] = ch]
  OBVIOUS
<1>4. b \in [Cells -> Glyphs]
  BY <1>2, <1>3
<1>5. c = [buffer |-> c.buffer, row |-> c.row, col |-> c.col]
  BY DEF Consoles, Screens
<1>6. [c EXCEPT !.buffer[Cursor(c)] = ch] = [buffer |-> b, row |-> c.row, col |-> c.col]
  BY <1>1, <1>3, <1>5
<1>7. CASE c.col + 1 < VGA_WIDTH
  <2>1. Written(c, ch) = [buffer |-> b, row |-> c.row, col |-> c.col + 1]
    BY <1>6, <1>7 DEF Written, Column
  <2>2. Written(c, ch) \in Screens(VGA_HEIGHT)
    BY <1>2, <1>4, <1>7, <2>1, ScreenAssumption DEF Screens
  <2>3. Cursor(Written(c, ch)) = c.row * VGA_WIDTH + (c.col + 1)
    BY <2>1 DEF Cursor
  <2>4. c.row * VGA_WIDTH \in Nat
    BY <1>2, ScreenAssumption
  <2>5. Cursor(Written(c, ch)) = k + 1
    BY <1>2, <2>3, <2>4
  <2> QED BY <1>1, <1>3, <2>1, <2>2, <2>5
<1>8. CASE ~(c.col + 1 < VGA_WIDTH)
  <2>1. Written(c, ch) = [buffer |-> b, row |-> c.row + 1, col |-> 0]
    BY <1>6, <1>8 DEF Written, Column
  <2>2. Written(c, ch) \in Screens(VGA_HEIGHT)
    BY <1>2, <1>4, <2>1, ScreenAssumption DEF Screens
  <2>3. Cursor(Written(c, ch)) = (c.row + 1) * VGA_WIDTH + 0
    BY <2>1 DEF Cursor
  <2>4. c.row \in 0 .. VGA_HEIGHT
    BY <1>2, ScreenAssumption
  <2>5. c.row * VGA_WIDTH \in Nat /\ (c.row + 1) * VGA_WIDTH = c.row * VGA_WIDTH + VGA_WIDTH
    BY <2>4, Rows
  <2>6. c.col + 1 = VGA_WIDTH
    BY <1>2, <1>8, ScreenAssumption
  <2>7. Cursor(Written(c, ch)) = k + 1
    BY <1>2, <2>3, <2>5, <2>6
  <2> QED BY <1>1, <1>3, <1>8, <2>1, <2>2, <2>7
<1> QED BY <1>7, <1>8

LEMMA PutIs ==
  ASSUME NEW c, NEW ch \in Glyphs
  PROVE  vga_putchar(c, ch) = vga_scroll(Written(c, ch))
  BY DEF vga_putchar, Glyphs, Written

\* A character typed is shown after those before it.
LEMMA PutShows ==
  ASSUME NEW c \in Consoles, NEW ch \in Glyphs, NEW s, NEW t, NEW n \in Nat,
         Showing(c, s, n), Agree(s, t, n), t[n + 1] = ch
  PROVE  /\ vga_putchar(c, ch) \in Consoles
         /\ Showing(vga_putchar(c, ch), t, n + 1)
         /\ c.col + 1 < VGA_WIDTH => vga_putchar(c, ch).col = c.col + 1
<1>1. PICK k : k = Cursor(c)
  OBVIOUS
<1>2. PICK d : d = Written(c, ch)
  OBVIOUS
<1>3. PICK q \in Nat : q = VGA_WIDTH * VGA_HEIGHT
  BY ScreenAssumption
<1>4. k \in 0 .. q - 1 /\ Cells = 0 .. q - 1 /\ c.buffer \in [Cells -> Glyphs]
  BY <1>1, <1>3, CursorIs DEF Cells
<1>5. d \in Screens(VGA_HEIGHT) /\ Cursor(d) = k + 1 /\ d.buffer = [c.buffer EXCEPT ![k] = ch]
  BY <1>1, <1>2, WrittenIs
<1>6. Showing(d, t, n + 1)
  <2> SUFFICES ASSUME NEW i \in Cells, i # VGA_WIDTH - 1
               PROVE  /\ i \in (k + 1) - (n + 1) .. (k + 1) - 1 => d.buffer[i] = t[i - ((k + 1) - (n + 1)) + 1]
                      /\ i >= k + 1 => d.buffer[i] = " "
    BY <1>5 DEF Showing
  <2>1. i \in Nat
    BY <1>4
  <2>2. CASE i = k
    <3>1. d.buffer[i] = ch
      BY <1>4, <1>5, <2>2
    <3>2. i - ((k + 1) - (n + 1)) + 1 = n + 1
      BY <1>4, <2>2
    <3>3. ~(i >= k + 1)
      BY <1>4, <2>2
    <3> QED BY <3>1, <3>2, <3>3
  <2>3. CASE i # k
    <3>1. d.buffer[i] = c.buffer[i]
      BY <1>4, <1>5, <2>3
    <3>2. /\ i \in k - n .. k - 1 => c.buffer[i] = s[i - (k - n) + 1]
          /\ i >= k => c.buffer[i] = " "
      BY <1>1 DEF Showing
    <3>3. i \in k - n .. k - 1 => i - (k - n) + 1 \in 1 .. n
      BY <1>4, <2>1
    <3>4. i - ((k + 1) - (n + 1)) + 1 = i - (k - n) + 1
      BY <1>4, <2>1
    <3>5. i \in k - n .. k - 1 => s[i - (k - n) + 1] = t[i - (k - n) + 1]
      BY <3>3 DEF Agree
    <3>6. /\ i \in (k + 1) - (n + 1) .. (k + 1) - 1 => i \in k - n .. k - 1
          /\ i >= k + 1 => i >= k
      BY <1>4, <2>1, <2>3
    <3> QED BY <3>1, <3>2, <3>4, <3>5, <3>6
  <2> QED BY <2>2, <2>3
<1>7. PICK e : e = vga_scroll(d)
  OBVIOUS
<1>8. PICK m \in Nat : m = n + 1
  OBVIOUS
<1>9. e \in Consoles /\ e.col = d.col /\ \E s0 \in {0, VGA_WIDTH} : Moved(d, e, s0)
  BY <1>5, <1>7, Scrolls
<1>10. Cursor(d) \in 0 .. VGA_WIDTH * VGA_HEIGHT
  BY <1>3, <1>4, <1>5
<1>11. Showing(e, t, m)
  BY <1>6, <1>8, <1>9, <1>10, MovedShows
<1>12. c.col + 1 < VGA_WIDTH => d.col = c.col + 1
  BY <1>2, WrittenIs
<1> QED BY <1>2, <1>7, <1>8, <1>9, <1>11, <1>12, PutIs

\* A backspace takes the last character back, if it stands on this row.
LEMMA BackShows ==
  ASSUME NEW c \in Consoles, NEW s, NEW t, NEW n \in Nat,
         Showing(c, t, n + 1), Agree(s, t, n), c.col # 0
  PROVE  /\ vga_putchar(c, "BS") \in Consoles
         /\ Showing(vga_putchar(c, "BS"), s, n)
         /\ vga_putchar(c, "BS").col = c.col - 1
<1>1. PICK k : k = Cursor(c)
  OBVIOUS
<1>2. /\ k \in Cells /\ k = c.row * VGA_WIDTH + c.col
      /\ c.col \in Nat /\ c.row \in Nat /\ c.row < VGA_HEIGHT /\ c.col < VGA_WIDTH
      /\ c.buffer \in [Cells -> Glyphs]
  BY <1>1, CursorIs
<1>3. PICK p \in Nat : p = c.row * VGA_WIDTH
  BY <1>2, ScreenAssumption
<1>4. PICK q \in Nat : Cells = 0 .. q - 1
  <2>1. VGA_WIDTH * VGA_HEIGHT \in Nat
    BY ScreenAssumption
  <2> QED BY <2>1 DEF Cells
<1>5. k - 1 \in Cells /\ k \in Nat /\ k - 1 = p + (c.col - 1)
  <2>1. k \in 0 .. q - 1
    BY <1>2, <1>4
  <2>2. k = p + c.col /\ c.col \in Nat /\ c.col # 0
    BY <1>2, <1>3
  <2>3. k - 1 \in 0 .. q - 1 /\ k \in Nat /\ k - 1 = p + (c.col - 1)
    BY <2>1, <2>2
  <2> QED BY <1>4, <2>3
<1>6. PICK b : b = [c.buffer EXCEPT ![k - 1] = " "]
  OBVIOUS
<1>7. b \in [Cells -> Glyphs]
  BY <1>2, <1>5, <1>6 DEF Glyphs
<1>8. c = [buffer |-> c.buffer, row |-> c.row, col |-> c.col]
  BY DEF Consoles, Screens
<1>9. PICK d : d = [buffer |-> b, row |-> c.row, col |-> c.col - 1]
  OBVIOUS
<1>10. [c EXCEPT !.col = @ - 1, !.buffer[Cursor(c) - 1] = " "] = d
  <2>1. [c EXCEPT !.col = @ - 1, !.buffer[Cursor(c) - 1] = " "]
          = [c EXCEPT !.col = c.col - 1, !.buffer = b]
    BY <1>1, <1>6, <1>8
  <2>2. PICK b0, r, k0, k2 : b0 = c.buffer /\ r = c.row /\ k0 = c.col /\ k2 = c.col - 1
    OBVIOUS
  <2>3. c = [buffer |-> b0, row |-> r, col |-> k0]
    BY <1>8, <2>2
  <2>4. [c EXCEPT !.col = k2, !.buffer = b] = [buffer |-> b, row |-> r, col |-> k2]
    <3>1. PICK e : e = [buffer |-> b0, row |-> r, col |-> k2]
      OBVIOUS
    <3>2. [c EXCEPT !.col = k2] = e
      BY <2>3, <3>1
    <3>3. [e EXCEPT !.buffer = b] = [buffer |-> b, row |-> r, col |-> k2]
      BY <3>1
    <3>4. [c EXCEPT !.col = k2, !.buffer = b] = [[c EXCEPT !.col = k2] EXCEPT !.buffer = b]
      OBVIOUS
    <3> QED BY <3>2, <3>3, <3>4
  <2> QED BY <1>9, <2>1, <2>2, <2>4
<1>11. c.col - 1 \in 0 .. VGA_WIDTH - 1 /\ c.row \in 0 .. VGA_HEIGHT - 1
  BY <1>2, ScreenAssumption
<1>12. d \in Consoles
  BY <1>7, <1>9, <1>11 DEF Consoles, Screens
<1>13. vga_putchar(c, "BS") = d
  <2>1. vga_putchar(c, "BS") = vga_scroll(d)
    BY <1>10 DEF vga_putchar
  <2>2. d.row < VGA_HEIGHT
    BY <1>2, <1>9
  <2> QED BY <2>1, <2>2 DEF vga_scroll
<1>14. Cursor(d) = k - 1
  BY <1>3, <1>5, <1>9 DEF Cursor
<1>15. Showing(d, s, n)
  <2> SUFFICES ASSUME NEW i \in Cells, i # VGA_WIDTH - 1
               PROVE  /\ i \in (k - 1) - n .. (k - 1) - 1 => d.buffer[i] = s[i - ((k - 1) - n) + 1]
                      /\ i >= k - 1 => d.buffer[i] = " "
    BY <1>14 DEF Showing
  <2>1. i \in Nat
    BY <1>4
  <2>2. CASE i = k - 1
    <3>1. d.buffer[i] = " "
      BY <1>2, <1>5, <1>6, <1>9, <2>2
    <3>2. i \notin (k - 1) - n .. (k - 1) - 1
      BY <1>5, <2>2
    <3> QED BY <3>1, <3>2
  <2>3. CASE i # k - 1
    <3>1. d.buffer[i] = c.buffer[i]
      BY <1>2, <1>5, <1>6, <1>9, <2>3
    <3>2. /\ i \in k - (n + 1) .. k - 1 => c.buffer[i] = t[i - (k - (n + 1)) + 1]
          /\ i >= k => c.buffer[i] = " "
      BY <1>1 DEF Showing
    <3>3. PICK j : j = i - ((k - 1) - n) + 1
      OBVIOUS
    <3>4. j = i - (k - (n + 1)) + 1
      BY <1>5, <2>1, <3>3
    <3>5. i \in (k - 1) - n .. (k - 1) - 1 => j \in 1 .. n /\ i \in k - (n + 1) .. k - 1
      BY <1>5, <2>1, <3>3
    <3>6. i >= k - 1 => i >= k
      BY <1>5, <2>1, <2>3
    <3> QED BY <3>1, <3>2, <3>3, <3>4, <3>5, <3>6 DEF Agree
  <2> QED BY <2>2, <2>3
<1>16. d.col = c.col - 1
  BY <1>9
<1> QED BY <1>12, <1>13, <1>15, <1>16

\* A new line is empty, if nothing stood after the cursor.
LEMMA NewlineShows ==
  ASSUME NEW c \in Consoles, NEW s, Showing(c, s, 0)
  PROVE  /\ vga_putchar(c, "NL") \in Consoles
         /\ Showing(vga_putchar(c, "NL"), s, 0)
<1>1. PICK k : k = Cursor(c)
  OBVIOUS
<1>2. /\ k \in Cells /\ k = c.row * VGA_WIDTH + c.col
      /\ c.col \in Nat /\ c.row \in Nat /\ c.row < VGA_HEIGHT /\ c.col < VGA_WIDTH
      /\ c.buffer \in [Cells -> Glyphs]
  BY <1>1, CursorIs
<1>3. c.row \in 0 .. VGA_HEIGHT /\ c.row # VGA_HEIGHT /\ c.row + 1 \in 0 .. VGA_HEIGHT
  BY <1>2, ScreenAssumption
<1>4. PICK p \in Nat : p = c.row * VGA_WIDTH
  BY <1>2, ScreenAssumption
<1>5. PICK q \in Nat : q = VGA_WIDTH * VGA_HEIGHT
  BY ScreenAssumption
<1>6. (c.row + 1) * VGA_WIDTH = p + VGA_WIDTH /\ p + VGA_WIDTH <= q
  BY <1>3, <1>4, <1>5, Rows
<1>7. PICK d : d = [buffer |-> c.buffer, row |-> c.row + 1, col |-> 0]
  OBVIOUS
<1>8. c = [buffer |-> c.buffer, row |-> c.row, col |-> c.col]
  BY DEF Consoles, Screens
<1>9. [c EXCEPT !.col = 0, !.row = @ + 1] = d
  <2>1. [c EXCEPT !.col = 0, !.row = @ + 1] = [c EXCEPT !.col = 0, !.row = c.row + 1]
    BY <1>8
  <2>2. PICK b, r, k0, r2, k2 : b = c.buffer /\ r = c.row /\ k0 = c.col /\ r2 = c.row + 1 /\ k2 = 0
    OBVIOUS
  <2>3. c = [buffer |-> b, row |-> r, col |-> k0]
    BY <1>8, <2>2
  <2>4. [c EXCEPT !.col = k2, !.row = r2] = [buffer |-> b, row |-> r2, col |-> k2]
    <3>1. PICK e : e = [buffer |-> b, row |-> r, col |-> k2]
      OBVIOUS
    <3>2. [c EXCEPT !.col = k2] = e
      BY <2>3, <3>1
    <3>3. [e EXCEPT !.row = r2] = [buffer |-> b, row |-> r2, col |-> k2]
      BY <3>1
    <3>4. [c EXCEPT !.col = k2, !.row = r2] = [[c EXCEPT !.col = k2] EXCEPT !.row = r2]
      OBVIOUS
    <3> QED BY <3>2, <3>3, <3>4
  <2> QED BY <1>7, <2>1, <2>2, <2>4
<1>10. d \in Screens(VGA_HEIGHT)
  BY <1>2, <1>3, <1>7, ScreenAssumption DEF Screens
<1>11. Cursor(d) = p + VGA_WIDTH
  BY <1>4, <1>6, <1>7, ScreenAssumption DEF Cursor
<1>12. Cursor(d) \in 0 .. VGA_WIDTH * VGA_HEIGHT
  BY <1>5, <1>6, <1>11, ScreenAssumption
<1>13. Showing(d, s, 0)
  <2> SUFFICES ASSUME NEW i \in Cells, i # VGA_WIDTH - 1
               PROVE  /\ i \notin Cursor(d) - 0 .. Cursor(d) - 1
                      /\ i >= Cursor(d) => d.buffer[i] = " "
    BY DEF Showing
  <2>1. i \in Nat
    BY <1>5 DEF Cells
  <2>2. i >= k => c.buffer[i] = " "
    BY <1>1 DEF Showing
  <2>3. i >= Cursor(d) => i >= k
    BY <1>2, <1>4, <1>11, <2>1, ScreenAssumption
  <2>4. i \notin Cursor(d) - 0 .. Cursor(d) - 1
    BY <1>11, <2>1, ScreenAssumption
  <2> QED BY <1>7, <2>2, <2>3, <2>4
<1>14. PICK e : e = vga_scroll(d)
  OBVIOUS
<1>15. e \in Consoles /\ \E m \in {0, VGA_WIDTH} : Moved(d, e, m)
  BY <1>10, <1>14, Scrolls
<1>16. Showing(e, s, 0)
  BY <1>12, <1>13, <1>15, MovedShows
<1>17. vga_putchar(c, "NL") = e
  BY <1>9, <1>14 DEF vga_putchar
<1> QED BY <1>15, <1>16, <1>17

----------------------------------------------------------------------------
(* Strings of two and of three characters.                                 *)

PutTurn(c, str, f, n) == IF n = 0 THEN c ELSE vga_putchar(f[n - 1], str[n])
IsPut(c, str, f, k) == f = [n \in 0 .. k |-> PutTurn(c, str, f, n)]
Puts(c, str, g, k) == /\ g[0] = c /\ vga_puts(c, str) = g[k]
                      /\ \A n \in 1 .. k : g[n] = vga_putchar(g[n - 1], str[n])

LEMMA PutsAre ==
  ASSUME NEW c, NEW str, NEW f, NEW k \in Nat, Len(str) = k, IsPut(c, str, f, k)
  PROVE  \E g : Puts(c, str, g, k)
<1> DEFINE g == CHOOSE x : IsPut(c, str, x, k)
<1>1. IsPut(c, str, g, k)
  OBVIOUS
<1>2. vga_puts(c, str) = g[k]
  BY DEF vga_puts, IsPut, PutTurn
<1> HIDE DEF g
<1>3. \A n \in 0 .. k : g[n] = PutTurn(c, str, g, n)
  BY <1>1 DEF IsPut
<1>4. 0 \in 0 .. k /\ \A n \in 1 .. k : n \in 0 .. k /\ n # 0
  OBVIOUS
<1>5. g[0] = c /\ \A n \in 1 .. k : g[n] = vga_putchar(g[n - 1], str[n])
  BY <1>3, <1>4 DEF PutTurn
<1> QED BY <1>2, <1>5 DEF Puts

LEMMA PutsTwo ==
  ASSUME NEW c, NEW a, NEW b
  PROVE  vga_puts(c, <<a, b>>) = vga_putchar(vga_putchar(c, a), b)
<1>1. PICK str : str = <<a, b>>
  OBVIOUS
<1>2. Len(str) = 2 /\ str[1] = a /\ str[2] = b
  BY <1>1
<1>3. PICK c1 : c1 = vga_putchar(c, a)
  OBVIOUS
<1>4. PICK c2 : c2 = vga_putchar(c1, b)
  OBVIOUS
<1>5. PICK f : f = [n \in 0 .. 2 |-> IF n = 0 THEN c ELSE IF n = 1 THEN c1 ELSE c2]
  OBVIOUS
<1>6. f[0] = c /\ f[1] = c1 /\ f[2] = c2
  BY <1>5
<1>7. \A n \in 0 .. 2 : n = 0 \/ n = 1 \/ n = 2
  OBVIOUS
<1>8. \A n \in 0 .. 2 : f[n] = PutTurn(c, str, f, n)
  <2>1. PutTurn(c, str, f, 0) = c /\ PutTurn(c, str, f, 1) = c1 /\ PutTurn(c, str, f, 2) = c2
    BY <1>2, <1>3, <1>4, <1>6 DEF PutTurn
  <2> QED BY <1>6, <1>7, <2>1
<1>9. f = [n \in 0 .. 2 |-> f[n]]
  BY <1>5
<1>10. IsPut(c, str, f, 2)
  BY <1>8, <1>9 DEF IsPut
<1>11. PICK g : Puts(c, str, g, 2)
  <2>1. PICK k \in Nat : k = 2
    OBVIOUS
  <2>2. Len(str) = k /\ IsPut(c, str, f, k)
    BY <1>2, <1>10, <2>1
  <2> QED BY <2>1, <2>2, PutsAre
<1>12. g[1] = vga_putchar(g[0], str[1]) /\ g[2] = vga_putchar(g[1], str[2])
  BY <1>11, 1 \in 1 .. 2, 2 \in 1 .. 2, 1 - 1 = 0, 2 - 1 = 1 DEF Puts
<1> QED BY <1>1, <1>2, <1>11, <1>12 DEF Puts

LEMMA PutsThree ==
  ASSUME NEW c, NEW a, NEW b, NEW d
  PROVE  vga_puts(c, <<a, b, d>>) = vga_putchar(vga_putchar(vga_putchar(c, a), b), d)
<1>1. PICK str : str = <<a, b, d>>
  OBVIOUS
<1>2. Len(str) = 3 /\ str[1] = a /\ str[2] = b /\ str[3] = d
  BY <1>1
<1>3. PICK c1 : c1 = vga_putchar(c, a)
  OBVIOUS
<1>4. PICK c2 : c2 = vga_putchar(c1, b)
  OBVIOUS
<1>5. PICK c3 : c3 = vga_putchar(c2, d)
  OBVIOUS
<1>6. PICK f : f = [n \in 0 .. 3 |-> IF n = 0 THEN c ELSE IF n = 1 THEN c1 ELSE IF n = 2 THEN c2 ELSE c3]
  OBVIOUS
<1>7. f[0] = c /\ f[1] = c1 /\ f[2] = c2 /\ f[3] = c3
  BY <1>6
<1>8. \A n \in 0 .. 3 : n = 0 \/ n = 1 \/ n = 2 \/ n = 3
  OBVIOUS
<1>9. \A n \in 0 .. 3 : f[n] = PutTurn(c, str, f, n)
  <2>1. /\ PutTurn(c, str, f, 0) = c /\ PutTurn(c, str, f, 1) = c1
        /\ PutTurn(c, str, f, 2) = c2 /\ PutTurn(c, str, f, 3) = c3
    BY <1>2, <1>3, <1>4, <1>5, <1>7 DEF PutTurn
  <2> QED BY <1>7, <1>8, <2>1
<1>10. f = [n \in 0 .. 3 |-> f[n]]
  BY <1>6
<1>11. IsPut(c, str, f, 3)
  BY <1>9, <1>10 DEF IsPut
<1>12. PICK g : Puts(c, str, g, 3)
  <2>1. PICK k \in Nat : k = 3
    OBVIOUS
  <2>2. Len(str) = k /\ IsPut(c, str, f, k)
    BY <1>2, <1>11, <2>1
  <2> QED BY <2>1, <2>2, PutsAre
<1>13. /\ g[1] = vga_putchar(g[0], str[1]) /\ g[2] = vga_putchar(g[1], str[2])
       /\ g[3] = vga_putchar(g[2], str[3])
  BY <1>12, 1 \in 1 .. 3, 2 \in 1 .. 3, 3 \in 1 .. 3, 1 - 1 = 0, 2 - 1 = 1, 3 - 1 = 2 DEF Puts
<1> QED BY <1>1, <1>2, <1>12, <1>13 DEF Puts

----------------------------------------------------------------------------
(* The line and its echo.                                                  *)

Shown(t) == <<">", " ">> \o t
EchoLines == [con : Consoles, text : Seq(Glyphs), crossed : BOOLEAN]
GoodLine(r) == /\ r \in EchoLines
               /\ \A s : Showing(r.con, s, 0)
               /\ ~r.crossed => Shows(r)

LEMMA ShowsIs == ASSUME NEW r PROVE Shows(r) <=> Showing(r.con, Shown(r.text), Len(Shown(r.text)))
  BY DEF Shows, Showing, Shown

LEMMA PromptIs ==
  LET p == <<">", " ">> IN p \in Seq(Glyphs) /\ Len(p) = 2 /\ p[1] = ">" /\ p[2] = " "
<1>1. PICK g, b \in Glyphs : g = ">" /\ b = " "
  BY DEF Glyphs
<1>2. <<g, b>> \in Seq(Glyphs) /\ Len(<<g, b>>) = 2 /\ <<g, b>>[1] = g /\ <<g, b>>[2] = b
  OBVIOUS
<1> QED BY <1>1, <1>2

LEMMA ShownIs ==
  ASSUME NEW t \in Seq(Glyphs)
  PROVE  /\ Len(t) \in Nat /\ Len(Shown(t)) = Len(t) + 2
         /\ \A j \in 1 .. Len(t) + 2 : Shown(t)[j] = IF j <= 2 THEN <<">", " ">>[j] ELSE t[j - 2]
<1>1. PICK p : p = <<">", " ">>
  OBVIOUS
<1>2. p \in Seq(Glyphs) /\ Len(p) = 2
  BY <1>1, PromptIs
<1>3. /\ Len(p \o t) = Len(p) + Len(t)
      /\ \A j \in 1 .. Len(p) + Len(t) : (p \o t)[j] = IF j <= Len(p) THEN p[j] ELSE t[j - Len(p)]
  BY <1>2, ConcatProperties
<1>4. Len(t) \in Nat /\ 2 + Len(t) = Len(t) + 2
  OBVIOUS
<1> QED BY <1>1, <1>2, <1>3, <1>4 DEF Shown

\* Lines that agree are shown alike.
LEMMA ShownAgrees ==
  ASSUME NEW t \in Seq(Glyphs), NEW u \in Seq(Glyphs), NEW n \in Nat,
         n <= Len(t), n <= Len(u), Agree(t, u, n)
  PROVE  Agree(Shown(t), Shown(u), n + 2)
<1> SUFFICES ASSUME NEW j \in 1 .. n + 2 PROVE Shown(t)[j] = Shown(u)[j]
  BY DEF Agree
<1>1. Len(t) \in Nat /\ Len(u) \in Nat
  OBVIOUS
<1>2. j \in 1 .. Len(t) + 2 /\ j \in 1 .. Len(u) + 2 /\ (~(j <= 2) => j - 2 \in 1 .. n)
  BY <1>1
<1>3. /\ Shown(t)[j] = IF j <= 2 THEN <<">", " ">>[j] ELSE t[j - 2]
      /\ Shown(u)[j] = IF j <= 2 THEN <<">", " ">>[j] ELSE u[j - 2]
  BY <1>2, ShownIs
<1> QED BY <1>2, <1>3 DEF Agree

LEMMA ShownAppend ==
  ASSUME NEW t \in Seq(Glyphs), NEW x \in Glyphs, NEW u, u = Append(t, x)
  PROVE  /\ u \in Seq(Glyphs) /\ Len(u) = Len(t) + 1
         /\ Agree(Shown(t), Shown(u), Len(t) + 2) /\ Shown(u)[(Len(t) + 2) + 1] = x
<1>1. /\ u \in Seq(Glyphs) /\ Len(u) = Len(t) + 1 /\ u[Len(t) + 1] = x
      /\ \A i \in 1 .. Len(t) : u[i] = t[i]
  BY AppendProperties
<1>2. Len(t) \in Nat
  OBVIOUS
<1>3. Agree(t, u, Len(t))
  BY <1>1 DEF Agree
<1>4. PICK n \in Nat : n = Len(t) /\ n <= Len(u) /\ n <= Len(t)
  BY <1>1, <1>2
<1>5. Agree(Shown(t), Shown(u), n + 2)
  BY <1>1, <1>3, <1>4, ShownAgrees
<1>6. PICK j : j = (n + 2) + 1
  OBVIOUS
<1>7. j \in 1 .. Len(u) + 2 /\ ~(j <= 2) /\ j - 2 = n + 1
  BY <1>1, <1>4, <1>6
<1>8. Shown(u)[j] = u[j - 2]
  BY <1>1, <1>7, ShownIs
<1> QED BY <1>1, <1>4, <1>5, <1>6, <1>7, <1>8

LEMMA ShownFront ==
  ASSUME NEW t \in Seq(Glyphs), t # <<>>, NEW u, u = SubSeq(t, 1, Len(t) - 1)
  PROVE  /\ u \in Seq(Glyphs) /\ Len(u) = Len(t) - 1 /\ Len(u) \in Nat
         /\ Agree(Shown(u), Shown(t), Len(u) + 2)
<1>1. Len(t) \in Nat /\ Len(t) # 0
  BY EmptySeq
<1>2. PICK m \in Int : m = Len(t) - 1 /\ m \in Nat /\ m - 1 + 1 = m
  BY <1>1
<1>3. \A i \in 1 .. m : t[i] \in Glyphs
  BY <1>1, <1>2
<1>4. /\ u \in Seq(Glyphs) /\ Len(u) = IF 1 <= m THEN m - 1 + 1 ELSE 0
      /\ \A i \in 1 .. m - 1 + 1 : u[i] = t[1 + i - 1]
  BY <1>2, <1>3, SubSeqProperties
<1>5. Len(u) = m
  BY <1>2, <1>4
<1>6. \A i \in 1 .. m : 1 + i - 1 = i
  BY <1>2
<1>7. Agree(u, t, m)
  BY <1>2, <1>4, <1>6 DEF Agree
<1>8. m \in Nat /\ m <= Len(u) /\ m <= Len(t)
  BY <1>1, <1>2, <1>5
<1>9. Agree(Shown(u), Shown(t), m + 2)
  BY <1>4, <1>7, <1>8, ShownAgrees
<1> QED BY <1>2, <1>4, <1>5, <1>9

LEMMA StillClear ==
  ASSUME NEW c \in Consoles, NEW s, NEW n, Showing(c, s, n), NEW t
  PROVE  Showing(c, t, 0)
<1>1. PICK q \in Nat : Cells = 0 .. q - 1
  <2>1. VGA_WIDTH * VGA_HEIGHT \in Nat
    BY ScreenAssumption
  <2> QED BY <2>1 DEF Cells
<1>2. Cursor(c) \in Nat
  BY <1>1, CursorIs
<1>3. \A i : i \notin Cursor(c) - 0 .. Cursor(c) - 1
  BY <1>2
<1> QED BY <1>3 DEF Showing

LEMMA PromptShows ==
  ASSUME NEW c \in Consoles, NEW s, Showing(c, s, 0)
  PROVE  Prompt(c) \in Consoles /\ Showing(Prompt(c), Shown(<<>>), 2)
<1>1. PICK p : p = <<">", " ">>
  OBVIOUS
<1>2. p[1] = ">" /\ p[2] = " " /\ Shown(<<>>) = p
  <2>1. p[1] = ">" /\ p[2] = " " /\ p \in Seq(Glyphs)
    BY <1>1, PromptIs
  <2>2. p \o <<>> = p
    BY <2>1, ConcatEmptySeq
  <2> QED BY <1>1, <2>1, <2>2 DEF Shown
<1>3. PICK g, b : g = ">" /\ b = " "
  OBVIOUS
<1>4. g \in Glyphs /\ b \in Glyphs
  BY <1>3 DEF Glyphs
<1>5. PICK c1 : c1 = vga_putchar(c, g)
  OBVIOUS
<1>6. PICK c2 : c2 = vga_putchar(c1, b)
  OBVIOUS
<1>7. Agree(s, p, 0) /\ Agree(p, p, 1)
  BY DEF Agree
<1>8. PICK z, o \in Nat : z = 0 /\ o = 1 /\ z + 1 = o /\ o + 1 = 2
  OBVIOUS
<1>9. c1 \in Consoles /\ Showing(c1, p, z + 1)
  BY <1>2, <1>3, <1>4, <1>5, <1>7, <1>8, PutShows
<1>10. c2 \in Consoles /\ Showing(c2, p, o + 1)
  BY <1>2, <1>3, <1>4, <1>6, <1>7, <1>8, <1>9, PutShows
<1>11. Prompt(c) = c2
  <2>1. vga_puts(c, <<g, b>>) = vga_putchar(vga_putchar(c, g), b)
    BY PutsTwo
  <2> QED BY <1>3, <1>5, <1>6, <2>1 DEF Prompt
<1> QED BY <1>2, <1>8, <1>10, <1>11

\* The blank and the second backspace leave the screen as it is.
LEMMA BlankShows ==
  ASSUME NEW c \in Consoles, NEW s, NEW n \in Nat, Showing(c, s, n), c.col + 1 < VGA_WIDTH
  PROVE  LET d == vga_putchar(vga_putchar(c, " "), "BS")
         IN  d \in Consoles /\ Showing(d, s, n)
<1>1. PICK b : b = " "
  OBVIOUS
<1>2. b \in Glyphs
  BY <1>1 DEF Glyphs
<1>3. PICK t : t = [j \in 1 .. n + 1 |-> IF j = n + 1 THEN b ELSE s[j]]
  OBVIOUS
<1>4. Agree(s, t, n) /\ t[n + 1] = b
  BY <1>3 DEF Agree
<1>5. PICK e : e = vga_putchar(c, b)
  OBVIOUS
<1>6. e \in Consoles /\ Showing(e, t, n + 1) /\ e.col = c.col + 1
  BY <1>2, <1>4, <1>5, PutShows
<1>7. e.col # 0
  BY <1>6, CursorIs
<1> QED BY <1>1, <1>4, <1>5, <1>6, <1>7, BackShows

LEMMA RuboutIs ==
  ASSUME NEW c
  PROVE  Rubout(c) = vga_putchar(vga_putchar(vga_putchar(c, "BS"), " "), "BS")
<1>1. PICK a, b : a = "BS" /\ b = " "
  OBVIOUS
<1>2. vga_puts(c, <<a, b, a>>) = vga_putchar(vga_putchar(vga_putchar(c, a), b), a)
  BY PutsThree
<1> QED BY <1>1, <1>2 DEF Rubout

LEMMA RuboutShows ==
  ASSUME NEW c \in Consoles, NEW s, NEW t, NEW n \in Nat,
         Showing(c, t, n + 1), Agree(s, t, n), c.col # 0
  PROVE  Rubout(c) \in Consoles /\ Showing(Rubout(c), s, n)
<1>1. PICK d : d = vga_putchar(c, "BS")
  OBVIOUS
<1>2. d \in Consoles /\ Showing(d, s, n) /\ d.col = c.col - 1
  BY <1>1, BackShows
<1>3. d.col + 1 < VGA_WIDTH
  BY <1>2, CursorIs
<1> QED BY <1>1, <1>2, <1>3, BlankShows, RuboutIs

LEMMA RuboutAtStart ==
  ASSUME NEW c \in Consoles, NEW s, Showing(c, s, 0), c.col = 0
  PROVE  Rubout(c) \in Consoles /\ Showing(Rubout(c), s, 0)
<1>1. c.row < VGA_HEIGHT
  BY CursorIs
<1>2. vga_putchar(c, "BS") = c
  <2>1. vga_putchar(c, "BS") = vga_scroll(c)
    BY DEF vga_putchar
  <2> QED BY <1>1, <2>1 DEF vga_scroll
<1>3. c.col + 1 < VGA_WIDTH
  BY ScreenAssumption
<1>4. PICK z \in Nat : z = 0
  OBVIOUS
<1>5. Showing(c, s, z)
  BY <1>4
<1> QED BY <1>2, <1>3, <1>4, <1>5, BlankShows, RuboutIs

LEMMA ClearIs ==
  vga_clear \in Consoles /\ \A s : Showing(vga_clear, s, 0)
<1>1. PICK c : c = vga_clear
  OBVIOUS
<1>2. PICK b : b = [i \in Cells |-> " "]
  OBVIOUS
<1>3. b \in [Cells -> Glyphs]
  BY <1>2 DEF Glyphs
<1>4. c = [buffer |-> b, row |-> 0, col |-> 0]
  BY <1>1, <1>2 DEF vga_clear
<1>5. c \in Consoles
  BY <1>3, <1>4, ScreenAssumption DEF Consoles, Screens
<1>6. \A i \in Cells : c.buffer[i] = " "
  BY <1>2, <1>4
<1>7. Cursor(c) \in Nat
  <2>1. VGA_WIDTH * VGA_HEIGHT \in Nat
    BY ScreenAssumption
  <2> QED BY <1>5, <2>1, CursorIs DEF Cells
<1>8. \A i : i \notin Cursor(c) - 0 .. Cursor(c) - 1
  BY <1>7
<1> QED BY <1>1, <1>5, <1>6, <1>8 DEF Showing

\* A line that was just begun.
LEMMA FreshLine ==
  ASSUME NEW c \in Consoles, NEW s, Showing(c, s, 0),
         NEW r, r = [con |-> Prompt(c), text |-> <<>>, crossed |-> FALSE]
  PROVE  GoodLine(r)
<1>1. PICK p : p = Prompt(c)
  OBVIOUS
<1>2. p \in Consoles /\ Showing(p, Shown(<<>>), 2)
  BY <1>1, PromptShows
<1>3. \A t : Showing(p, t, 0)
  BY <1>2, StillClear
<1>4. r.con = p /\ r.text = <<>> /\ r.crossed = FALSE
  BY <1>1
<1>5. r \in EchoLines
  <2>1. <<>> \in Seq(Glyphs)
    OBVIOUS
  <2> QED BY <1>1, <1>2, <2>1 DEF EchoLines
<1>6. Len(Shown(<<>>)) = 2
  <2>1. PICK e : e = <<>>
    OBVIOUS
  <2>2. e \in Seq(Glyphs) /\ Len(e) = 0
    BY <2>1
  <2>3. Len(Shown(e)) = Len(e) + 2
    BY <2>2, ShownIs
  <2> QED BY <2>1, <2>2, <2>3
<1>7. Shows(r)
  BY <1>2, <1>4, <1>6, ShowsIs
<1> QED BY <1>3, <1>4, <1>5, <1>7 DEF GoodLine

LEMMA Line0Good == GoodLine(Line0)
<1>1. PICK c : c = vga_clear
  OBVIOUS
<1>2. c \in Consoles /\ Showing(c, <<>>, 0)
  BY <1>1, ClearIs
<1>3. PICK r : r = [con |-> Prompt(c), text |-> <<>>, crossed |-> FALSE]
  OBVIOUS
<1>4. GoodLine(r)
  BY <1>2, <1>3, FreshLine
<1> QED BY <1>1, <1>3, <1>4 DEF Line0

LEMMA NewlineGood ==
  ASSUME NEW r, GoodLine(r), NEW limit
  PROVE  GoodLine(EditLine(r, "NL", limit))
<1>1. PICK c : c = vga_putchar(r.con, "NL")
  OBVIOUS
<1>2. r.con \in Consoles /\ Showing(r.con, <<>>, 0)
  BY DEF GoodLine, EchoLines
<1>3. c \in Consoles /\ Showing(c, <<>>, 0)
  BY <1>1, <1>2, NewlineShows
<1>4. PICK u : u = [con |-> Prompt(c), text |-> <<>>, crossed |-> FALSE]
  OBVIOUS
<1>5. GoodLine(u)
  BY <1>3, <1>4, FreshLine
<1>6. EditLine(r, "NL", limit) = u
  BY <1>1, <1>4 DEF EditLine
<1> QED BY <1>5, <1>6

LEMMA RuboutGood ==
  ASSUME NEW r, GoodLine(r), NEW limit
  PROVE  GoodLine(EditLine(r, "BS", limit))
<1>0. /\ r.con \in Consoles /\ r.text \in Seq(Glyphs) /\ r.crossed \in BOOLEAN
      /\ \A s : Showing(r.con, s, 0)
  BY DEF GoodLine, EchoLines
<1>1. CASE r.text = <<>>
  <2>1. EditLine(r, "BS", limit) = r
    BY <1>1 DEF EditLine
  <2> QED BY <2>1
<1>2. CASE r.text # <<>>
  <2>1. PICK c, t, u, d : /\ c = r.con /\ t = r.text /\ u = SubSeq(t, 1, Len(t) - 1) /\ d = Rubout(c)
    OBVIOUS
  <2>2. PICK x \in BOOLEAN : x <=> (r.crossed \/ c.col = 0)
    OBVIOUS
  <2>3. PICK e : e = [con |-> d, text |-> u, crossed |-> x]
    OBVIOUS
  <2>4. EditLine(r, "BS", limit) = e
    <3>1. EditLine(r, "BS", limit) = [con |-> Rubout(r.con), text |-> SubSeq(r.text, 1, Len(r.text) - 1),
                                      crossed |-> r.crossed \/ r.con.col = 0]
      BY <1>2 DEF EditLine
    <3>2. (r.crossed \/ r.con.col = 0) = x
      BY <2>1, <2>2
    <3> QED BY <2>1, <2>3, <3>1, <3>2
  <2>5. /\ u \in Seq(Glyphs) /\ Len(u) = Len(t) - 1 /\ Len(u) \in Nat
        /\ Agree(Shown(u), Shown(t), Len(u) + 2)
    BY <1>0, <1>2, <2>1, ShownFront
  <2>6. /\ d \in Consoles
        /\ \A s : Showing(d, s, 0)
        /\ ~x => Showing(d, Shown(u), Len(u) + 2)
    <3>1. CASE c.col = 0
      <4>1. d \in Consoles /\ Showing(d, <<>>, 0)
        BY <1>0, <2>1, <3>1, RuboutAtStart
      <4> QED BY <2>2, <3>1, <4>1, StillClear
    <3>2. CASE c.col # 0
      <4>1. PICK z \in Nat : z = 0
        OBVIOUS
      <4>2. PICK n \in Nat : n = Len(u) + 2
        BY <2>5
      <4>3. CASE r.crossed
        <5>1. PICK w, k : k = Cursor(c) - 1 /\ w = [i \in 1 .. 1 |-> c.buffer[k]]
          OBVIOUS
        <5>2. Showing(c, w, z + 1)
          <6>1. PICK q \in Nat : Cells = 0 .. q - 1
            <7>1. VGA_WIDTH * VGA_HEIGHT \in Nat
              BY ScreenAssumption
            <7> QED BY <7>1 DEF Cells
          <6>2. Cursor(c) \in Nat
            BY <1>0, <2>1, <6>1, CursorIs
          <6>3. Showing(c, w, 0)
            BY <1>0, <2>1
          <6>4. ASSUME NEW i \in Cells, i \in Cursor(c) - 1 .. Cursor(c) - 1
                PROVE  c.buffer[i] = w[i - (Cursor(c) - 1) + 1]
            <7>1. i = k /\ i - (Cursor(c) - 1) + 1 = 1
              BY <5>1, <6>2, <6>4
            <7> QED BY <5>1, <7>1
          <6>5. Showing(c, w, 1)
            BY <6>3, <6>4 DEF Showing
          <6> QED BY <4>1, <6>5
        <5>3. Agree(w, w, z)
          BY DEF Agree
        <5>4. d \in Consoles /\ Showing(d, w, z)
          BY <1>0, <2>1, <3>2, <5>2, <5>3, RuboutShows
        <5> QED BY <2>2, <4>3, <5>4, StillClear
      <4>4. CASE ~r.crossed
        <5>1. Showing(c, Shown(t), Len(Shown(t)))
          BY <2>1, <4>4, ShowsIs DEF GoodLine
        <5>2. Len(Shown(t)) = n + 1
          <6>1. Len(t) \in Nat /\ Len(Shown(t)) = Len(t) + 2
            BY <1>0, <2>1, ShownIs
          <6> QED BY <2>5, <4>2, <6>1
        <5>3. PICK a, b : a = Shown(u) /\ b = Shown(t)
          OBVIOUS
        <5>4. Showing(c, b, n + 1) /\ Agree(a, b, n)
          BY <2>5, <4>2, <5>1, <5>2, <5>3
        <5>5. d \in Consoles /\ Showing(d, a, n)
          BY <1>0, <2>1, <3>2, <5>4, RuboutShows
        <5>6. \A s : Showing(d, s, 0)
          BY <5>5, StillClear
        <5> QED BY <4>2, <5>3, <5>5, <5>6
      <4> QED BY <1>0, <4>3, <4>4
    <3> QED BY <3>1, <3>2
  <2>7. e \in EchoLines /\ e.con = d /\ e.text = u /\ e.crossed = x
    BY <2>3, <2>5, <2>6 DEF EchoLines
  <2>8. ~e.crossed => Shows(e)
    <3>1. Len(Shown(u)) = Len(u) + 2
      BY <2>5, ShownIs
    <3> QED BY <2>6, <2>7, <3>1, ShowsIs
  <2> QED BY <2>4, <2>6, <2>7, <2>8 DEF GoodLine
<1> QED BY <1>1, <1>2

LEMMA TypedGood ==
  ASSUME NEW r, GoodLine(r), NEW limit
  PROVE  GoodLine(EditLine(r, "x", limit))
<1>0. /\ r.con \in Consoles /\ r.text \in Seq(Glyphs) /\ r.crossed \in BOOLEAN
      /\ \A s : Showing(r.con, s, 0)
  BY DEF GoodLine, EchoLines
<1>1. CASE Len(r.text) >= limit - 1
  <2>1. EditLine(r, "x", limit) = r
    BY <1>1 DEF EditLine
  <2> QED BY <2>1
<1>2. CASE ~(Len(r.text) >= limit - 1)
  <2>1. PICK g \in Glyphs : g = "x"
    BY DEF Glyphs
  <2>2. PICK c, t, u, d : c = r.con /\ t = r.text /\ u = Append(t, g) /\ d = vga_putchar(c, g)
    OBVIOUS
  <2>3. PICK x \in BOOLEAN : x = r.crossed
    BY <1>0
  <2>4. PICK e : e = [con |-> d, text |-> u, crossed |-> x]
    OBVIOUS
  <2>5. EditLine(r, "x", limit) = e
    <3>1. EditLine(r, "x", limit) = [r EXCEPT !.con = vga_putchar(r.con, "x"), !.text = Append(r.text, "x")]
      BY <1>2 DEF EditLine, GoodLine, EchoLines
    <3>2. EditLine(r, "x", limit) = [r EXCEPT !.con = d, !.text = u]
      BY <2>1, <2>2, <3>1
    <3>3. r = [con |-> c, text |-> t, crossed |-> x]
      BY <2>2, <2>3 DEF GoodLine, EchoLines
    <3>4. PICK f : f = [con |-> d, text |-> t, crossed |-> x]
      OBVIOUS
    <3>5. [r EXCEPT !.con = d] = f
      BY <3>3, <3>4
    <3>6. [f EXCEPT !.text = u] = e
      BY <2>4, <3>4
    <3>7. [r EXCEPT !.con = d, !.text = u] = [[r EXCEPT !.con = d] EXCEPT !.text = u]
      OBVIOUS
    <3> QED BY <3>2, <3>5, <3>6, <3>7
  <2>6. /\ u \in Seq(Glyphs) /\ Len(u) = Len(t) + 1
        /\ Agree(Shown(t), Shown(u), Len(t) + 2) /\ Shown(u)[(Len(t) + 2) + 1] = g
    BY <1>0, <2>2, ShownAppend
  <2>7. PICK a, b : a = Shown(t) /\ b = Shown(u)
    OBVIOUS
  <2>8. PICK n \in Nat : n = Len(t) + 2 /\ Len(a) = n /\ Len(b) = n + 1
    <3>1. Len(t) \in Nat /\ Len(Shown(t)) = Len(t) + 2
      BY <1>0, <2>2, ShownIs
    <3>2. Len(Shown(u)) = Len(u) + 2
      BY <2>6, ShownIs
    <3> QED BY <2>6, <2>7, <3>1, <3>2
  <2>9. d \in Consoles /\ \A s : Showing(d, s, 0)
    <3>1. PICK z \in Nat : z = 0
      OBVIOUS
    <3>2. PICK w : w = [i \in 1 .. 1 |-> g]
      OBVIOUS
    <3>3. w[z + 1] = g /\ Agree(w, w, z)
      BY <3>1, <3>2 DEF Agree
    <3>4. Showing(c, w, z)
      BY <1>0, <2>2, <3>1
    <3>5. d \in Consoles /\ Showing(d, w, z + 1)
      BY <1>0, <2>2, <3>3, <3>4, PutShows
    <3> QED BY <3>5, StillClear
  <2>10. ~x => Showing(d, b, n + 1)
    <3>1. SUFFICES ASSUME ~x PROVE Showing(d, b, n + 1)
      OBVIOUS
    <3>2. Showing(c, a, n)
      BY <2>2, <2>3, <2>7, <2>8, <3>1, ShowsIs DEF GoodLine
    <3>3. Agree(a, b, n) /\ b[n + 1] = g
      BY <2>6, <2>7, <2>8
    <3> QED BY <1>0, <2>2, <3>2, <3>3, PutShows
  <2>11. e \in EchoLines /\ e.con = d /\ e.text = u /\ e.crossed = x
    BY <2>4, <2>6, <2>9 DEF EchoLines
  <2>12. ~e.crossed => Shows(e)
    BY <2>7, <2>8, <2>10, <2>11, ShowsIs
  <2> QED BY <2>5, <2>9, <2>11, <2>12 DEF GoodLine
<1> QED BY <1>1, <1>2

LEMMA SpinGood == ASSUME NEW r, GoodLine(r) PROVE GoodLine(Spin(r))
<1>1. /\ r.con \in Consoles /\ r.text \in Seq(Glyphs) /\ r.crossed \in BOOLEAN
      /\ \A s : Showing(r.con, s, 0)
  BY DEF GoodLine, EchoLines
<1>2. PICK c, t, x : c = r.con /\ t = r.text /\ x = r.crossed
  OBVIOUS
<1>3. PICK g \in Glyphs : g = "*"
  BY DEF Glyphs
<1>4. PICK b : b = [c.buffer EXCEPT ![0 * VGA_WIDTH + (VGA_WIDTH - 1)] = g]
  OBVIOUS
<1>5. 0 * VGA_WIDTH + (VGA_WIDTH - 1) = VGA_WIDTH - 1
  BY ScreenAssumption
<1>6. c.buffer \in [Cells -> Glyphs]
  BY <1>1, <1>2, CursorIs
<1>7. b \in [Cells -> Glyphs] /\ \A i \in Cells : i # VGA_WIDTH - 1 => b[i] = c.buffer[i]
  BY <1>4, <1>5, <1>6
<1>8. PICK d : d = [c EXCEPT !.buffer = b]
  OBVIOUS
<1>9. vga_put_at(c, VGA_WIDTH - 1, 0, "*") = d
  BY <1>1, <1>2, <1>3, <1>4, <1>8 DEF vga_put_at, Consoles, Screens
<1>10. d \in Consoles /\ d.buffer = b /\ Cursor(d) = Cursor(c)
  BY <1>1, <1>2, <1>7, <1>8 DEF Consoles, Screens, Cursor
<1>11. \A s, n : Showing(c, s, n) => Showing(d, s, n)
  BY <1>7, <1>10 DEF Showing
<1>12. PICK e : e = [con |-> d, text |-> t, crossed |-> x]
  OBVIOUS
<1>13. Spin(r) = e
  <2>1. Spin(r) = [r EXCEPT !.con = d]
    BY <1>2, <1>9 DEF Spin
  <2>2. r = [con |-> c, text |-> t, crossed |-> x]
    BY <1>2 DEF GoodLine, EchoLines
  <2> QED BY <1>12, <2>1, <2>2
<1>14. e \in EchoLines /\ e.con = d /\ e.text = t /\ e.crossed = x
  BY <1>1, <1>2, <1>10, <1>12 DEF EchoLines
<1>15. ~e.crossed => Shows(e)
  BY <1>2, <1>11, <1>14, ShowsIs DEF GoodLine
<1>16. \A s : Showing(d, s, 0)
  BY <1>1, <1>2, <1>11
<1> QED BY <1>13, <1>14, <1>15, <1>16 DEF GoodLine

----------------------------------------------------------------------------
(* All lines that some number of keys leads to.                            *)

EchoKeys == {"x", "BS", "NL"}
After(M, limit) == M \cup {EditLine(r, k, limit) : r \in M, k \in EchoKeys} \cup {Spin(r) : r \in M}
LineTurn(limit, f, i) == IF i = 0 THEN {Line0} ELSE After(f[i - 1], limit)
IsLines(limit, f, n) == f = [i \in 0 .. n |-> LineTurn(limit, f, i)]

LEMMA LeastNumber ==
  ASSUME NEW T, T \subseteq Nat, T # {}
  PROVE  \E x \in T : \A y \in T : x <= y
<1> DEFINE R == OpToRel(<, Nat)
<1>1. \A x, y \in Nat : <<x, y>> \in R <=> x < y
  BY DEF OpToRel
<1>2. IsWellFoundedOn(R, Nat)
  BY NatLessThanWellFounded
<1> HIDE DEF R
<1>3. PICK x \in T : \A y \in T : ~(<<y, x>> \in R)
  BY <1>2, WFMin
<1>4. ASSUME NEW y \in T PROVE x <= y
  <2>1. x \in Nat /\ y \in Nat
    OBVIOUS
  <2>2. ~(y < x)
    BY <1>1, <1>3, <2>1
  <2> QED BY <2>1, <2>2
<1> QED BY <1>4

LEMMA Counting ==
  ASSUME NEW N \in Nat, NEW T, 0 \in T, \A n \in 0 .. N : n # N /\ n \in T => n + 1 \in T
  PROVE  \A n \in 0 .. N : n \in T
<1> DEFINE Bad == {n \in 0 .. N : n \notin T}
<1>1. SUFFICES ASSUME Bad # {} PROVE FALSE
  OBVIOUS
<1>2. Bad \subseteq Nat
  OBVIOUS
<1>3. PICK n \in Bad : \A m \in Bad : n <= m
  <2> HIDE DEF Bad
  <2> QED BY <1>1, <1>2, LeastNumber
<1>4. n \in 0 .. N /\ n \notin T /\ n # 0
  OBVIOUS
<1>5. n - 1 \in 0 .. N /\ n - 1 # N /\ n - 1 \notin Bad
  BY <1>3, <1>4
<1>6. (n - 1) + 1 \in T
  BY <1>5
<1> QED BY <1>4, <1>6

LEMMA LinesExist ==
  ASSUME NEW limit, NEW N \in Nat
  PROVE  \E f : IsLines(limit, f, N)
<1> DEFINE T == {k \in Nat : \E f : IsLines(limit, f, k)}
<1>1. 0 \in T
  <2> DEFINE f == [n \in 0 .. 0 |-> {Line0}]
  <2>1. IsLines(limit, f, 0)
    BY DEF IsLines, LineTurn
  <2> QED BY <2>1
<1>2. ASSUME NEW k \in 0 .. N, k \in T PROVE k + 1 \in T
  <2>1. PICK g : IsLines(limit, g, k)
    BY <1>2
  <2> DEFINE f == [n \in 0 .. k + 1 |-> LineTurn(limit, g, n)]
  <2>2. \A n \in 0 .. k : g[n] = LineTurn(limit, g, n)
    BY <2>1 DEF IsLines
  <2>3. \A n \in 0 .. k : f[n] = g[n]
    BY <2>2
  <2>4. \A n \in 0 .. k + 1 : n # 0 => n - 1 \in 0 .. k
    OBVIOUS
  <2>5. \A n \in 0 .. k + 1 : LineTurn(limit, f, n) = LineTurn(limit, g, n)
    <3> HIDE DEF f
    <3> QED BY <2>3, <2>4 DEF LineTurn
  <2>6. f = [n \in 0 .. k + 1 |-> LineTurn(limit, f, n)]
    BY <2>5
  <2> HIDE DEF f
  <2>7. IsLines(limit, f, k + 1)
    BY <2>6 DEF IsLines
  <2> QED BY <2>7
<1>3. \A k \in 0 .. N : k # N /\ k \in T => k + 1 \in T
  BY <1>2
<1> HIDE DEF T
<1>4. N \in T
  BY <1>1, <1>3, Counting
<1> QED BY <1>4 DEF T

LEMMA AfterGood ==
  ASSUME NEW M, \A r \in M : GoodLine(r), NEW limit
  PROVE  \A r \in After(M, limit) : GoodLine(r)
<1> SUFFICES ASSUME NEW e \in After(M, limit) PROVE GoodLine(e)
  OBVIOUS
<1>1. CASE e \in M
  BY <1>1
<1>2. CASE \E r \in M, k \in EchoKeys : e = EditLine(r, k, limit)
  <2>1. PICK r \in M, k \in EchoKeys : e = EditLine(r, k, limit)
    BY <1>2
  <2>2. k = "x" \/ k = "BS" \/ k = "NL"
    BY DEF EchoKeys
  <2>3. GoodLine(r)
    OBVIOUS
  <2> QED BY <2>1, <2>2, <2>3, TypedGood, RuboutGood, NewlineGood
<1>3. CASE \E r \in M : e = Spin(r)
  BY <1>3, SpinGood
<1> QED BY <1>1, <1>2, <1>3 DEF After

\* After any number of keys the screen shows the line.
LEMMA LinesGood ==
  ASSUME NEW n \in Nat, NEW limit
  PROVE  \A r \in LinesAfter(n, EchoKeys, limit) : GoodLine(r)
<1> DEFINE f == CHOOSE x : IsLines(limit, x, n)
<1>1. IsLines(limit, f, n)
  BY LinesExist
<1>2. LinesAfter(n, EchoKeys, limit) = f[n]
  BY DEF LinesAfter, IsLines, LineTurn, After
<1> HIDE DEF f
<1> DEFINE T == {i \in 0 .. n : \A r \in f[i] : GoodLine(r)}
<1>3. \A i \in 0 .. n : f[i] = LineTurn(limit, f, i)
  BY <1>1 DEF IsLines
<1>4. 0 \in T
  BY <1>3, 0 \in 0 .. n, Line0Good DEF LineTurn
<1>5. ASSUME NEW i \in 0 .. n, i # n, i \in T PROVE i + 1 \in T
  <2>1. i + 1 \in 0 .. n /\ i + 1 # 0 /\ (i + 1) - 1 = i
    BY <1>5
  <2>2. PICK M : M = f[i]
    OBVIOUS
  <2>3. f[i + 1] = After(M, limit)
    BY <1>3, <2>1, <2>2 DEF LineTurn
  <2>4. \A r \in M : GoodLine(r)
    BY <1>5, <2>2
  <2>5. \A r \in f[i + 1] : GoodLine(r)
    BY <2>3, <2>4, AfterGood
  <2> QED BY <2>1, <2>5
<1>6. \A i \in 0 .. n : i # n /\ i \in T => i + 1 \in T
  BY <1>5
<1>7. n \in T
  <2> HIDE DEF T
  <2> QED BY <1>4, <1>6, Counting
<1> QED BY <1>2, <1>7

\* What stands on the screen before the cursor is the line that Enter would
\* evaluate, however many keys were typed, wrapped, rubbed out or scrolled
\* away, on every size of screen and of line; only a character rubbed out
\* across the end of a row may stay visible.
THEOREM ScreenShowsLine == TerminalSpec => []EchoShowsLine
<1>1. IInv => EchoShowsLine
  <2> SUFFICES ASSUME input_pos \in 0 .. INPUT_BUF_SIZE - 1 PROVE EchoShowsLine
    BY DEF IInv, TypeOK
  <2>1. \A r \in LinesAfter(MaxEvents, EchoKeys, INPUT_BUF_SIZE) : GoodLine(r)
    BY LinesGood, BoundsAssumption
  <2>2. {r \in LinesAfter(MaxEvents, EchoKeys, INPUT_BUF_SIZE) : ~r.crossed /\ ~Shows(r)} = {}
    BY <2>1 DEF GoodLine
  <2>3. EchoLengths = 0 .. INPUT_BUF_SIZE - 1
    BY <2>2 DEF EchoLengths, EchoKeys
  <2> QED BY <2>3 DEF EchoShowsLine
<1> QED BY <1>1, InitInv, NextInv, ImplementsDriver, PTL DEF KeyboardSafety
=============================================================================
