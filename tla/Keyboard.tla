------------------------------ MODULE Keyboard ------------------------------
(***************************************************************************)
(* The PS/2 keyboard driver (kernel/drivers/keyboard.c) between the IRQ 1  *)
(* handler that fills its ring and the tasks that empty it: the Forth REPL *)
(* (forth_run) and block editors (run_editor) running in forked tasks.     *)
(*                                                                         *)
(* Tasks switch only in yield, so cpu, the task that runs, changes only    *)
(* there.  Interrupt gates clear IF: a handler runs whole between two      *)
(* steps of the running task.                                              *)
(***************************************************************************)
EXTENDS Naturals, Sequences

CONSTANTS
    KBD_BUFFER_SIZE,
    INPUT_BUF_SIZE,
    Editors,        \* tasks FORK made, whose words run the editor
    Repl,           \* the task in forth_run
    MaxSwitches,    \* bound on the YIELDs and EDITs of a line or a forked word
    NoChar,
    Keys            \* scancodes the keyboard sends

ASSUME SizeAssumption == /\ KBD_BUFFER_SIZE \in Nat \ {0, 1}
                         /\ INPUT_BUF_SIZE \in Nat \ {0}
ASSUME ReplAssumption == Repl \notin Editors
ASSUME SwitchesAssumption == MaxSwitches \in Nat

Readers == Editors \cup {Repl}
Chars   == {"a", "A", "^A", "1", "!", "NL", "BS", "ESC"}
ASSUME NoCharAssumption == NoChar \notin Chars

Printable == {"a", "A", "1", "!"}
Slots   == 0 .. KBD_BUFFER_SIZE - 1

VARIABLES
    kbd_buffer, kbd_head, kbd_tail,
    shift_pressed, ctrl_pressed, caps_lock,
    cpu, pc,
    got,            \* the character the running reader holds in c or key
    asleep,         \* the CPU is in hlt
    input_pos,      \* characters in the line typed so far
    evaluating,     \* forth_run is inside forth_eval, on that line
    switches        \* YIELDs and EDITs left to the Forth code of each task

ring == <<kbd_buffer, kbd_head, kbd_tail>>
mods == <<shift_pressed, ctrl_pressed, caps_lock>>
eval == <<evaluating, switches>>
vars == <<ring, mods, cpu, pc, got, asleep, input_pos, eval>>

TypeOK ==
    /\ kbd_buffer \in [Slots -> Chars]
    /\ kbd_head \in Slots /\ kbd_tail \in Slots
    /\ shift_pressed \in BOOLEAN /\ ctrl_pressed \in BOOLEAN
    /\ caps_lock \in BOOLEAN
    /\ cpu \in Readers
    /\ pc \in [Readers -> {"check", "get", "advance", "use", "halt", "eval", "done"}]
    /\ got \in Chars \cup {NoChar}
    /\ asleep \in BOOLEAN
    /\ input_pos \in 0 .. INPUT_BUF_SIZE - 1
    /\ evaluating \in BOOLEAN
    /\ switches \in [Readers -> 0 .. MaxSwitches]

Init ==
    /\ kbd_buffer = [i \in Slots |-> "a"]
    /\ kbd_head = 0 /\ kbd_tail = 0
    /\ shift_pressed = FALSE /\ ctrl_pressed = FALSE
    /\ caps_lock = FALSE
    /\ cpu = Repl
    /\ pc = [r \in Readers |-> IF r = Repl THEN "check" ELSE "eval"]
    /\ got = NoChar
    /\ asleep = FALSE
    /\ input_pos = 0
    /\ evaluating = FALSE
    /\ switches = [r \in Readers |-> MaxSwitches]

----------------------------------------------------------------------------
(* IRQ 1 and IRQ 0.                                                        *)

MutPutOverwrites(c) ==          \* mutant: the test for a full ring is missing
    /\ kbd_buffer' = [kbd_buffer EXCEPT ![kbd_head] = c]
    /\ kbd_head' = (kbd_head + 1) % KBD_BUFFER_SIZE

kbd_buffer_put(c) ==
    LET next == (kbd_head + 1) % KBD_BUFFER_SIZE
    IN  IF next # kbd_tail
        THEN kbd_buffer' = [kbd_buffer EXCEPT ![kbd_head] = c] /\ kbd_head' = next
        ELSE UNCHANGED <<kbd_buffer, kbd_head>>

\* The tables, caps lock and Ctrl: a letter, a digit, and keys whose
\* character does not depend on the modifiers.
Translate(key) ==
    CASE key = "letter" ->
           IF ctrl_pressed THEN "^A"
           ELSE IF shift_pressed \/ caps_lock THEN "A" ELSE "a"
      [] key = "digit"  -> IF shift_pressed THEN "!" ELSE "1"
      [] key = "enter"  -> "NL"
      [] key = "back"   -> "BS"
      [] key = "esc"    -> "ESC"

Modifier(key, down) ==
    \/ /\ key = "shift" /\ shift_pressed' = down
       /\ UNCHANGED <<ctrl_pressed, caps_lock>>
    \/ /\ key = "ctrl" /\ ctrl_pressed' = down
       /\ UNCHANGED <<shift_pressed, caps_lock>>
    \/ /\ key = "caps" /\ down /\ caps_lock' = ~caps_lock
       /\ UNCHANGED <<shift_pressed, ctrl_pressed>>

\* The tables give the key a character; Shift+Esc has none.
HasChar(key) == \/ key \in {"letter", "digit", "enter", "back"}
                \/ key = "esc" /\ ~shift_pressed

\* Releases of other keys and keys without a character change nothing;
\* alt_pressed is recorded by the code and never read.
keyboard_handler_c(key) ==
    /\ \/ /\ \E down \in BOOLEAN : Modifier(key, down)
          /\ UNCHANGED <<kbd_buffer, kbd_head>>
       \/ /\ HasChar(key)
          /\ kbd_buffer_put(Translate(key))
          /\ UNCHANGED mods
       \/ /\ ~HasChar(key) /\ key \notin {"shift", "ctrl", "caps"}
          /\ UNCHANGED <<kbd_buffer, kbd_head, mods>>
    /\ asleep' = FALSE
    /\ UNCHANGED <<kbd_tail, cpu, pc, got, input_pos, eval>>

MutTimerSilent == FALSE         \* mutant: IRQ 0 is masked

\* The timer only counts (kernel_ticks is not read here), but it ends a hlt.
timer_handler_c ==
    /\ asleep
    /\ asleep' = FALSE
    /\ UNCHANGED <<ring, mods, cpu, pc, got, input_pos, eval>>

----------------------------------------------------------------------------
(* The running task.                                                       *)

At(label) == ~asleep /\ pc[cpu] = label

Live == {r \in Readers : pc[r] # "done"}

\* The loop the running task is in: forth_run's, or that of run_editor, which a
\* forked task runs and, by EDIT in its line, the REPL.
InRepl == cpu = Repl /\ ~evaluating

MutCheckYields ==               \* mutant: other tasks run between test and read
    /\ At("check")
    /\ cpu' \in Live
    /\ pc' = [pc EXCEPT ![cpu] = IF kbd_head # kbd_tail THEN "get"
                                 ELSE IF InRepl THEN "halt" ELSE "check"]
    /\ UNCHANGED <<ring, mods, got, asleep, input_pos, eval>>

\* keyboard_available: on an empty ring, yield.  forth_run goes on to hlt when
\* the scheduler comes back to it, run_editor tests again.
Check ==
    /\ At("check")
    /\ IF kbd_head # kbd_tail
       THEN pc' = [pc EXCEPT ![cpu] = "get"] /\ UNCHANGED cpu
       ELSE /\ pc' = [pc EXCEPT ![cpu] = IF InRepl THEN "halt" ELSE "check"]
            /\ cpu' \in Live
    /\ UNCHANGED <<ring, mods, got, asleep, input_pos, eval>>

\* hlt, not atomic with the test before it.
Halt ==
    /\ At("halt")
    /\ asleep' = TRUE
    /\ pc' = [pc EXCEPT ![cpu] = "check"]
    /\ UNCHANGED <<ring, mods, cpu, got, input_pos, eval>>

\* keyboard_getchar: read the slot at the tail, then free it.  (Its wait for
\* a character is never entered: see GetNeverWaits.)
GetRead ==
    /\ At("get") /\ kbd_head # kbd_tail
    /\ got' = kbd_buffer[kbd_tail]
    /\ pc' = [pc EXCEPT ![cpu] = "advance"]
    /\ UNCHANGED <<ring, mods, cpu, asleep, input_pos, eval>>
GetAdvance ==
    /\ At("advance")
    /\ kbd_tail' = (kbd_tail + 1) % KBD_BUFFER_SIZE
    /\ pc' = [pc EXCEPT ![cpu] = "use"]
    /\ UNCHANGED <<kbd_buffer, kbd_head, mods, cpu, got, asleep, input_pos, eval>>

\* forth_run edits its line, or has it evaluated if it is not empty.
KeyInLine ==
    /\ \/ got # "NL"
       \/ input_pos = 0
    /\ input_pos' =
         CASE got = "BS" /\ input_pos > 0 -> input_pos - 1
           [] got \in Printable /\ input_pos < INPUT_BUF_SIZE - 1 -> input_pos + 1
           [] OTHER -> input_pos
    /\ pc' = [pc EXCEPT ![cpu] = "check"]
    /\ UNCHANGED eval
EvalLine ==
    /\ got = "NL" /\ input_pos > 0
    /\ pc' = [pc EXCEPT ![cpu] = "eval"]
    /\ evaluating' = TRUE
    /\ UNCHANGED <<input_pos, switches>>

\* run_editor goes on to the next key (the block it edits: see BlockDevice), or
\* returns to the Forth code that called it.
Use ==
    /\ At("use")
    /\ \/ InRepl /\ (KeyInLine \/ EvalLine)
       \/ /\ ~InRepl
          /\ pc' = [pc EXCEPT ![cpu] = IF got = "ESC" THEN "eval" ELSE "check"]
          /\ UNCHANGED <<input_pos, eval>>
    /\ got' = NoChar
    /\ UNCHANGED <<ring, mods, cpu, asleep>>

\* YIELD and EDIT in a line that forth_run evaluates, or in a forked word.
WordSwitches ==
    /\ At("eval")
    /\ switches[cpu] > 0
    /\ switches' = [switches EXCEPT ![cpu] = @ - 1]
    /\ \/ cpu' \in Live /\ UNCHANGED pc
       \/ pc' = [pc EXCEPT ![cpu] = "check"] /\ UNCHANGED cpu
    /\ UNCHANGED <<ring, mods, got, asleep, input_pos, evaluating>>

\* forth_eval returns to forth_run, which empties the line; a forked task exits.
CodeEnds ==
    /\ At("eval")
    /\ IF cpu = Repl
       THEN /\ pc' = [pc EXCEPT ![cpu] = "check"]
            /\ input_pos' = 0
            /\ evaluating' = FALSE
            /\ UNCHANGED cpu
       ELSE /\ pc' = [pc EXCEPT ![cpu] = "done"]
            /\ cpu' \in Live \ {cpu}
            /\ UNCHANGED <<input_pos, evaluating>>
    /\ switches' = [switches EXCEPT ![cpu] = MaxSwitches]
    /\ UNCHANGED <<ring, mods, got, asleep>>

Run == Check \/ Halt \/ GetRead \/ GetAdvance \/ Use \/ WordSwitches \/ CodeEnds

Next == Run \/ timer_handler_c \/ \E key \in Keys : keyboard_handler_c(key)

\* The running task goes on, and IRQ 0 keeps coming.
Spec == Init /\ [][Next]_vars /\ WF_vars(Run) /\ WF_vars(timer_handler_c)

----------------------------------------------------------------------------
(* Properties.                                                             *)

\* A reader that saw a character available finds it in keyboard_getchar,
\* which would otherwise stop the CPU without yielding: no other reader runs
\* in between.
GetNeverWaits == At("get") => kbd_head # kbd_tail

Count == (kbd_head + KBD_BUFFER_SIZE - kbd_tail) % KBD_BUFFER_SIZE
Queue == INSTANCE KeyQueue
           WITH Capacity <- KBD_BUFFER_SIZE - 1,
                held <- IF pc[cpu] = "use" THEN got ELSE NoChar,
                queue <- [i \in 1 .. Count |->
                            kbd_buffer[(kbd_tail + i - 1) % KBD_BUFFER_SIZE]]

\* The ring is a bounded FIFO queue, although the handler may run between
\* the read of a slot and its release: no character is lost once it is in,
\* none is delivered twice, garbled or out of order.
DeliversInOrder == Queue!Spec

\* A character in the ring is read, although it may arrive between the test
\* of the ring and hlt: the next timer interrupt ends that sleep.
KeysAreRead == \A t \in Slots : (kbd_tail = t /\ kbd_head # t) ~> (kbd_tail # t)
=============================================================================
