------------------------------ MODULE Terminal ------------------------------
(***************************************************************************)
(* How keys reach the driver of Keyboard: the keyboard controller, the     *)
(* interrupt controller as pic_init sets it up and irq_handler_c serves    *)
(* it (kernel/interrupts), and the boot in which keyboard_init empties the *)
(* controller before interrupts are enabled.                               *)
(*                                                                         *)
(* A byte has no identity until the handler reads it.  The hardware is     *)
(* external: the 8042 holds one byte and raises IRQ 1 while it does; the   *)
(* 8259 latches rising edges only.                                         *)
(***************************************************************************)
EXTENDS Keyboard, Console, FiniteSetsExt

CONSTANTS
    MaxSent,        \* bound on the bytes the keyboard itself holds back
    MaxEvents       \* bound on the keys of the lines EchoShowsLine looks at

ASSUME BoundsAssumption == MaxSent \in Nat \ {0} /\ MaxEvents \in Nat

VARIABLES
    boot,           \* how far kernel_main is
    sent,           \* bytes the keyboard sent that the 8042 has no room for
    obf,            \* the 8042's output buffer is full: IRQ 1 is high
    irr,            \* edges the 8259 latched
    in_service,     \* interrupts acknowledged, for which no EOI came
    irq             \* the interrupt whose handler runs, and its stage

hardware == <<sent, obf, irr, in_service>>
tvars    == <<vars, boot, hardware, irq>>

Unmasked == {0, 1}                              \* 0xFC on the first PIC
NoIrq == [line |-> 99, stage |-> "none"]
InHandler(line, stage) == irq = [line |-> line, stage |-> stage]

TerminalInit ==
    /\ Init
    /\ boot = "idt_init"
    /\ sent = 0
    /\ obf \in BOOLEAN              \* a key was hit in the boot loader
    /\ irr \in SUBSET {0, 1}
    /\ in_service = {}
    /\ irq = NoIrq

----------------------------------------------------------------------------
(* kernel_main, with interrupts off until sti.                             *)

\* ICW1 forgets the edges latched: a line that is high stays unnoticed until
\* it falls and rises again.
pic_init ==
    /\ boot = "idt_init"
    /\ boot' = "keyboard_init"
    /\ irr' = {} /\ in_service' = {}
    /\ UNCHANGED <<vars, sent, obf, irq>>

MutNoDrain ==                   \* mutant: waiting bytes are left in the 8042
    /\ boot = "keyboard_init"
    /\ boot' = "sti"
    /\ UNCHANGED <<vars, hardware, irq>>

\* Turns of the loop while the status says a byte is there, then its end.
keyboard_init ==
    /\ boot = "keyboard_init"
    /\ IF obf THEN obf' = FALSE /\ UNCHANGED boot
              ELSE boot' = "sti" /\ UNCHANGED obf
    /\ UNCHANGED <<vars, sent, irr, in_service, irq>>

sti ==
    /\ boot = "sti"
    /\ boot' = "run"
    /\ UNCHANGED <<vars, hardware, irq>>

----------------------------------------------------------------------------
(* The hardware.                                                           *)

KeyHit == /\ sent < MaxSent
          /\ sent' = sent + 1
          /\ UNCHANGED <<vars, boot, obf, irr, in_service, irq>>

\* The next byte enters the output buffer: IRQ 1 rises.
Deliver == /\ sent > 0 /\ ~obf
           /\ sent' = sent - 1
           /\ obf' = TRUE
           /\ irr' = irr \cup {1}
           /\ UNCHANGED <<vars, boot, in_service, irq>>

\* Ticks are ten milliseconds apart: none comes while one is being handled.
Pulse == /\ 0 \notin irr /\ irq.line \notin {0, 7}
         /\ irr' = irr \cup {0}
         /\ UNCHANGED <<vars, boot, sent, obf, in_service, irq>>

\* Only a line of higher priority than all in service interrupts.
Ready == {l \in irr \cap Unmasked : \A s \in in_service : l < s}
Interruptible == boot = "run" /\ irq = NoIrq /\ Ready # {}

\* The CPU asks for the vector.  A line that fell before that has none: the
\* 8259 answers 7 and puts nothing in service, or still the line latched.
\* (The timer's line falls by itself; IRQ 1 when keyboard_init read the byte.)
Accept(l) ==
    /\ Interruptible
    /\ l = Min(Ready)
    /\ irr' = irr \ {l}
    /\ \/ /\ irq' = [line |-> l, stage |-> "handler"]
          /\ in_service' = in_service \cup {l}
       \/ /\ l = 0 \/ ~obf
          /\ irq' = [line |-> 7, stage |-> "handler"]
          /\ UNCHANGED in_service
    /\ UNCHANGED <<vars, boot, sent, obf>>

----------------------------------------------------------------------------
(* irq_handler_c, entered with interrupts off.                             *)

Wakes == IF asleep THEN timer_handler_c ELSE UNCHANGED vars

HandleTimer ==
    /\ InHandler(0, "handler")
    /\ Wakes
    /\ irq' = [irq EXCEPT !.stage = "eoi"]
    /\ UNCHANGED <<boot, hardware>>

\* inb of an empty 8042 yields the last byte again.
HandleKey ==
    /\ InHandler(1, "handler")
    /\ \E key \in Keys : keyboard_handler_c(key)
    /\ obf' = FALSE
    /\ irq' = [irq EXCEPT !.stage = "eoi"]
    /\ UNCHANGED <<boot, sent, irr, in_service>>

\* Case 7: the in-service register tells a spurious interrupt, which takes
\* no EOI.  (A real IRQ 7 is masked.)
HandleSpurious ==
    /\ InHandler(7, "handler")
    /\ Wakes
    /\ irq' = IF 7 \in in_service THEN [irq EXCEPT !.stage = "eoi"] ELSE NoIrq
    /\ UNCHANGED <<boot, hardware>>

MutNoEoi ==                     \* mutant: the handler returns without an EOI
    /\ irq.stage = "eoi"
    /\ irq' = NoIrq
    /\ UNCHANGED <<vars, boot, hardware>>

\* A non-specific EOI ends the interrupt of the highest priority; iretq.
pic_send_eoi ==
    /\ irq.stage = "eoi"
    /\ in_service' = in_service \ {l \in in_service : \A s \in in_service : l <= s}
    /\ irq' = NoIrq
    /\ UNCHANGED <<vars, boot, sent, obf, irr>>

irq_handler_c == HandleTimer \/ HandleKey \/ HandleSpurious \/ pic_send_eoi

----------------------------------------------------------------------------
TaskStep == /\ boot = "run" /\ irq = NoIrq
            /\ Run
            /\ UNCHANGED <<boot, hardware, irq>>

Boot == pic_init \/ keyboard_init \/ sti

TerminalNext == \/ Boot \/ KeyHit \/ Deliver \/ Pulse \/ Accept(0) \/ Accept(1)
                \/ irq_handler_c \/ TaskStep

\* The processor goes on, in handlers too, and so do the controllers.  The
\* rest is a matter of speed: the timer, at a hundred ticks a second, leaves
\* the keyboard and the tasks some time, and nobody types so fast that
\* keyboard_init never finds the buffer empty.
TerminalSpec ==
    /\ TerminalInit /\ [][TerminalNext]_tvars
    /\ WF_tvars(Boot) /\ SF_tvars(Boot /\ boot' # boot)
    /\ WF_tvars(Accept(0)) /\ WF_tvars(irq_handler_c)
    /\ WF_tvars(Pulse) /\ WF_tvars(Deliver)
    /\ SF_tvars(Accept(1)) /\ SF_tvars(TaskStep)

----------------------------------------------------------------------------
(* Properties.                                                             *)

\* The keyboard cannot go dead: once interrupts are on, a byte in the 8042
\* has an interrupt latched or a handler about to read it, whatever was typed
\* before pic_init, between it and keyboard_init, or after.  (Without one, no
\* further byte would come, so no further edge.)
ByteIsNoticed ==
    (boot \in {"sti", "run"} /\ obf) => 1 \in irr \/ InHandler(1, "handler")

\* With both controllers between the keys and the handler, the driver still
\* behaves as Keyboard says: what is proved there holds here, and its fairness,
\* that a timer interrupt ends every hlt, is met.
ImplementsKeyboard == Spec

\* What stands on the screen before the cursor is the line that Enter would
\* evaluate, at every length: after rubouts, wraps and scrolling.  Only a
\* character rubbed out across the end of a row stays visible.
EchoLengths ==
    LET Wrong == {r \in LinesAfter(MaxEvents, {"x", "BS", "NL"}, INPUT_BUF_SIZE) :
                    ~r.crossed /\ ~Shows(r)}
    IN  {n \in 0 .. INPUT_BUF_SIZE - 1 : \A r \in Wrong : Len(r.text) # n}
EchoShowsLine == input_pos \in EchoLengths
=============================================================================
