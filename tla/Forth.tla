------------------------------- MODULE Forth --------------------------------
(***************************************************************************)
(* The Forth system of vm/core/forth.c: the outer interpreter forth_eval,  *)
(* the threaded-code inner interpreter forth_inner, the compiling words,   *)
(* LOAD, and the tasks that FORK makes, over the dictionary and the        *)
(* stacks.                                                                 *)
(*                                                                         *)
(* frames is the C call stack of the running task, outermost first: "call" *)
(* is forth_execute about to run entry xt, "inner" is forth_inner, "line"  *)
(* and "load" are forth_eval on a line and on a block, "thread" is a new   *)
(* task's forth_thread_wrapper.  The terminal is task 1; it is at its      *)
(* prompt when it has no frame.  ip, the two stacks, the parse pointer and *)
(* the dictionary are globals that all activations in all tasks share;     *)
(* tasks switch only in yield.                                             *)
(*                                                                         *)
(* Addresses of kernel functions are small numbers below the dictionary.   *)
(* The first pages of memory are mapped: what ip reads there is no entry.  *)
(***************************************************************************)
EXTENDS Numbers, Dictionary

CONSTANTS
    Primitives,     \* names register_primitives adds, in order
    Names,          \* names the user gives to new words
    Numerals,       \* words that may be numbers, with their texts
    BlockText,      \* the words in each block LOAD can read
    NoWord,         \* parse_word returned 0: the text is at its end
    Line,           \* a place in the terminal's buffer: any words may follow
    Cost,           \* of typing each word, against MaxTyped
    MaxTyped,       \* bound on the words typed at the terminal
    MaxFrames,      \* bound on the depth of the C call stack
    MaxTasks        \* bound on the tasks ever made

ASSUME BoundsAssumption == MaxTyped \in Nat /\ MaxFrames \in Nat /\ MaxTasks \in Nat \ {0}

VARIABLES
    dict,           \* the dictionary (see Dictionary)
    ds, rs, ip,
    forth_state, forth_base,
    parse_ptr,      \* the rest of the text being parsed
    frames,         \* of the running task
    cur,            \* its place in the ring of tasks
    tasks,          \* the ring: the frames of the tasks that are suspended
    fork_target_xt,
    typed,          \* cost of the words typed so far
    wild,           \* the CPU left the code (a fault, a jump into data), or a
                    \* store hit the kernel or a header
    nested,         \* history: a colon word was entered below a running one,
                    \* of the same task or of another
    lost,           \* history: a return address was dropped or never popped
    misused,        \* history: a branch was resolved that no IF left open
    borrowed,       \* history: which cells of rs were put there by >R
    expect          \* history: what the running word should leave, if defined

mode  == <<forth_state, forth_base>>
text  == <<parse_ptr, typed>>
sched == <<cur, tasks, fork_target_xt>>
hist  == <<nested, lost, misused, borrowed, expect>>
vars  == <<dict, ds, rs, ip, mode, text, frames, sched, wild, hist>>

SENTINEL_EXIT == -1000
do_colon == 1
do_variable == 2
do_constant == 3
do_literal == 4
rt_branch == 5
rt_0branch == 6
rt_do == 7
rt_loop == 8
Native == [i \in DOMAIN Primitives |-> 10 + i]      \* address of the C function

Immediates == {";", "IF", "ELSE", "THEN", "BEGIN", "UNTIL", "AGAIN", "WHILE",
               "REPEAT", "DO", "LOOP"}
Words == ToSet(Primitives) \cup Names \cup DOMAIN Numerals

register_primitives ==
    LET With[n \in 0 .. Len(Primitives)] ==
          IF n = 0 THEN dict_init
          ELSE dict_add_primitive(With[n - 1], Primitives[n], Native[n],
                                  Primitives[n] \in Immediates)
    IN  With[Len(Primitives)]

\* No primitive has a long name, and they leave room in the region, which lies
\* above the kernel's code.
ASSUME PrimitivesAssumption ==
    /\ Primitives \in Seq(STRING) /\ Primitives # <<>>
    /\ ToSet(Primitives) \cap DOMAIN First31 = {}
    /\ \A n \in ToSet(Primitives) \cup Names : Length[Stored(n)] \in Nat
    /\ register_primitives.here <= DICT_VIRT_BASE + DICT_SIZE
    /\ \A i \in DOMAIN Native : Native[i] < DICT_VIRT_BASE

\* Addresses and pids are numbers that a cell holds, and so is the mark of an
\* EXIT.
ASSUME CellsAssumption ==
    {SENTINEL_EXIT, DICT_VIRT_BASE + DICT_SIZE, MaxTasks} \subseteq Cells

ASSUME WordsAssumption ==
    /\ \A w \in Words : Cost[w] \in Nat
    /\ \A w \in DOMAIN Numerals : Numerals[w].digits \in Seq(0 .. 35)

Unknown == [known |-> FALSE, ds |-> <<>>]

Init ==
    /\ dict = register_primitives
    /\ ds = <<>>
    /\ rs = <<>>
    /\ ip = NULL
    /\ forth_state = "INTERPRET" /\ forth_base = 10
    /\ parse_ptr = Line
    /\ frames = <<>>
    /\ cur = 1
    /\ tasks = <<<<>>>>
    /\ fork_target_xt = NULL
    /\ typed = 0
    /\ wild = FALSE
    /\ nested = FALSE /\ lost = FALSE /\ misused = FALSE
    /\ borrowed = <<>>
    /\ expect = Unknown

----------------------------------------------------------------------------
(* Frames, text and tasks.                                                 *)

Call(e)     == [kind |-> "call", xt |-> e]
InnerFrame  == [kind |-> "inner"]
ThreadFrame == [kind |-> "thread"]
LineFrame   == [kind |-> "line"]
Dead        == <<[kind |-> "dead"]>>                    \* a task after task_exit
LoadFrame   == [kind |-> "load", saved |-> parse_ptr]   \* what LOAD restores

Top(kind) == frames # <<>> /\ Last(frames).kind = kind
Return(f) == Front(f)

HasInner(f) == \E i \in DOMAIN f : f[i].kind = "inner"
Alive   == {t \in DOMAIN tasks : tasks[t] # Dead}
InInner == HasInner(frames) \/ \E t \in Alive : HasInner(tasks[t])

\* parse_word at parse_ptr; at the terminal the user types any word.
parse_word ==
    LET At(w, q, n) == [word |-> w, ptr |-> q, typed |-> n]
    IN  CASE parse_ptr = Line ->
               {At(w, Line, typed + Cost[w]) : w \in {x \in Words : typed + Cost[x] <= MaxTyped}}
                 \cup {At(NoWord, Line, typed)}
          [] parse_ptr = <<>> -> {At(NoWord, <<>>, typed)}
          [] OTHER -> {At(Head(parse_ptr), Tail(parse_ptr), typed)}

\* yield, by a task that will go on with frames f (or is Dead): the next task
\* of the ring runs.
NextTask == LET n == Len(tasks)
                After(i) == ((cur + i - 1) % n) + 1
                other == {i \in 1 .. n - 1 : After(i) \in Alive}
            IN  IF other = {} THEN cur ELSE After(Min(other))
Switch(f) ==
    /\ IF NextTask = cur
       THEN frames' = f /\ UNCHANGED <<cur, tasks, expect>>
       ELSE /\ frames' = tasks[NextTask]
            /\ cur' = NextTask
            /\ tasks' = [tasks EXCEPT ![cur] = f, ![NextTask] = <<>>]
            /\ expect' = Unknown
    /\ UNCHANGED fork_target_xt

\* What a fetch reads: a cell of the dictionary, the link field of an entry,
\* or a word of low memory, which is no address in the dictionary.
FetchIn(d, a) ==
    CASE ~InRegion(a)      -> 0
      [] a \in Entries(d) -> d.hdr[a].link
      [] OTHER            -> d.mem[a]
Fetch(a) == FetchIn(dict, a)
\* The kernel, low memory and the dictionary are mapped, what follows it is not.
Mapped(a)  == a >= 0 /\ a < DICT_VIRT_BASE + DICT_SIZE
Advance(a) == IF InRegion(a) THEN a + 1 ELSE 1      \* 1: low, but not null

Room(n) == dict.here + n <= DICT_VIRT_BASE + DICT_SIZE  \* bound: HERE is not checked

----------------------------------------------------------------------------
(* What a word means: the computing primitives and literals its threaded   *)
(* code runs through, callees expanded.  A reference for forth_inner.      *)

CodeIn(d, e) == d.mem[dict_get_code_field(d, e)]
CodeOf(e)    == CodeIn(dict, e)
NativeCode   == {Native[i] : i \in DOMAIN Native}
PrimitiveOf(code) == Primitives[CHOOSE i \in DOMAIN Primitives : Native[i] = code]

Other == <<[op |-> "other"]>>
Lit(v) == <<[op |-> "literal", value |-> v]>>
Prim(w) == <<[op |-> "primitive", word |-> w]>>

\* What running a word that is no colon word does to the data stack.
SimpleOps(d, e) ==
    LET code == CodeIn(d, e)
    IN  CASE code = do_variable -> Lit(dict_get_param_field(d, e))
          [] code = do_constant -> Lit(d.mem[dict_get_param_field(d, e)])
          [] code \in NativeCode /\ PrimitiveOf(code) \in Computing -> Prim(PrimitiveOf(code))
          [] OTHER -> Other

\* The operations from address a to the EXIT that ends them, when f gives
\* those of the addresses that follow and of the words called.
OpsAt(d, f, a) ==
    LET c == FetchIn(d, a)
    IN  CASE c = SENTINEL_EXIT -> <<>>
          [] c = do_literal -> Lit(FetchIn(d, a + 1)) \o f[a + 2]
          [] c \in Entries(d) -> (IF CodeIn(d, c) = do_colon THEN f[dict_get_param_field(d, c)]
                                  ELSE SimpleOps(d, c)) \o f[a + 1]
          [] OTHER -> Other

\* A word that returns meets no address twice on its way down the calls:
\* DICT_SIZE rounds find all its operations.
Ops(d) ==
    LET Round[n \in 0 .. DICT_SIZE] ==
          [a \in DICT_VIRT_BASE .. DICT_VIRT_BASE + DICT_SIZE + 1 |->
             IF n = 0 THEN Other ELSE OpsAt(d, Round[n - 1], a)]
    IN  Round[DICT_SIZE]

OpsFrom(d, a) == IF InRegion(a) THEN Ops(d)[a] ELSE <<>>
Defined(ops)  == \A i \in DOMAIN ops : ops[i].op # "other"

Perform(s, o) == IF o.op = "literal" THEN ds_push(s, o.value) ELSE Effect(o.word, s)
Run(ops, s)   == LET After[i \in 0 .. Len(ops)] ==
                       IF i = 0 THEN s ELSE Perform(After[i - 1], ops[i])
                 IN  After[Len(ops)]

Meaning(a) == LET ops == OpsFrom(dict, a)
              IN  IF Defined(ops) THEN [known |-> TRUE, ds |-> Run(ops, ds)] ELSE Unknown

----------------------------------------------------------------------------
(* Primitives, on the call stack that remains when the C function returns. *)

\* Nothing is modelled of what the CPU does after it left the code.
Fault == wild' = TRUE /\ UNCHANGED <<dict, ds, rs, ip, mode, text, frames, sched, hist>>

\* The rest of the state when a primitive only touches dict and ds.
Quiet == /\ frames' = Return(frames)
         /\ UNCHANGED <<rs, ip, mode, text, sched, wild, hist>>

Emit(cells) == /\ Room(Len(cells))
               /\ dict' = dict_commas(dict, cells)

\* A store through an address taken from the data stack: into the dictionary,
\* or into low memory, where nothing of Forth lies.
Patchable(a) == /\ InRegion(a)
                /\ \A e \in Entries(dict) : a \notin e .. dict_get_code_field(dict, e) - 1
EmitPatch(cells, a) ==
    /\ Patchable(a)
    /\ Room(Len(cells))
    /\ dict' = [dict_commas(dict, cells) EXCEPT !.mem[a] = dict.here + Len(cells)]
    /\ misused' = (misused \/ Fetch(a - 1) \notin {rt_branch, rt_0branch} \/ Fetch(a) # 0)
    /\ frames' = Return(frames)
    /\ UNCHANGED <<rs, ip, mode, text, sched, wild, nested, lost, borrowed, expect>>
Low(a) == a >= 0 /\ a < DICT_VIRT_BASE
EmitLow(cells, a) == Low(a) /\ Emit(cells) /\ Quiet
Store(cells, a)   == EmitPatch(cells, a) \/ EmitLow(cells, a)

compute(w) ==
    /\ w \in Computing
    /\ ~Traps(w, ds)
    /\ ds' = Effect(w, ds)
    /\ UNCHANGED dict
    /\ Quiet

w_here  == ds' = ds_push(ds, dict.here) /\ UNCHANGED dict /\ Quiet
w_comma == Emit(<<ds_peek(ds)>>) /\ ds' = ds_rest(ds) /\ Quiet
w_base  == ds' = ds_push(ds, forth_base) /\ UNCHANGED dict /\ Quiet

SetBase(b) == /\ forth_base' = b
              /\ frames' = Return(frames)
              /\ UNCHANGED <<dict, ds, rs, ip, forth_state, text, sched, wild, hist>>

\* The return stack: >R, R> and R@ (I is the same function as R@).
Pushed(b) == IF Len(rs) >= RETURN_STACK_SIZE THEN borrowed ELSE Append(borrowed, b)
Popped    == IF rs = <<>> THEN borrowed ELSE Front(borrowed)
OnTop(b)  == rs # <<>> /\ Last(borrowed) = b

w_to_r ==
    /\ rs' = rs_push(rs, ds_peek(ds))
    /\ ds' = ds_rest(ds)
    /\ borrowed' = Pushed(TRUE)
    /\ frames' = Return(frames)
    /\ UNCHANGED <<dict, ip, mode, text, sched, wild, nested, lost, misused, expect>>
w_from_r ==
    /\ ds' = ds_push(ds, rs_peek(rs))
    /\ rs' = rs_rest(rs)
    /\ borrowed' = Popped
    /\ lost' = (lost \/ OnTop(FALSE))
    /\ frames' = Return(frames)
    /\ UNCHANGED <<dict, ip, mode, text, sched, wild, nested, misused, expect>>
w_r_fetch == ds' = ds_push(ds, rs_peek(rs)) /\ UNCHANGED dict /\ Quiet

MutSemicolonStays ==     \* mutant: the EXIT is stored, HERE does not move
    /\ Room(1)
    /\ dict' = [dict EXCEPT !.mem[dict.here] = SENTINEL_EXIT, !.hdr[dict.latest].hidden = FALSE]
    /\ forth_state' = "INTERPRET"
    /\ frames' = Return(frames)
    /\ UNCHANGED <<ds, rs, ip, forth_base, text, sched, wild, hist>>

w_semicolon ==
    /\ Room(1)
    /\ dict' = [dict_comma(dict, SENTINEL_EXIT) EXCEPT !.hdr[dict.latest].hidden = FALSE]
    /\ forth_state' = "INTERPRET"
    /\ frames' = Return(frames)
    /\ UNCHANGED <<ds, rs, ip, forth_base, text, sched, wild, hist>>

w_immediate ==
    /\ dict' = [dict EXCEPT !.hdr[dict.latest].immediate = ~@]
    /\ UNCHANGED ds
    /\ Quiet

w_if    == Emit(<<rt_0branch, 0>>) /\ ds' = ds_push(ds, dict.here + 1) /\ Quiet
w_while == w_if
w_begin == UNCHANGED dict /\ ds' = ds_push(ds, dict.here) /\ Quiet
w_until == Emit(<<rt_0branch, ds_peek(ds)>>) /\ ds' = ds_rest(ds) /\ Quiet
w_again == Emit(<<rt_branch, ds_peek(ds)>>) /\ ds' = ds_rest(ds) /\ Quiet
w_do    == Emit(<<rt_do>>) /\ ds' = ds_push(ds, dict.here + 1) /\ Quiet
w_loop  == Emit(<<rt_loop, ds_peek(ds)>>) /\ ds' = ds_rest(ds) /\ Quiet

w_then   == Store(<<>>, ds_peek(ds)) /\ ds' = ds_rest(ds)
w_else   == /\ Store(<<rt_branch, 0>>, ds_peek(ds))
            /\ ds' = ds_push(ds_rest(ds), dict.here + 1)
w_repeat == /\ Store(<<rt_branch, ds_pick(ds, 1)>>, ds_peek(ds))
            /\ ds' = Drops(ds, 2)

\* THEN, ELSE and REPEAT store through whatever the stack holds.  Above the
\* region and below 0 that faults; a header is overwritten; low memory may be
\* the kernel's code and data, but not at NULL, which an empty stack gives.
\* And a division can trap.
WildStore(w) == LET a == ds_peek(ds)
                IN  w \in {"THEN", "ELSE", "REPEAT"} /\ ~Patchable(a) /\ a # NULL
runaway(w) == (WildStore(w) \/ Traps(w, ds)) /\ Fault

----------------------------------------------------------------------------
(* Words that parse the text after them.                                   *)

Parsing(p) == /\ parse_ptr' = p.ptr
              /\ typed' = p.typed
              /\ frames' = Return(frames)
              /\ UNCHANGED <<rs, ip, forth_base, sched, wild, hist>>

\* : CREATE VARIABLE CONSTANT, with the name next in the text (the
\* new name is one of Names: a bound).
Named(p) == p.word \in Names /\ Room(HeaderCells(p.word) + 2)

MutColonVisible(p) ==    \* mutant: the new entry is not hidden
    /\ Named(p)
    /\ dict' = dict_set_code(dict_create(dict, p.word, FALSE, FALSE), do_colon)
    /\ forth_state' = "COMPILE"
    /\ UNCHANGED ds

w_colon(p) ==
    /\ Named(p)
    /\ dict' = dict_set_code(dict_create(dict, p.word, FALSE, TRUE), do_colon)
    /\ forth_state' = "COMPILE"
    /\ UNCHANGED ds
w_create(p) ==
    /\ Named(p)
    /\ dict' = dict_set_code(dict_create(dict, p.word, FALSE, FALSE), do_variable)
    /\ UNCHANGED <<ds, forth_state>>
w_constant(p) ==
    /\ Named(p)
    /\ dict' = dict_comma(dict_set_code(dict_create(dict, p.word, FALSE, FALSE),
                                        do_constant), ds_peek(ds))
    /\ ds' = ds_rest(ds)
    /\ UNCHANGED forth_state
\* VARIABLE compiles its cell even when CREATE found no name.
w_variable(p) ==
    /\ IF p.word = NoWord THEN Room(1) ELSE Named(p)
    /\ dict' = dict_comma(IF p.word = NoWord THEN dict
                          ELSE dict_set_code(dict_create(dict, p.word, FALSE, FALSE),
                                             do_variable), 0)
    /\ UNCHANGED <<ds, forth_state>>
w_tick(p) ==
    /\ p.word # NoWord
    /\ ds' = LET e == dict_find(dict, p.word)
             IN  IF e = NULL THEN ds ELSE ds_push(ds, e)
    /\ UNCHANGED <<dict, forth_state>>

NoName(p) == p.word = NoWord /\ UNCHANGED <<dict, ds, forth_state>>

parsing(w) ==
    \E p \in parse_word :
        /\ Parsing(p)
        /\ \/ w = ":" /\ (w_colon(p) \/ NoName(p))
           \/ w = "CREATE" /\ (w_create(p) \/ NoName(p))
           \/ w = "CONSTANT" /\ (w_constant(p) \/ NoName(p))
           \/ w = "VARIABLE" /\ w_variable(p)
           \/ w = "'" /\ (w_tick(p) \/ NoName(p))

\* EXECUTE calls forth_execute on the address popped.
w_execute ==
    /\ Len(frames) < MaxFrames
    /\ ds' = ds_rest(ds)
    /\ frames' = Append(Return(frames), Call(ds_peek(ds)))
    /\ UNCHANGED <<dict, rs, ip, mode, text, sched, wild, hist>>

\* LOAD evaluates a copy of the block's text on its C stack, then parsing goes
\* on where it was.  (Bound: not while a LOAD of another task is suspended,
\* whose copy may be gone when this one's end goes back to it.)
w_load ==
    /\ Len(frames) < MaxFrames
    /\ \A t \in Alive : \A i \in DOMAIN tasks[t] : tasks[t][i].kind # "load"
    /\ ds' = ds_rest(ds)
    /\ frames' = Append(Return(frames), LoadFrame)
    /\ parse_ptr' = IF ds_peek(ds) \in DOMAIN BlockText THEN BlockText[ds_peek(ds)] ELSE <<>>
    /\ UNCHANGED <<dict, rs, ip, mode, typed, sched, wild, hist>>

\* FORK leaves the execution token in the one fork_target_xt; the new task
\* comes last in the ring.  (Process 0 is the terminal, 1 the background
\* worker, which touches nothing of this.)
w_fork ==
    /\ Len(tasks) < MaxTasks
    /\ fork_target_xt' = ds_peek(ds)
    /\ tasks' = Append(tasks, <<ThreadFrame>>)
    /\ ds' = ds_push(ds_rest(ds), Len(tasks) + 1)
    /\ frames' = Return(frames)
    /\ UNCHANGED <<dict, rs, ip, mode, text, cur, wild, hist>>

w_yield ==
    /\ Switch(Return(frames))
    /\ UNCHANGED <<dict, ds, rs, ip, mode, text, wild, nested, lost, misused, borrowed>>

native(w) ==
    \/ compute(w)
    \/ runaway(w)
    \/ parsing(w)
    \/ w = ";" /\ w_semicolon
    \/ w = "IMMEDIATE" /\ w_immediate
    \/ w = "EXECUTE" /\ w_execute
    \/ w = "LOAD" /\ w_load
    \/ w = "FORK" /\ w_fork
    \/ w = "YIELD" /\ w_yield
    \/ w = "HERE" /\ w_here
    \/ w = "," /\ w_comma
    \/ w = "BASE" /\ w_base
    \/ w = "HEX" /\ SetBase(16)
    \/ w = "DECIMAL" /\ SetBase(10)
    \/ w = ">R" /\ w_to_r
    \/ w = "R>" /\ w_from_r
    \/ w \in {"R@", "I"} /\ w_r_fetch
    \/ w = "IF" /\ w_if
    \/ w = "ELSE" /\ w_else
    \/ w = "THEN" /\ w_then
    \/ w = "BEGIN" /\ w_begin
    \/ w = "UNTIL" /\ w_until
    \/ w = "AGAIN" /\ w_again
    \/ w = "WHILE" /\ w_while
    \/ w = "REPEAT" /\ w_repeat
    \/ w = "DO" /\ w_do
    \/ w = "LOOP" /\ w_loop

----------------------------------------------------------------------------
(* forth_execute and forth_inner.                                          *)

Executable(e) == /\ e \in Entries(dict)
                 /\ CodeOf(e) \in NativeCode \cup {do_colon, do_variable, do_constant}

\* Enter a colon word from return address r: DOCOL.
Docol(e, r) ==
    /\ rs' = rs_push(rs, r)
    /\ ip' = dict_get_param_field(dict, e)
    /\ borrowed' = Pushed(FALSE)
    /\ lost' = (lost \/ Len(rs) >= RETURN_STACK_SIZE)

\* The entry in the top frame is run: the non-colon cases are the same code
\* in forth_execute and in forth_inner.
forth_execute ==
    /\ Top("call")
    /\ LET e == Last(frames).xt
           Value(v) == ds' = ds_push(ds, v) /\ UNCHANGED dict /\ Quiet
       IN  \/ ~Executable(e) /\ Fault
           \/ /\ Executable(e)
              /\ CodeOf(e) = do_colon
              /\ Docol(e, ip)
              /\ frames' = Append(Return(frames), InnerFrame)
              /\ nested' = (nested \/ InInner)
              /\ expect' = IF InInner THEN expect ELSE Meaning(dict_get_param_field(dict, e))
              /\ UNCHANGED <<dict, ds, mode, text, sched, wild, misused>>
           \/ /\ Executable(e)
              /\ CodeOf(e) = do_variable
              /\ Value(dict_get_param_field(dict, e))
           \/ /\ Executable(e)
              /\ CodeOf(e) = do_constant
              /\ Value(dict.mem[dict_get_param_field(dict, e)])
           \/ /\ Executable(e)
              /\ CodeOf(e) \in NativeCode
              /\ native(PrimitiveOf(CodeOf(e)))

MutExitPeeks ==          \* mutant: the return address is read, not popped
    /\ Fetch(ip) = SENTINEL_EXIT
    /\ ip' = rs_peek(rs)
    /\ frames' = IF rs_peek(rs) = NULL THEN Return(frames) ELSE frames
    /\ UNCHANGED <<dict, ds, rs, mode, text, sched, wild, hist>>

\* One turn of forth_inner's loop on the cell at ip.
InnerExit ==
    /\ Fetch(ip) = SENTINEL_EXIT
    /\ rs' = rs_rest(rs)
    /\ borrowed' = Popped
    /\ lost' = (lost \/ OnTop(TRUE))
    /\ ip' = rs_peek(rs)
    /\ frames' = IF rs_peek(rs) = NULL THEN Return(frames) ELSE frames
    /\ UNCHANGED <<dict, ds, mode, text, sched, wild, nested, misused, expect>>

MutLiteralUnfetched ==   \* mutant: the cell before the literal is pushed
    /\ Fetch(ip) = do_literal
    /\ ds' = ds_push(ds, Fetch(ip))
    /\ ip' = Advance(Advance(ip))
    /\ UNCHANGED <<dict, rs, mode, text, frames, sched, wild, hist>>

InnerLiteral ==
    /\ Fetch(ip) = do_literal
    /\ Mapped(Advance(ip))
    /\ ds' = ds_push(ds, Fetch(Advance(ip)))
    /\ ip' = Advance(Advance(ip))
    /\ UNCHANGED <<dict, rs, mode, text, frames, sched, wild, hist>>

\* "Invalid word address!": the activation returns, ip and rs stay as they are.
InnerInvalid ==
    /\ Mapped(ip)
    /\ Fetch(ip) \notin {SENTINEL_EXIT, do_literal}
    /\ ~InRegion(Fetch(ip))
    /\ ip' = Advance(ip)
    /\ frames' = Return(frames)
    /\ lost' = (lost \/ InRegion(ip))
    /\ UNCHANGED <<dict, ds, rs, mode, text, sched, wild, nested, misused, borrowed, expect>>

InnerWord ==
    /\ InRegion(Fetch(ip))
    /\ LET e == Fetch(ip)
       IN  IF Executable(e) /\ CodeOf(e) = do_colon
           THEN /\ Docol(e, Advance(ip))
                /\ UNCHANGED frames
           ELSE /\ frames' = Append(frames, Call(e))
                /\ ip' = Advance(ip)
                /\ UNCHANGED <<rs, lost, borrowed>>
    /\ UNCHANGED <<dict, ds, mode, text, sched, wild, nested, misused, expect>>

\* A fetch faults: EXIT took its address from >R, or the code runs past the end
\* of the region.  Or it reads a cell of low memory where a store left HERE.
InnerFault ==
    /\ \/ ~InRegion(ip)
       \/ Fetch(ip) = do_literal /\ ~Mapped(Advance(ip))
    /\ Fault

forth_inner ==
    /\ Top("inner")
    /\ InnerExit \/ InnerLiteral \/ InnerInvalid \/ InnerWord \/ InnerFault

----------------------------------------------------------------------------
(* forth_eval: one word of the text at a time.                             *)

EvalReturn(p) == /\ frames' = Return(frames)
                 /\ parse_ptr' = IF Top("load") THEN Last(frames).saved ELSE p.ptr

forth_eval ==
    /\ Top("line") \/ Top("load")
    /\ \E p \in parse_word :
        LET e == dict_find(dict, p.word)
            compiling == forth_state = "COMPILE"
            number == IF p.word \in DOMAIN Numerals
                      THEN try_parse_number(Numerals[p.word], forth_base)
                      ELSE [ok |-> FALSE]
        IN  /\ typed' = p.typed
            /\ expect' = Unknown
            /\ \/ /\ e # NULL
                  /\ compiling /\ ~dict.hdr[e].immediate
                  /\ Emit(<<e>>)
                  /\ parse_ptr' = p.ptr
                  /\ UNCHANGED <<ds, frames, forth_state>>
               \/ /\ e # NULL
                  /\ ~compiling \/ dict.hdr[e].immediate
                  /\ parse_ptr' = p.ptr
                  /\ frames' = Append(frames, Call(e))
                  /\ UNCHANGED <<dict, ds, forth_state>>
               \/ /\ e = NULL /\ number.ok
                  /\ IF compiling
                     THEN Emit(<<do_literal, number.value>>) /\ UNCHANGED ds
                     ELSE ds' = ds_push(ds, number.value) /\ UNCHANGED dict
                  /\ parse_ptr' = p.ptr
                  /\ UNCHANGED <<frames, forth_state>>
               \/ /\ e = NULL /\ ~number.ok /\ p.word # NoWord
                  /\ forth_state' = "INTERPRET"
                  /\ EvalReturn(p)
                  /\ UNCHANGED <<dict, ds>>
               \/ /\ p.word = NoWord
                  /\ EvalReturn(p)
                  /\ UNCHANGED <<dict, ds, forth_state>>
    /\ UNCHANGED <<rs, ip, forth_base, sched, wild, nested, lost, misused, borrowed>>

----------------------------------------------------------------------------
(* The terminal's loop and the life of a forked task.                      *)

forth_run ==
    /\ cur = 1 /\ frames = <<>>
    /\ \/ /\ frames' = <<LineFrame>>            \* a line was entered
          /\ parse_ptr' = Line
          /\ UNCHANGED <<typed, sched, expect>>
       \/ Switch(<<>>) /\ UNCHANGED text        \* no key yet
    /\ UNCHANGED <<dict, ds, rs, ip, mode, wild, nested, lost, misused, borrowed>>

forth_thread_wrapper ==
    /\ Top("thread")
    /\ frames' = IF fork_target_xt = NULL THEN <<>> ELSE <<Call(fork_target_xt)>>
    /\ UNCHANGED <<dict, ds, rs, ip, mode, text, sched, wild, hist>>

task_exit ==
    /\ cur # 1 /\ frames = <<>>
    /\ Switch(Dead)
    /\ UNCHANGED <<dict, ds, rs, ip, mode, text, wild, nested, lost, misused, borrowed>>

Next == ~wild /\ \/ forth_execute \/ forth_inner \/ forth_eval
                 \/ forth_run \/ forth_thread_wrapper \/ task_exit

Spec == Init /\ [][Next]_vars

----------------------------------------------------------------------------
(* Properties.                                                             *)

TypeOK ==
    /\ \A e \in Entries(dict) : dict_get_code_field(dict, e) \in DICT_VIRT_BASE .. dict.here
    /\ dict.latest \in Entries(dict)
    /\ Room(0)
    /\ \A i \in DOMAIN ds : ds[i] \in Cells
    /\ Len(ds) <= DATA_STACK_SIZE
    /\ Len(rs) <= RETURN_STACK_SIZE
    /\ Len(borrowed) = Len(rs)
    /\ forth_state \in {"INTERPRET", "COMPILE"}
    /\ forth_base \in Bases
    /\ \A i \in DOMAIN frames : frames[i].kind \in {"call", "inner", "line", "load", "thread"}
    /\ cur \in Alive
    /\ typed \in 0 .. MaxTyped

\* The entries of the words the user named.
Own == {e \in Entries(dict) : dict.hdr[e].as \in Names}
Owner(a) == Max({e \in Entries(dict) : e <= a})     \* the entry a lies in
VisibleColon(e) == ~dict.hdr[e].hidden /\ CodeOf(e) = do_colon

\* A colon word that FIND returns is finished: its body holds the EXIT that
\* brings forth_inner back, and ends the loop of SEE.  (w_colon hides the
\* entry until w_semicolon.)  Not so once THEN, ELSE or REPEAT overwrote a
\* cell that IF or WHILE had not left for it: they store through any address,
\* at the prompt too.
VisibleTerminated ==
    ~misused => \A e \in Own :
        VisibleColon(e) =>
            \E a \in dict_get_param_field(dict, e) .. dict.here - 1 :
                /\ dict.mem[a] = SENTINEL_EXIT
                /\ Owner(a) = e

\* When no task is in threaded code, no return address is left on the return
\* stack, whatever the words EXECUTEd, LOADed, FORKed or defined and wherever
\* tasks switched, unless one was lost on the way: to a full stack, to R> or
\* EXIT taking a cell that was not theirs, to an invalid cell.  And ip is null,
\* which makes the next word's EXIT end its forth_inner, unless a colon word
\* was entered while another was running.
PromptClean == (~InInner /\ ~lost /\ ~wild) =>
                   /\ \A i \in DOMAIN rs : borrowed[i]
                   /\ nested \/ ip = NULL

\* The operations still to be done for the callers on the return stack, the
\* innermost first, and for the call under way.
CallerOps(d, r, b) ==
    LET Below[n \in 0 .. Len(r)] ==
          IF n = 0 THEN <<>>
          ELSE (IF b[n] THEN <<>> ELSE OpsFrom(d, r[n])) \o Below[n - 1]
    IN  Below[Len(r)]
Remaining == IF InInner THEN OpsFrom(dict, ip) \o CallerOps(dict, rs, borrowed) ELSE <<>>
Pending   == IF Top("call") THEN SimpleOps(dict, Last(frames).xt) ELSE <<>>

\* Threaded code computes what its definition says: from the call of a word to
\* its end, or to the first switch of tasks, at every turn of forth_inner what
\* is left to do from ip and the return stack leads from the current data stack
\* to the one the word's meaning gives.
ThreadedMeaning ==
    (expect.known /\ ~lost /\ ~wild) => Run(Pending \o Remaining, ds) = expect.ds

\* Binding is static: what a word that FIND can return means never changes
\* afterwards, whatever is defined, redefined or compiled behind it.
MeaningStable ==
    [][(dict' # dict /\ ~misused') => \A e \in Own :
         LET ops == OpsFrom(dict, dict_get_param_field(dict, e))
         IN  (VisibleColon(e) /\ Defined(ops)) =>
                 OpsFrom(dict, dict_get_param_field(dict, e))' = ops]_vars

\* A name finds the newest finished word that was given this name, or a long
\* one that begins with it: an unfinished definition is not found by its own
\* body.  A name of more than 31 characters finds nothing, though a word was
\* given it.
FindsItsName ==
    \A n \in Names :
        LET given == {e \in Own : /\ ~dict.hdr[e].hidden
                                  /\ n \in {dict.hdr[e].as, Stored(dict.hdr[e].as)}}
        IN  dict_find(dict, n) = IF given = {} \/ n \in DOMAIN First31 THEN NULL ELSE Max(given)

\* Printing and parsing agree: try_parse_number, in the base the interpreter is
\* in, reads the text of every number printed in that base as the same number,
\* the most negative cell and negative numbers in hexadecimal included.  In
\* forth_base print . (by ltoa) and U. (by ultoa); STATUS and LOAD always print
\* in base 10 (itoa), DUMP always in 16 (utoa).  (forth_eval asks
\* try_parse_number only about a word that dict_find does not find: a word
\* named A takes precedence over ten in hexadecimal.)
FaithfulBases ==
    {base \in Bases :
        /\ \A v \in Cells : Same(ltoa(v, base), base, v) /\ Same(ultoa(v, base), base, v)
        /\ base = 10 => \A v \in Ints : Same(itoa(v, base), base, v)
        /\ base = 16 => \A v \in Ints : Same(utoa(v, base), base, v % TwoTo(IntWidth))}
PrintedReadsBack == forth_base \in FaithfulBases

----------------------------------------------------------------------------
(* What comments in vm/stack/stack.c say of ip.                            *)

\* "IP points to the next cell in the parameter field to execute": whenever
\* forth_inner fetches, ip is in the dictionary.
IpInWord == (Top("inner") /\ ~wild /\ ~lost) => InRegion(ip)

\* "NEXT: fetch the cell at *IP, advance IP, jump to it": no cell that the
\* compiling words left in a body is refused by forth_inner.
NextJumps ==
    (Top("inner") /\ ~wild /\ InRegion(ip)) =>
        Fetch(ip) \in {SENTINEL_EXIT, do_literal} \/ InRegion(Fetch(ip))
=============================================================================
