----------------------------- MODULE Dictionary -----------------------------
(***************************************************************************)
(* The word dictionary of vm/dictionary/dictionary.c, as operators on its  *)
(* state d: the header of each entry, the cells written behind headers,    *)
(* dict_here and dict_latest.  Addresses count 8-byte cells.  A header is  *)
(* the link, a byte of flags and length, and the name, rounded up to whole *)
(* cells; the code field follows it, then the parameter field.             *)
(*                                                                         *)
(* A name stands for all its spellings in upper and lower case.            *)
(***************************************************************************)
EXTENDS Integers, Sequences

CONSTANTS DICT_VIRT_BASE, DICT_SIZE,    \* in cells
          First31,      \* of each name longer than 31 characters, the first 31
          Length        \* characters of each name stored

ASSUME RegionAssumption == /\ DICT_VIRT_BASE \in Nat \ {0}
                           /\ DICT_SIZE \in Nat \ {0}
ASSUME First31Assumption == \A n \in DOMAIN First31 : First31[n] \notin DOMAIN First31

NULL == 0

\* The name an entry keeps, and the cells of the header that holds it.
Stored(name)      == IF name \in DOMAIN First31 THEN First31[name] ELSE name
HeaderCells(name) == (8 + 1 + Length[Stored(name)] + 7) \div 8
InRegion(a) == a >= DICT_VIRT_BASE /\ a < DICT_VIRT_BASE + DICT_SIZE

\* dict_init clears the region.
dict_init == [hdr    |-> <<>>,
              mem    |-> [a \in DICT_VIRT_BASE .. DICT_VIRT_BASE + DICT_SIZE - 1 |-> 0],
              here   |-> DICT_VIRT_BASE,
              latest |-> NULL]

Entries(d) == DOMAIN d.hdr

\* dict_comma and dict_set_code both write a cell at HERE: HERE is aligned.
dict_comma(d, v) == [d EXCEPT !.mem[d.here] = v, !.here = @ + 1]
dict_set_code(d, fn) == dict_comma(d, fn)

\* dict_comma of each of the cells in turn.
dict_commas(d, cells) ==
    [d EXCEPT !.mem = [a \in DOMAIN @ |-> IF a \in d.here .. d.here + Len(cells) - 1
                                          THEN cells[a - d.here + 1] ELSE @[a]],
              !.here = @ + Len(cells)]

\* The header only: the caller writes the code field.  (as is not in the
\* code: the name as it was given.)
dict_create(d, name, immediate, hidden) ==
    [d EXCEPT
       !.hdr = [e \in DOMAIN @ \cup {d.here} |->
                  IF e = d.here
                  THEN [link |-> d.latest, name |-> Stored(name), as |-> name,
                        immediate |-> immediate, hidden |-> hidden]
                  ELSE @[e]],
       !.here = @ + HeaderCells(name),
       !.latest = d.here]

dict_add_primitive(d, name, fn, immediate) ==
    dict_set_code(dict_create(d, name, immediate, FALSE), fn)

dict_get_code_field(d, e)  == e + HeaderCells(d.hdr[e].name)
dict_get_param_field(d, e) == dict_get_code_field(d, e) + 1

MutFindHidden(d, name) ==   \* mutant: hidden entries are found too
    LET Walk[e \in DOMAIN d.hdr \cup {NULL}] ==
          IF e = NULL \/ d.hdr[e].name = name THEN e ELSE Walk[d.hdr[e].link]
    IN  Walk[d.latest]

\* The search walks the links from LATEST, past hidden entries.  It compares
\* the length of the whole name with the length stored: a long name differs
\* from every stored one.
dict_find(d, name) ==
    LET Walk[e \in DOMAIN d.hdr \cup {NULL}] ==
          IF e = NULL THEN NULL
          ELSE IF d.hdr[e].name = name /\ ~d.hdr[e].hidden THEN e
          ELSE Walk[d.hdr[e].link]
    IN  Walk[d.latest]
=============================================================================
