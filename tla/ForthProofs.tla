---------------------------- MODULE ForthProofs -----------------------------
(***************************************************************************)
(* The dictionary, the return stack, what threaded code computes, the      *)
(* texts of numbers and the types of the state, for every text, every set  *)
(* of names, every number of tasks and every width of a cell.              *)
(***************************************************************************)
EXTENDS Forth, NumberProofs

Region    == DICT_VIRT_BASE .. DICT_VIRT_BASE + DICT_SIZE - 1
CodeAddrs == DICT_VIRT_BASE .. DICT_VIRT_BASE + DICT_SIZE

----------------------------------------------------------------------------
(* The invariant of a dictionary d.                                        *)

\* d has its parts, and HERE is in the region or at its end.
Shaped(d) ==
    /\ d = [hdr |-> d.hdr, mem |-> d.mem, here |-> d.here, latest |-> d.latest]
    /\ d.mem = [a \in Region |-> d.mem[a]]
    /\ d.here \in CodeAddrs
    /\ Entries(d) \subseteq Region
    /\ d.hdr = [e \in Entries(d) |->
                  [link |-> d.hdr[e].link, name |-> d.hdr[e].name, as |-> d.hdr[e].as,
                   immediate |-> d.hdr[e].immediate, hidden |-> d.hdr[e].hidden]]

\* A header ends before its code field, which is followed by HERE or by the
\* next header.
Placed(d) ==
    \A e \in Entries(d) :
        /\ dict_get_code_field(d, e) \in e + 1 .. d.here - 1
        /\ \A f \in Entries(d) : e < f => dict_get_code_field(d, e) < f

\* The links lead from LATEST, the newest entry, through all of them.
Linked(d) ==
    /\ d.latest \in Entries(d) \cup {NULL}
    /\ \A e \in Entries(d) :
        /\ e <= d.latest
        /\ d.hdr[e].link \in Entries(d) \cup {NULL}
        /\ d.hdr[e].link < e
        /\ \A f \in Entries(d) : f < e => f <= d.hdr[e].link

KeepsNames(d) ==
    \A e \in Entries(d) : /\ d.hdr[e].as \in ToSet(Primitives) \cup Names
                          /\ d.hdr[e].name = Stored(d.hdr[e].as)

DictInv(d) == Shaped(d) /\ Placed(d) /\ Linked(d) /\ KeepsNames(d)

\* The body of a visible colon word holds an EXIT.
Ended(d) ==
    \A e \in Entries(d) :
        (~d.hdr[e].hidden /\ d.mem[dict_get_code_field(d, e)] = do_colon) =>
            \E a \in dict_get_code_field(d, e) + 1 .. d.here - 1 :
                /\ d.mem[a] = SENTINEL_EXIT
                /\ \A f \in Entries(d) : f <= a => f <= e

\* Nothing is written at HERE or above: at most THEN left HERE itself there.
Blank(d) ==
    \A a \in Region : d.here <= a => d.mem[a] = 0 \/ (a = d.here /\ d.mem[a] = a)

\* A constant has its cell.
Filled(d) ==
    \A e \in Entries(d) :
        CodeIn(d, e) = do_constant => /\ dict_get_param_field(d, e) < d.here
                                      /\ dict_get_param_field(d, e) \notin Entries(d)

Sound(d) == Ended(d) /\ Blank(d) /\ Filled(d)

----------------------------------------------------------------------------
(* The invariant of the tasks and of the return stack.                     *)

\* A thread frame is the outermost one.
IsStack(f) ==
    /\ IsSeq(f)
    /\ \A i \in DOMAIN f : \/ f[i].kind \in {"call", "inner", "line", "load"}
                           \/ f[i].kind = "thread" /\ i = 1

TasksInv ==
    /\ IsSeq(tasks)
    /\ cur \in DOMAIN tasks
    /\ tasks[cur] = <<>>
    /\ tasks[1] # Dead
    /\ \A t \in DOMAIN tasks : tasks[t] = Dead \/ IsStack(tasks[t])
    /\ IsStack(frames)

\* The activations of forth_inner, in all tasks.
InnerAt(f) == {i \in DOMAIN f : f[i].kind = "inner"}
StackOf(t) == IF t = cur THEN frames ELSE tasks[t]
Inners     == {p \in Alive \X Nat : p[2] \in InnerAt(StackOf(p[1]))}

Flags == /\ wild \in BOOLEAN /\ nested \in BOOLEAN /\ lost \in BOOLEAN /\ misused \in BOOLEAN
         /\ borrowed \in Seq(BOOLEAN)
         /\ IsSeq(rs) /\ Len(rs) = Len(borrowed)

\* The cells of rs that hold return addresses, and what goes with them.
Returns == {i \in DOMAIN rs : ~borrowed[i]}
Threaded ==
    /\ ip \in Int
    /\ \A i \in Returns : rs[i] \in Int
    /\ \A i, j \in Returns : j < i => rs[i] \in CodeAddrs
    /\ Returns # {} => ip \in CodeAddrs /\ Inners # {}
    /\ Inners = {} => ~InRegion(ip)

\* While no colon word was entered below a running one.
Single ==
    /\ \A p, q \in Inners : p = q
    /\ Inners = {} => ip = NULL
    /\ Inners # {} => \E i \in Returns : rs[i] = NULL

ReturnInv == (~lost /\ ~wild) => Threaded /\ (nested \/ Single)

IInv == /\ DictInv(dict)
        /\ ~misused => Sound(dict)
        /\ TasksInv /\ Flags /\ ReturnInv
----------------------------------------------------------------------------
(* Operations on a dictionary.                                             *)

LEMMA HeaderSize ==
  ASSUME NEW n \in ToSet(Primitives) \cup Names
  PROVE  HeaderCells(n) \in Nat /\ HeaderCells(n) >= 2 /\ HeaderCells(Stored(n)) = HeaderCells(n)
<1>1. Length[Stored(n)] \in Nat
  BY PrimitivesAssumption
<1>2. Stored(Stored(n)) = Stored(n)
  BY First31Assumption DEF Stored
<1> QED BY <1>1, <1>2 DEF HeaderCells

LEMMA CommaIs ==
  ASSUME NEW d, NEW v, NEW c, c = dict_comma(d, v), Shaped(d), d.here \in Region
  PROVE  /\ Shaped(c)
         /\ c.hdr = d.hdr /\ c.latest = d.latest /\ c.here = d.here + 1
         /\ c.mem[d.here] = v
         /\ \A a \in Region : a # d.here => c.mem[a] = d.mem[a]
<1>1. d = [hdr |-> d.hdr, mem |-> d.mem, here |-> d.here, latest |-> d.latest]
  BY DEF Shaped
<1>2. c = [hdr |-> d.hdr, mem |-> [d.mem EXCEPT ![d.here] = v], here |-> d.here + 1, latest |-> d.latest]
  BY <1>1 DEF dict_comma
<1>3. d.mem = [a \in Region |-> d.mem[a]]
  BY DEF Shaped
<1>4. c.mem = [a \in Region |-> IF a = d.here THEN v ELSE d.mem[a]]
  BY <1>2, <1>3
<1>5. c.here \in CodeAddrs
  BY <1>2, RegionAssumption DEF Region, CodeAddrs
<1>6. c.mem = [a \in Region |-> c.mem[a]]
  BY <1>4
<1>7. c = [hdr |-> c.hdr, mem |-> c.mem, here |-> c.here, latest |-> c.latest] /\ c.hdr = d.hdr
  BY <1>2
<1>8. Shaped(c)
  BY <1>5, <1>6, <1>7 DEF Shaped, Entries
<1> QED BY <1>2, <1>4, <1>8

LEMMA CommasIs ==
  ASSUME NEW d, NEW cells, NEW c, c = dict_commas(d, cells), Shaped(d),
         Len(cells) \in Nat, d.here + Len(cells) <= DICT_VIRT_BASE + DICT_SIZE
  PROVE  /\ Shaped(c)
         /\ c.hdr = d.hdr /\ c.latest = d.latest /\ c.here = d.here + Len(cells)
         /\ \A a \in Region : a < d.here \/ c.here <= a => c.mem[a] = d.mem[a]
<1>1. d = [hdr |-> d.hdr, mem |-> d.mem, here |-> d.here, latest |-> d.latest] /\ d.here \in Int
  BY RegionAssumption DEF Shaped, CodeAddrs
<1> DEFINE m == [a \in DOMAIN d.mem |-> IF a \in d.here .. d.here + Len(cells) - 1
                                        THEN cells[a - d.here + 1] ELSE d.mem[a]]
<1>2. c = [hdr |-> d.hdr, mem |-> m, here |-> d.here + Len(cells), latest |-> d.latest]
  BY <1>1 DEF dict_commas
<1>3. DOMAIN d.mem = Region
  BY DEF Shaped
<1>4. \A a \in Region : a < d.here \/ d.here + Len(cells) <= a => m[a] = d.mem[a]
  BY <1>1, <1>3 DEF Region
<1>5. c.here \in CodeAddrs
  BY <1>1, <1>2, RegionAssumption DEF Shaped, CodeAddrs
<1>6. m = [a \in Region |-> m[a]]
  BY <1>3
<1> HIDE DEF m
<1>7. /\ c = [hdr |-> c.hdr, mem |-> c.mem, here |-> c.here, latest |-> c.latest]
      /\ c.hdr = d.hdr /\ c.mem = m
  BY <1>2
<1>8. Shaped(c)
  BY <1>5, <1>6, <1>7 DEF Shaped, Entries
<1> QED BY <1>2, <1>4, <1>8

\* The cell at a is overwritten.
Stores(d, c, a, v) ==
    /\ Shaped(c)
    /\ c.hdr = d.hdr /\ c.latest = d.latest /\ c.here = d.here
    /\ a \in Region => c.mem[a] = v
    /\ \A b \in Region : b # a => c.mem[b] = d.mem[b]

LEMMA StoreIs ==
  ASSUME NEW d, NEW a, NEW v, NEW c, c = [d EXCEPT !.mem[a] = v], Shaped(d)
  PROVE  Stores(d, c, a, v)
<1>1. d = [hdr |-> d.hdr, mem |-> d.mem, here |-> d.here, latest |-> d.latest]
  BY DEF Shaped
<1>2. c = [hdr |-> d.hdr, mem |-> [d.mem EXCEPT ![a] = v], here |-> d.here, latest |-> d.latest]
  BY <1>1
<1>3. d.mem = [b \in Region |-> d.mem[b]]
  BY DEF Shaped
<1>4. c.mem = [b \in Region |-> IF b = a THEN v ELSE d.mem[b]]
  BY <1>2, <1>3
<1>6. c.mem = [b \in Region |-> c.mem[b]]
  BY <1>4
<1>7. /\ c = [hdr |-> c.hdr, mem |-> c.mem, here |-> c.here, latest |-> c.latest]
      /\ c.hdr = d.hdr /\ c.here = d.here
  BY <1>2
<1>8. Shaped(c)
  BY <1>6, <1>7 DEF Shaped, Entries
<1> QED BY <1>2, <1>4, <1>8 DEF Stores

\* The flags of one header are changed: IMMEDIATE and ; do that to LATEST.
Flagged(d, c, e) ==
    /\ Shaped(c)
    /\ Entries(c) = Entries(d) /\ c.mem = d.mem /\ c.here = d.here /\ c.latest = d.latest
    /\ \A f \in Entries(d) : /\ c.hdr[f].link = d.hdr[f].link
                             /\ c.hdr[f].name = d.hdr[f].name
                             /\ c.hdr[f].as = d.hdr[f].as
                             /\ f # e => c.hdr[f] = d.hdr[f]

LEMMA FlagIs ==
  ASSUME NEW d, NEW e, NEW i, NEW h, NEW new, NEW c, Shaped(d), c = [d EXCEPT !.hdr[e] = new],
         e \in Entries(d) => new = [link |-> d.hdr[e].link, name |-> d.hdr[e].name,
                                   as |-> d.hdr[e].as, immediate |-> i, hidden |-> h]
  PROVE  Flagged(d, c, e)
<1>1. d = [hdr |-> d.hdr, mem |-> d.mem, here |-> d.here, latest |-> d.latest]
  BY DEF Shaped
<1>2. c = [hdr |-> [d.hdr EXCEPT ![e] = new], mem |-> d.mem, here |-> d.here, latest |-> d.latest]
  BY <1>1
<1>3. d.hdr = [f \in Entries(d) |-> d.hdr[f]]
  BY DEF Shaped, Entries
<1>4. c.hdr = [f \in Entries(d) |-> IF f = e THEN new ELSE d.hdr[f]]
  BY <1>2, <1>3
<1>5. Entries(c) = Entries(d)
  BY <1>4 DEF Entries
<1>6. ASSUME NEW f \in Entries(d)
      PROVE  /\ c.hdr[f].link = d.hdr[f].link
             /\ c.hdr[f].name = d.hdr[f].name
             /\ c.hdr[f].as = d.hdr[f].as
             /\ f # e => c.hdr[f] = d.hdr[f]
             /\ c.hdr[f] = [link |-> c.hdr[f].link, name |-> c.hdr[f].name, as |-> c.hdr[f].as,
                            immediate |-> c.hdr[f].immediate, hidden |-> c.hdr[f].hidden]
  <2>1. d.hdr[f] = [link |-> d.hdr[f].link, name |-> d.hdr[f].name, as |-> d.hdr[f].as,
                    immediate |-> d.hdr[f].immediate, hidden |-> d.hdr[f].hidden]
    BY DEF Shaped
  <2>2. CASE f = e
    <3>1. c.hdr[f] = new
      BY <1>4, <2>2
    <3> QED BY <2>2, <3>1
  <2>3. CASE f # e
    <3>1. c.hdr[f] = d.hdr[f]
      BY <1>4, <2>3
    <3> QED BY <2>1, <2>3, <3>1
  <2> QED BY <2>2, <2>3
<1>7. c.hdr = [f \in Entries(c) |->
                  [link |-> c.hdr[f].link, name |-> c.hdr[f].name, as |-> c.hdr[f].as,
                   immediate |-> c.hdr[f].immediate, hidden |-> c.hdr[f].hidden]]
  BY <1>4, <1>5, <1>6
<1>8. /\ c = [hdr |-> c.hdr, mem |-> c.mem, here |-> c.here, latest |-> c.latest]
      /\ c.mem = d.mem /\ c.here = d.here /\ c.latest = d.latest
  BY <1>2
<1>9. Shaped(c)
  BY <1>5, <1>7, <1>8, Zenon DEF Shaped
<1> QED BY <1>5, <1>6, <1>8, <1>9 DEF Flagged

LEMMA HideIs ==
  ASSUME NEW d, NEW e, NEW h, NEW c, Shaped(d), c = [d EXCEPT !.hdr[e].hidden = h]
  PROVE  Flagged(d, c, e)
<1> DEFINE new == [d.hdr[e] EXCEPT !.hidden = h]
<1>1. d = [hdr |-> d.hdr, mem |-> d.mem, here |-> d.here, latest |-> d.latest]
  BY DEF Shaped
<1>2. c = [d EXCEPT !.hdr[e] = new]
  BY <1>1
<1>3. ASSUME e \in Entries(d)
      PROVE  new = [link |-> d.hdr[e].link, name |-> d.hdr[e].name, as |-> d.hdr[e].as,
                    immediate |-> d.hdr[e].immediate, hidden |-> h]
  <2>1. d.hdr[e] = [link |-> d.hdr[e].link, name |-> d.hdr[e].name, as |-> d.hdr[e].as,
                    immediate |-> d.hdr[e].immediate, hidden |-> d.hdr[e].hidden]
    BY <1>3 DEF Shaped
  <2> QED BY <2>1
<1> HIDE DEF new
<1> QED BY <1>2, <1>3, FlagIs

SameHidden(d, c) == \A f \in Entries(d) : c.hdr[f].hidden = d.hdr[f].hidden

LEMMA ImmediateIs ==
  ASSUME NEW d, NEW e, NEW v, NEW c, Shaped(d), c = [d EXCEPT !.hdr[e].immediate = v]
  PROVE  Flagged(d, c, e) /\ SameHidden(d, c)
<1> DEFINE new == [d.hdr[e] EXCEPT !.immediate = v]
<1>1. d = [hdr |-> d.hdr, mem |-> d.mem, here |-> d.here, latest |-> d.latest]
  BY DEF Shaped
<1>2. c = [d EXCEPT !.hdr[e] = new]
  BY <1>1
<1>3. ASSUME e \in Entries(d)
      PROVE  new = [link |-> d.hdr[e].link, name |-> d.hdr[e].name, as |-> d.hdr[e].as,
                    immediate |-> v, hidden |-> d.hdr[e].hidden]
  <2>1. d.hdr[e] = [link |-> d.hdr[e].link, name |-> d.hdr[e].name, as |-> d.hdr[e].as,
                    immediate |-> d.hdr[e].immediate, hidden |-> d.hdr[e].hidden]
    BY <1>3 DEF Shaped
  <2> QED BY <2>1
<1> HIDE DEF new
<1>4. Flagged(d, c, e)
  BY <1>2, <1>3, FlagIs
<1>5. e \in Entries(d) => c.hdr[e] = new
  BY <1>1, <1>2 DEF Entries
<1>6. e \in Entries(d) => c.hdr[e].hidden = d.hdr[e].hidden
  BY <1>3, <1>5
<1> QED BY <1>4, <1>6 DEF Flagged, SameHidden

LEMMA CreateIs ==
  ASSUME NEW d, NEW n, NEW i, NEW h, NEW c, c = dict_create(d, n, i, h), Shaped(d),
         n \in ToSet(Primitives) \cup Names,
         d.here + HeaderCells(n) <= DICT_VIRT_BASE + DICT_SIZE
  PROVE  /\ Shaped(c)
         /\ d.here \in Region
         /\ Entries(c) = Entries(d) \cup {d.here} /\ c.latest = d.here
         /\ c.hdr[d.here] = [link |-> d.latest, name |-> Stored(n), as |-> n,
                             immediate |-> i, hidden |-> h]
         /\ \A e \in Entries(d) : e # d.here => c.hdr[e] = d.hdr[e]
         /\ c.mem = d.mem
         /\ c.here = d.here + HeaderCells(n)
<1>1. d = [hdr |-> d.hdr, mem |-> d.mem, here |-> d.here, latest |-> d.latest] /\ d.here \in CodeAddrs
  BY DEF Shaped
<1> DEFINE new == [link |-> d.latest, name |-> Stored(n), as |-> n, immediate |-> i, hidden |-> h]
           hs == [e \in Entries(d) \cup {d.here} |-> IF e = d.here THEN new ELSE d.hdr[e]]
<1>2. c = [hdr |-> hs, mem |-> d.mem, here |-> d.here + HeaderCells(n), latest |-> d.here]
  BY <1>1 DEF dict_create, Entries
<1>3. HeaderCells(n) \in Nat /\ HeaderCells(n) >= 2
  BY HeaderSize
<1>4. d.here \in Region /\ c.here \in CodeAddrs
  BY <1>1, <1>2, <1>3, RegionAssumption DEF Region, CodeAddrs
<1>5. Entries(c) = Entries(d) \cup {d.here}
  BY <1>2 DEF Entries
<1>6. \A e \in Entries(c) : c.hdr[e] = IF e = d.here THEN new ELSE d.hdr[e]
  BY <1>2, <1>5
<1>7. ASSUME NEW e \in Entries(c)
      PROVE  c.hdr[e] = [link |-> c.hdr[e].link, name |-> c.hdr[e].name, as |-> c.hdr[e].as,
                         immediate |-> c.hdr[e].immediate, hidden |-> c.hdr[e].hidden]
  <2>1. CASE e = d.here
    BY <1>6, <2>1
  <2>2. CASE e # d.here
    <3>1. e \in Entries(d) /\ c.hdr[e] = d.hdr[e]
      BY <1>5, <1>6, <2>2
    <3>2. d.hdr[e] = [link |-> d.hdr[e].link, name |-> d.hdr[e].name, as |-> d.hdr[e].as,
                      immediate |-> d.hdr[e].immediate, hidden |-> d.hdr[e].hidden]
      BY <3>1 DEF Shaped
    <3> QED BY <3>1, <3>2
  <2> QED BY <2>1, <2>2
<1>8. c.hdr = [e \in Entries(c) |-> c.hdr[e]]
  <2>1. c.hdr = hs
    BY <1>2
  <2> QED BY <1>5, <2>1
<1>9. c.hdr = [e \in Entries(c) |->
                  [link |-> c.hdr[e].link, name |-> c.hdr[e].name, as |-> c.hdr[e].as,
                   immediate |-> c.hdr[e].immediate, hidden |-> c.hdr[e].hidden]]
  BY <1>7, <1>8
<1>10. /\ c = [hdr |-> c.hdr, mem |-> c.mem, here |-> c.here, latest |-> c.latest]
       /\ c.mem = d.mem /\ c.here = d.here + HeaderCells(n) /\ c.latest = d.here
  BY <1>2
<1>11. Shaped(c)
  BY <1>4, <1>5, <1>9, <1>10 DEF Shaped
<1>12. d.here \in Entries(c) /\ c.hdr[d.here] = new
  BY <1>5, <1>6
<1> QED BY <1>4, <1>5, <1>6, <1>10, <1>11, <1>12
----------------------------------------------------------------------------
(* What the words do to a dictionary, and what that keeps.                 *)

\* No entry is new: cells are written, flags change.
Extends(d, c) ==
    /\ Shaped(c)
    /\ Entries(c) = Entries(d) /\ c.latest = d.latest /\ d.here <= c.here
    /\ \A e \in Entries(d) : /\ c.hdr[e].link = d.hdr[e].link
                             /\ c.hdr[e].name = d.hdr[e].name
                             /\ c.hdr[e].as = d.hdr[e].as

\* Below HERE only branches left open are patched, and an entry becomes visible
\* only together with an EXIT.
Keeps(d, c) ==
    /\ \A a \in Region : a < d.here => \/ c.mem[a] = d.mem[a]
                                       \/ /\ d.mem[a] = 0 /\ c.mem[a] \in CodeAddrs
                                          /\ FetchIn(d, a - 1) \in {rt_branch, rt_0branch}
    /\ \A a \in Region : c.here <= a => \/ c.mem[a] = d.mem[a]
                                        \/ /\ c.mem[a] = c.here
                                           /\ FetchIn(d, a - 1) \in {rt_branch, rt_0branch}
    /\ \A e \in Entries(d) : \/ c.hdr[e].hidden = d.hdr[e].hidden
                             \/ e = d.latest /\ d.here < c.here /\ c.mem[d.here] = SENTINEL_EXIT

\* An entry of name n is new, with its code field.
Adds(d, c, n) ==
    /\ Shaped(c)
    /\ n \in ToSet(Primitives) \cup Names
    /\ Entries(c) = Entries(d) \cup {d.here} /\ c.latest = d.here
    /\ d.here + HeaderCells(n) < c.here
    /\ \A e \in Entries(d) : e # d.here => c.hdr[e] = d.hdr[e]
    /\ c.hdr[d.here].link = d.latest /\ c.hdr[d.here].name = Stored(n) /\ c.hdr[d.here].as = n
    /\ \A a \in Region : a < d.here \/ c.here <= a => c.mem[a] = d.mem[a]
    /\ c.hdr[d.here].hidden \/ c.mem[d.here + HeaderCells(n)] # do_colon

\* If the new entry is a constant, it has its cell.
Fills(d, c) == CodeIn(c, d.here) = do_constant => dict_get_param_field(c, d.here) < c.here

LEMMA ExtendsKeeps ==
  ASSUME NEW d, NEW c, DictInv(d), Extends(d, c)
  PROVE  DictInv(c)
<1>1. \A e \in Entries(d) : dict_get_code_field(c, e) = dict_get_code_field(d, e)
  BY DEF Extends, dict_get_code_field
<1>2. d.here \in Int /\ c.here \in Int /\ \A e \in Entries(d) : e \in Int
  BY RegionAssumption DEF DictInv, Extends, Shaped, CodeAddrs, Region
<1>3. Placed(c)
  BY <1>1, <1>2 DEF DictInv, Placed, Extends
<1>4. Linked(c)
  BY DEF DictInv, Linked, Extends
<1>5. KeepsNames(c)
  BY DEF DictInv, KeepsNames, Extends
<1> QED BY <1>3, <1>4, <1>5 DEF DictInv, Extends

LEMMA ExtendsEnded ==
  ASSUME NEW d, NEW c, DictInv(d), Extends(d, c), Keeps(d, c), Ended(d)
  PROVE  Ended(c)
<1>1. SUFFICES ASSUME NEW e \in Entries(d), ~c.hdr[e].hidden,
                      c.mem[dict_get_code_field(c, e)] = do_colon
               PROVE  \E a \in dict_get_code_field(c, e) + 1 .. c.here - 1 :
                        /\ c.mem[a] = SENTINEL_EXIT
                        /\ \A f \in Entries(d) : f <= a => f <= e
  BY DEF Ended, Extends
<1> DEFINE cf == dict_get_code_field(d, e)
<1>2. dict_get_code_field(c, e) = cf
  BY DEF Extends, dict_get_code_field
<1>3. /\ d.here \in CodeAddrs /\ c.here \in CodeAddrs /\ d.here <= c.here
      /\ Entries(d) \subseteq Region /\ cf \in e + 1 .. d.here - 1
  BY DEF DictInv, Extends, Shaped, Placed
<1>4. cf \in Region /\ cf < d.here
  BY <1>3, RegionAssumption DEF CodeAddrs, Region
<1> HIDE DEF cf
<1>5. do_colon \notin CodeAddrs /\ SENTINEL_EXIT # 0
  <2>1. Native[1] = 11 /\ 1 \in DOMAIN Native
    BY PrimitivesAssumption DEF Native
  <2>2. 11 < DICT_VIRT_BASE
    BY <2>1, PrimitivesAssumption
  <2> QED BY <2>2, RegionAssumption DEF do_colon, CodeAddrs, SENTINEL_EXIT
<1>6. d.mem[cf] = do_colon
  BY <1>1, <1>2, <1>4, <1>5 DEF Keeps
<1>7. CASE c.hdr[e].hidden = d.hdr[e].hidden
  <2>1. PICK a \in cf + 1 .. d.here - 1 : /\ d.mem[a] = SENTINEL_EXIT
                                          /\ \A f \in Entries(d) : f <= a => f <= e
    BY <1>1, <1>6, <1>7 DEF Ended, cf
  <2>2. a \in Region /\ a < d.here /\ a \in cf + 1 .. c.here - 1
    BY <1>3, <1>4, RegionAssumption DEF CodeAddrs, Region
  <2>3. c.mem[a] = SENTINEL_EXIT
    BY <1>5, <2>1, <2>2 DEF Keeps
  <2> QED BY <1>2, <2>1, <2>2, <2>3
<1>8. CASE e = d.latest /\ d.here < c.here /\ c.mem[d.here] = SENTINEL_EXIT
  <2>1. d.here \in cf + 1 .. c.here - 1
    BY <1>3, <1>4, <1>8, RegionAssumption DEF CodeAddrs, Region
  <2>2. \A f \in Entries(d) : f <= e
    BY <1>8 DEF DictInv, Linked
  <2> QED BY <1>2, <1>8, <2>1, <2>2
<1> QED BY <1>7, <1>8 DEF Keeps

LEMMA AddsKeeps ==
  ASSUME NEW d, NEW c, NEW n, DictInv(d), Adds(d, c, n)
  PROVE  DictInv(c)
<1> DEFINE h == d.here
<1>1. /\ h \in Int /\ h >= DICT_VIRT_BASE /\ c.here \in Int /\ Entries(d) \subseteq Int
      /\ DICT_VIRT_BASE \in Nat \ {0} /\ \A e \in Entries(d) : e >= DICT_VIRT_BASE
  <2>1. Shaped(d) /\ Shaped(c)
    BY DEF DictInv, Adds
  <2>2. h \in CodeAddrs /\ c.here \in CodeAddrs /\ Entries(d) \subseteq Region
    BY <2>1 DEF Shaped
  <2> HIDE DEF h
  <2> QED BY <2>2, RegionAssumption DEF CodeAddrs, Region
<1>2. \A e \in Entries(d) : dict_get_code_field(d, e) \in e + 1 .. h - 1
  BY DEF DictInv, Placed
<1>3. \A e \in Entries(d) : e < h
  BY <1>1, <1>2
<1>4. \A e \in Entries(d) : c.hdr[e] = d.hdr[e]
  BY <1>1, <1>3 DEF Adds
<1>5. \A e \in Entries(d) : dict_get_code_field(c, e) = dict_get_code_field(d, e)
  BY <1>4 DEF dict_get_code_field
<1>6. HeaderCells(n) \in Nat /\ HeaderCells(n) >= 2 /\ HeaderCells(Stored(n)) = HeaderCells(n)
  BY HeaderSize DEF Adds
<1>7. dict_get_code_field(c, h) = h + HeaderCells(n) /\ h + HeaderCells(n) < c.here
  BY <1>6 DEF dict_get_code_field, Adds
<1>8. Entries(c) = Entries(d) \cup {h}
  BY DEF Adds
<1> HIDE DEF h
<1>9. Placed(c)
  <2>1. ASSUME NEW e \in Entries(c) PROVE dict_get_code_field(c, e) \in e + 1 .. c.here - 1
    BY <1>1, <1>2, <1>5, <1>6, <1>7, <1>8
  <2>2. ASSUME NEW e \in Entries(c), NEW f \in Entries(c), e < f PROVE dict_get_code_field(c, e) < f
    <3>1. e \in Entries(d)
      BY <1>1, <1>3, <1>8, <2>2
    <3>2. CASE f = h
      BY <1>1, <1>2, <1>5, <3>1, <3>2
    <3>3. CASE f \in Entries(d)
      BY <1>5, <2>2, <3>1, <3>3 DEF DictInv, Placed
    <3> QED BY <1>8, <3>2, <3>3
  <2> QED BY <2>1, <2>2 DEF Placed
<1>10. Linked(c)
  <2>1. /\ d.latest \in Entries(d) \cup {NULL}
        /\ \A e \in Entries(d) : e <= d.latest
    BY DEF DictInv, Linked
  <2>2. c.latest = h /\ c.hdr[h].link = d.latest
    BY DEF Adds, h
  <2>3. d.latest < h
    BY <1>1, <1>3, <2>1 DEF NULL
  <2>4. ASSUME NEW e \in Entries(c)
        PROVE  /\ e <= c.latest
               /\ c.hdr[e].link \in Entries(c) \cup {NULL}
               /\ c.hdr[e].link < e
               /\ \A f \in Entries(c) : f < e => f <= c.hdr[e].link
    <3>1. CASE e = h
      BY <1>1, <1>8, <2>1, <2>2, <2>3, <3>1
    <3>2. CASE e \in Entries(d)
      <4>1. /\ d.hdr[e].link \in Entries(d) \cup {NULL} /\ d.hdr[e].link < e
            /\ \A f \in Entries(d) : f < e => f <= d.hdr[e].link
        BY <3>2 DEF DictInv, Linked
      <4>2. c.hdr[e].link = d.hdr[e].link /\ e < h
        BY <1>3, <1>4, <3>2
      <4> QED BY <1>1, <1>8, <2>2, <3>2, <4>1, <4>2
    <3> QED BY <1>8, <3>1, <3>2
  <2> QED BY <1>8, <2>2, <2>4 DEF Linked
<1>11. KeepsNames(c)
  <2>1. c.hdr[h].name = Stored(n) /\ c.hdr[h].as = n /\ n \in ToSet(Primitives) \cup Names
    BY DEF Adds, h
  <2> QED BY <1>4, <1>8, <2>1 DEF DictInv, KeepsNames
<1> QED BY <1>9, <1>10, <1>11 DEF DictInv, Adds

LEMMA AddsEnded ==
  ASSUME NEW d, NEW c, NEW n, DictInv(d), Adds(d, c, n), Ended(d)
  PROVE  Ended(c)
<1> DEFINE h == d.here
<1>1. h \in CodeAddrs /\ c.here \in Int /\ Entries(d) \subseteq Region /\ Entries(c) = Entries(d) \cup {h}
  <2>1. Shaped(d) /\ Shaped(c) /\ Entries(c) = Entries(d) \cup {h}
    BY DEF DictInv, Adds
  <2>2. h \in CodeAddrs /\ c.here \in CodeAddrs /\ Entries(d) \subseteq Region
    BY <2>1 DEF Shaped
  <2> HIDE DEF h
  <2> QED BY <2>1, <2>2, RegionAssumption DEF CodeAddrs
<1>2. HeaderCells(n) \in Nat /\ HeaderCells(Stored(n)) = HeaderCells(n) /\ h + HeaderCells(n) < c.here
  BY HeaderSize DEF Adds
<1>3. ASSUME NEW e \in Entries(d), ~c.hdr[e].hidden, c.mem[dict_get_code_field(c, e)] = do_colon
      PROVE  \E a \in dict_get_code_field(c, e) + 1 .. c.here - 1 :
                 c.mem[a] = SENTINEL_EXIT /\ \A f \in Entries(c) : f <= a => f <= e
  <2> DEFINE cf == dict_get_code_field(d, e)
  <2>1. cf \in e + 1 .. h - 1
    BY DEF DictInv, Placed
  <2>2. cf \in Region /\ cf < h /\ e < h /\ e # h
    BY <1>1, <2>1, RegionAssumption DEF CodeAddrs, Region
  <2>3. c.hdr[e] = d.hdr[e]
    BY <2>2 DEF Adds
  <2>4. dict_get_code_field(c, e) = cf
    BY <2>3 DEF dict_get_code_field
  <2> HIDE DEF cf
  <2>5. d.mem[cf] = do_colon /\ ~d.hdr[e].hidden
    BY <1>3, <2>2, <2>3, <2>4 DEF Adds
  <2>6. PICK a \in cf + 1 .. h - 1 : d.mem[a] = SENTINEL_EXIT /\ \A f \in Entries(d) : f <= a => f <= e
    BY <2>5 DEF Ended, cf
  <2>7. a \in Region /\ a < h /\ a \in cf + 1 .. c.here - 1 /\ ~(h <= a)
    BY <1>1, <1>2, <2>2, RegionAssumption DEF CodeAddrs, Region
  <2>8. c.mem[a] = SENTINEL_EXIT
    BY <2>6, <2>7 DEF Adds
  <2> QED BY <1>1, <2>4, <2>6, <2>7, <2>8
<1>4. ASSUME ~c.hdr[h].hidden, c.mem[dict_get_code_field(c, h)] = do_colon
      PROVE  FALSE
  <2>1. dict_get_code_field(c, h) = h + HeaderCells(n)
    BY <1>2 DEF dict_get_code_field, Adds
  <2> QED BY <1>4, <2>1 DEF Adds
<1> QED BY <1>1, <1>3, <1>4 DEF Ended

\* The kernel's functions lie below the dictionary.
LEMMA Above == 11 < DICT_VIRT_BASE
<1>1. Native[1] = 11 /\ 1 \in DOMAIN Native
  BY PrimitivesAssumption DEF Native
<1> QED BY <1>1, PrimitivesAssumption

\* A fetch reads a small number from a cell only.
LEMMA FetchSmall ==
  ASSUME NEW d, NEW x \in Int, DictInv(d), FetchIn(d, x) # 0, FetchIn(d, x) < DICT_VIRT_BASE
  PROVE  x \in Region /\ x \notin Entries(d) /\ FetchIn(d, x) = d.mem[x]
<1>1. Entries(d) \subseteq Region
  BY DEF DictInv, Shaped
<1>2. \A e \in Entries(d) : e \in Int /\ InRegion(e) /\ ~(e < DICT_VIRT_BASE)
  BY <1>1, RegionAssumption DEF Region, InRegion
<1>3. InRegion(x)
  BY <1>2 DEF FetchIn
<1>4. x \notin Entries(d)
  <2>1. SUFFICES ASSUME x \in Entries(d) PROVE FALSE
    OBVIOUS
  <2>2. FetchIn(d, x) = d.hdr[x].link
    BY <1>3, <2>1 DEF FetchIn
  <2>3. d.hdr[x].link \in Entries(d) \cup {NULL}
    BY <2>1 DEF DictInv, Linked
  <2> QED BY <1>2, <2>2, <2>3 DEF NULL
<1>5. x \in Region
  BY <1>3, RegionAssumption DEF InRegion, Region
<1> QED BY <1>3, <1>4, <1>5 DEF FetchIn

LEMMA ExtendsSound ==
  ASSUME NEW d, NEW c, DictInv(d), Extends(d, c), Keeps(d, c), Sound(d)
  PROVE  Sound(c)
<1>1. Ended(c)
  BY ExtendsEnded DEF Sound
<1>2. d.here \in CodeAddrs /\ c.here \in CodeAddrs /\ d.here <= c.here /\ Entries(c) = Entries(d)
  BY DEF DictInv, Extends, Shaped
<1>3. d.here \in Int /\ c.here \in Int
  BY <1>2, RegionAssumption DEF CodeAddrs
<1>4. ASSUME NEW a \in Region, c.here <= a PROVE c.mem[a] = 0 \/ (a = c.here /\ c.mem[a] = a)
  <2>1. a \in Int /\ a - 1 \in Int
    BY RegionAssumption DEF Region
  <2>2. CASE c.mem[a] = d.mem[a]
    BY <1>2, <1>3, <1>4, <2>1, <2>2 DEF Sound, Blank
  <2>3. CASE c.mem[a] = c.here /\ FetchIn(d, a - 1) \in {rt_branch, rt_0branch}
    <3> DEFINE x == a - 1
    <3>1. FetchIn(d, x) \in {5, 6} /\ x \in Int
      BY <2>1, <2>3 DEF rt_branch, rt_0branch
    <3> HIDE DEF x
    <3>2. x \in Region /\ FetchIn(d, x) = d.mem[x]
      BY <3>1, FetchSmall, Above, RegionAssumption
    <3>3. ~(d.here <= x)
      BY <3>1, <3>2, Above, RegionAssumption DEF Sound, Blank, Region
    <3>4. a = c.here
      BY <1>2, <1>3, <1>4, <2>1, <3>1, <3>3 DEF x
    <3> QED BY <2>3, <3>4
  <2> QED BY <1>4, <2>2, <2>3 DEF Keeps
<1>5. ASSUME NEW e \in Entries(d), CodeIn(c, e) = do_constant
      PROVE  dict_get_param_field(c, e) < c.here /\ dict_get_param_field(c, e) \notin Entries(d)
  <2> DEFINE cf == dict_get_code_field(d, e)
  <2>1. dict_get_code_field(c, e) = cf
    BY DEF Extends, dict_get_code_field
  <2>2. cf \in e + 1 .. d.here - 1 /\ e \in Region
    BY DEF DictInv, Placed, Shaped
  <2> HIDE DEF cf
  <2>3. cf \in Region /\ cf < d.here /\ cf \in Int
    BY <1>2, <2>2, RegionAssumption DEF CodeAddrs, Region
  <2>4. do_constant \notin CodeAddrs
    BY Above, RegionAssumption DEF CodeAddrs, do_constant
  <2>5. d.mem[cf] = do_constant
    BY <1>5, <2>1, <2>3, <2>4 DEF Keeps, CodeIn
  <2>6. CodeIn(d, e) = do_constant
    BY <2>5 DEF CodeIn, cf
  <2>7. dict_get_param_field(d, e) < d.here /\ dict_get_param_field(d, e) \notin Entries(d)
    BY <2>6 DEF Sound, Filled
  <2>8. dict_get_param_field(c, e) = cf + 1 /\ dict_get_param_field(d, e) = cf + 1
    BY <2>1 DEF dict_get_param_field, cf
  <2> QED BY <1>2, <1>3, <2>3, <2>7, <2>8
<1> QED BY <1>1, <1>2, <1>4, <1>5 DEF Sound, Blank, Filled

LEMMA AddsSound ==
  ASSUME NEW d, NEW c, NEW n, DictInv(d), Adds(d, c, n), Fills(d, c), Sound(d)
  PROVE  Sound(c)
<1> DEFINE h == d.here
<1>1. Ended(c)
  BY AddsEnded DEF Sound
<1>2. /\ h \in CodeAddrs /\ c.here \in CodeAddrs /\ Entries(d) \subseteq Region
      /\ Entries(c) = Entries(d) \cup {h} /\ HeaderCells(n) \in Nat
      /\ h + HeaderCells(n) < c.here /\ HeaderCells(Stored(n)) = HeaderCells(n)
  BY HeaderSize DEF DictInv, Adds, Shaped
<1>3. \A e \in Entries(d) : dict_get_code_field(d, e) \in e + 1 .. h - 1
  BY DEF DictInv, Placed
<1>4. dict_get_param_field(c, h) = h + HeaderCells(n) + 1
  BY <1>2 DEF dict_get_param_field, dict_get_code_field, Adds
<1>5. ASSUME NEW a \in Region, c.here <= a PROVE c.mem[a] = 0
  <2>1. c.mem[a] = d.mem[a]
    BY <1>5 DEF Adds
  <2> HIDE DEF h
  <2>2. h <= a /\ a # h
    BY <1>2, <1>5, RegionAssumption DEF CodeAddrs, Region
  <2> QED BY <2>1, <2>2 DEF Sound, Blank, h
<1>6. ASSUME NEW e \in Entries(d), CodeIn(c, e) = do_constant
      PROVE  dict_get_param_field(c, e) < c.here /\ dict_get_param_field(c, e) \notin Entries(c)
  <2> DEFINE cf == dict_get_code_field(d, e)
             pf == dict_get_param_field(d, e)
  <2>1. cf \in e + 1 .. h - 1 /\ e \in Region
    BY <1>2, <1>3
  <2>2. cf \in Region /\ cf < h /\ e # h
    <3> HIDE DEF h, cf
    <3> QED BY <1>2, <2>1, RegionAssumption DEF CodeAddrs, Region
  <2>3. c.hdr[e] = d.hdr[e]
    BY <2>2 DEF Adds
  <2>4. dict_get_code_field(c, e) = cf /\ dict_get_param_field(c, e) = pf
    BY <2>3 DEF dict_get_param_field, dict_get_code_field
  <2>5. d.mem[cf] = do_constant
    BY <1>6, <2>2, <2>4 DEF Adds, CodeIn
  <2>6. pf < h /\ pf \notin Entries(d)
    BY <2>5 DEF Sound, Filled, CodeIn
  <2>7. pf \in Int
    <3>1. pf = cf + 1
      BY DEF dict_get_param_field
    <3> HIDE DEF pf, cf
    <3> QED BY <2>2, <3>1, RegionAssumption DEF Region
  <2> HIDE DEF h, cf, pf
  <2> QED BY <1>2, <2>4, <2>6, <2>7, RegionAssumption DEF CodeAddrs
<1>7. ASSUME CodeIn(c, h) = do_constant
      PROVE  dict_get_param_field(c, h) < c.here /\ dict_get_param_field(c, h) \notin Entries(c)
  <2>1. dict_get_param_field(c, h) < c.here
    BY <1>7 DEF Fills
  <2> DEFINE pf == dict_get_param_field(c, h)
  <2>2. pf = h + HeaderCells(n) + 1
    BY <1>4
  <2> HIDE DEF pf, h
  <2>3. pf > h /\ pf \in Int /\ h \in Int
    BY <1>2, <2>2, RegionAssumption DEF CodeAddrs
  <2>4. \A e \in Entries(d) : e < h /\ e \in Int
    BY <1>2, <1>3, <2>3, RegionAssumption DEF Region
  <2>5. pf \notin Entries(c)
    BY <1>2, <2>3, <2>4
  <2> QED BY <2>1, <2>5 DEF pf
<1> HIDE DEF h
<1> QED BY <1>1, <1>2, <1>5, <1>6, <1>7 DEF Sound, Blank, Filled
----------------------------------------------------------------------------
(* What FIND returns.                                                      *)

Matches(d, n, e) == d.hdr[e].name = n /\ ~d.hdr[e].hidden
Matching(d, n)   == {e \in Entries(d) : Matches(d, n, e)}

\* The function that dict_find defines, and what it is.
IsWalk(d, n, w) ==
    w = [e \in Entries(d) \cup {NULL} |-> IF e = NULL THEN NULL
                                         ELSE IF Matches(d, n, e) THEN e ELSE w[d.hdr[e].link]]
UpTo(d, n, e)   == {f \in Matching(d, n) : f <= e}
Newest(T)       == IF T = {} THEN NULL ELSE Max(T)

LEMMA FindWalks ==
  ASSUME NEW d, NEW n
  PROVE  dict_find(d, n) = (CHOOSE w : IsWalk(d, n, w))[d.latest]
  BY DEF dict_find, IsWalk, Matches, Entries

LEMMA NewestSteps ==
  ASSUME NEW d, NEW n, DictInv(d)
  PROVE  /\ Newest(UpTo(d, n, NULL)) = NULL
         /\ \A e \in Entries(d) :
              Newest(UpTo(d, n, e)) = IF Matches(d, n, e) THEN e ELSE Newest(UpTo(d, n, d.hdr[e].link))
<1>1. \A e \in Entries(d) : e \in Int /\ e > NULL
  BY RegionAssumption DEF DictInv, Shaped, Region, NULL
<1>2. UpTo(d, n, NULL) = {}
  BY <1>1 DEF UpTo, Matching, NULL
<1>3. ASSUME NEW e \in Entries(d), Matches(d, n, e) PROVE Newest(UpTo(d, n, e)) = e
  <2>1. e \in UpTo(d, n, e) /\ UpTo(d, n, e) \in SUBSET Int /\ \A f \in UpTo(d, n, e) : f <= e
    BY <1>1, <1>3 DEF UpTo, Matching
  <2>2. Max(UpTo(d, n, e)) = e
    BY <2>1, MaxIs
  <2> QED BY <2>1, <2>2 DEF Newest
<1>4. ASSUME NEW e \in Entries(d), ~Matches(d, n, e)
      PROVE  UpTo(d, n, e) = UpTo(d, n, d.hdr[e].link)
  <2>1. /\ d.hdr[e].link \in Entries(d) \cup {NULL} /\ d.hdr[e].link < e
        /\ \A f \in Entries(d) : f < e => f <= d.hdr[e].link
    BY DEF DictInv, Linked
  <2>2. d.hdr[e].link \in Int /\ e \in Int
    BY <1>1, <2>1 DEF NULL
  <2>3. \A f \in Matching(d, n) : f \in Entries(d) /\ f \in Int /\ f # e
    BY <1>1, <1>4 DEF Matching
  <2>4. \A f \in Matching(d, n) : f <= e <=> f <= d.hdr[e].link
    BY <2>1, <2>2, <2>3
  <2> QED BY <2>4 DEF UpTo
<1> QED BY <1>2, <1>3, <1>4 DEF Newest

\* dict_find returns the newest visible entry of the name.
LEMMA FindIs ==
  ASSUME NEW d, NEW n, DictInv(d)
  PROVE  dict_find(d, n) = Newest(Matching(d, n))
<1> DEFINE E == Entries(d) \cup {NULL}
           A(e) == Newest(UpTo(d, n, e))
           g == [e \in E |-> A(e)]
<1>1. /\ A(NULL) = NULL
      /\ \A e \in Entries(d) : A(e) = IF Matches(d, n, e) THEN e ELSE A(d.hdr[e].link)
  BY NewestSteps
<1>2. /\ \A e \in Entries(d) : d.hdr[e].link \in E /\ d.hdr[e].link < e
      /\ d.latest \in E /\ \A e \in Entries(d) : e <= d.latest
  BY DEF DictInv, Linked
<1>3. E \subseteq Nat /\ NULL \in E /\ \A e \in Entries(d) : e # NULL
  BY RegionAssumption DEF DictInv, Shaped, Region, NULL
<1> HIDE DEF A
<1>4. IsWalk(d, n, g)
  <2>1. ASSUME NEW e \in E
        PROVE  A(e) = IF e = NULL THEN NULL ELSE IF Matches(d, n, e) THEN e ELSE g[d.hdr[e].link]
    BY <1>1, <1>2, <1>3
  <2> QED BY <2>1 DEF IsWalk
<1> DEFINE w == CHOOSE v : IsWalk(d, n, v)
<1>5. IsWalk(d, n, w)
  BY <1>4
<1> HIDE DEF w
<1>6. \A e \in E : w[e] = IF e = NULL THEN NULL ELSE IF Matches(d, n, e) THEN e ELSE w[d.hdr[e].link]
  BY <1>5 DEF IsWalk
<1>7. \A e \in E : w[e] = A(e)
  <2> DEFINE Bad == {e \in E : w[e] # A(e)}
  <2>1. SUFFICES ASSUME Bad # {} PROVE FALSE
    OBVIOUS
  <2>2. Bad \subseteq Nat
    BY <1>3
  <2>3. PICK e \in Bad : \A f \in Bad : e <= f
    <3> HIDE DEF Bad
    <3> QED BY <2>1, <2>2, Smallest
  <2>4. e \in Entries(d) /\ e \in Nat /\ e # NULL
    BY <1>1, <1>3, <1>6
  <2>5. d.hdr[e].link \in E /\ d.hdr[e].link < e /\ d.hdr[e].link \in Nat
    BY <1>2, <1>3, <2>4
  <2>6. d.hdr[e].link \notin Bad
    BY <2>3, <2>4, <2>5
  <2>7. w[d.hdr[e].link] = A(d.hdr[e].link)
    BY <2>5, <2>6
  <2>8. w[e] = A(e)
    BY <1>1, <1>6, <2>4, <2>7
  <2> QED BY <2>8
<1>8. dict_find(d, n) = w[d.latest]
  BY FindWalks DEF w
<1>9. UpTo(d, n, d.latest) = Matching(d, n)
  BY <1>2 DEF UpTo, Matching
<1> QED BY <1>2, <1>7, <1>8, <1>9 DEF A

\* The names as the user gave them.
LEMMA FindsName ==
  ASSUME DictInv(dict)
  PROVE  FindsItsName
<1> SUFFICES ASSUME NEW n \in Names
             PROVE  LET given == {e \in Own : /\ ~dict.hdr[e].hidden
                                              /\ n \in {dict.hdr[e].as, Stored(dict.hdr[e].as)}}
                    IN  dict_find(dict, n) = IF given = {} \/ n \in DOMAIN First31 THEN NULL ELSE Max(given)
  BY DEF FindsItsName
<1> DEFINE given == {e \in Own : /\ ~dict.hdr[e].hidden
                                 /\ n \in {dict.hdr[e].as, Stored(dict.hdr[e].as)}}
<1>1. \A e \in Entries(dict) : /\ dict.hdr[e].as \in ToSet(Primitives) \cup Names
                               /\ dict.hdr[e].name = Stored(dict.hdr[e].as)
  BY DEF DictInv, KeepsNames
<1>2. dict_find(dict, n) = Newest(Matching(dict, n))
  BY FindIs
<1>3. CASE n \in DOMAIN First31
  <2>1. ASSUME NEW e \in Entries(dict) PROVE dict.hdr[e].name # n
    BY <1>1, <1>3, First31Assumption DEF Stored
  <2>2. Matching(dict, n) = {}
    BY <2>1 DEF Matching, Matches
  <2> QED BY <1>2, <1>3, <2>2 DEF Newest
<1>4. CASE n \notin DOMAIN First31
  <2>1. Own \subseteq Entries(dict)
    BY DEF Own
  <2>2. ASSUME NEW e \in Entries(dict), ~dict.hdr[e].hidden
        PROVE  dict.hdr[e].name = n <=> (e \in Own /\ n \in {dict.hdr[e].as, Stored(dict.hdr[e].as)})
    <3>1. dict.hdr[e].as \in ToSet(Primitives) => dict.hdr[e].as \notin DOMAIN First31
      BY PrimitivesAssumption
    <3> QED BY <1>1, <1>4, <3>1 DEF Stored, Own
  <2>3. Matching(dict, n) = given
    BY <2>1, <2>2 DEF Matching, Matches
  <2> QED BY <1>2, <1>4, <2>3 DEF Newest
<1> QED BY <1>3, <1>4
----------------------------------------------------------------------------
(* New entries, and the dictionary that register_primitives makes.         *)

LEMMA CreateAdds ==
  ASSUME NEW d, NEW n, NEW i, NEW h \in BOOLEAN, NEW code, NEW c, DictInv(d),
         c = dict_set_code(dict_create(d, n, i, h), code),
         n \in ToSet(Primitives) \cup Names,
         d.here + HeaderCells(n) + 1 <= DICT_VIRT_BASE + DICT_SIZE,
         h \/ code # do_colon
  PROVE  /\ Adds(d, c, n) /\ c.here = d.here + HeaderCells(n) + 1
         /\ c.mem[d.here + HeaderCells(n)] = code
<1>1. HeaderCells(n) \in Nat /\ HeaderCells(n) >= 2
  BY HeaderSize
<1>2. Shaped(d) /\ d.here \in CodeAddrs
  BY DEF DictInv, Shaped
<1>3. d.here + HeaderCells(n) <= DICT_VIRT_BASE + DICT_SIZE /\ d.here + HeaderCells(n) \in Region
  BY <1>1, <1>2, RegionAssumption DEF CodeAddrs, Region
<1> DEFINE b == dict_create(d, n, i, h)
<1>4. /\ Shaped(b)
      /\ Entries(b) = Entries(d) \cup {d.here} /\ b.latest = d.here
      /\ b.hdr[d.here] = [link |-> d.latest, name |-> Stored(n), as |-> n,
                          immediate |-> i, hidden |-> h]
      /\ \A e \in Entries(d) : e # d.here => b.hdr[e] = d.hdr[e]
      /\ b.mem = d.mem
      /\ b.here = d.here + HeaderCells(n)
  BY <1>2, <1>3, CreateIs
<1>5. c = dict_comma(b, code)
  BY DEF dict_set_code
<1> HIDE DEF b
<1>6. /\ Shaped(c)
      /\ c.hdr = b.hdr /\ c.latest = b.latest /\ c.here = b.here + 1
      /\ c.mem[b.here] = code
      /\ \A a \in Region : a # b.here => c.mem[a] = b.mem[a]
  BY <1>3, <1>4, <1>5, CommaIs
<1>7. \A a \in Region : a < d.here \/ c.here <= a => c.mem[a] = d.mem[a]
  BY <1>1, <1>2, <1>4, <1>6, RegionAssumption DEF CodeAddrs, Region
<1>8. c.hdr[d.here] = [link |-> d.latest, name |-> Stored(n), as |-> n,
                       immediate |-> i, hidden |-> h]
  BY <1>4, <1>6
<1>9. /\ c.hdr[d.here].link = d.latest /\ c.hdr[d.here].name = Stored(n)
      /\ c.hdr[d.here].as = n /\ c.hdr[d.here].hidden = h
  BY <1>8
<1>10. Entries(c) = Entries(d) \cup {d.here}
  BY <1>4, <1>6 DEF Entries
<1>11. c.here = d.here + HeaderCells(n) + 1 /\ d.here + HeaderCells(n) < c.here
  BY <1>1, <1>2, <1>4, <1>6, RegionAssumption DEF CodeAddrs
<1>12. c.hdr[d.here].hidden \/ c.mem[d.here + HeaderCells(n)] # do_colon
  BY <1>4, <1>6, <1>9
<1> QED BY <1>4, <1>6, <1>7, <1>9, <1>10, <1>11, <1>12 DEF Adds

LEMMA CommaAdds ==
  ASSUME NEW d, NEW b, NEW n, NEW v, NEW c, DictInv(d), Adds(d, b, n), c = dict_comma(b, v),
         b.here < DICT_VIRT_BASE + DICT_SIZE
  PROVE  /\ Adds(d, c, n) /\ c.here = b.here + 1
         /\ dict_get_param_field(c, d.here) = dict_get_param_field(b, d.here)
<1>1. HeaderCells(n) \in Nat /\ HeaderCells(n) >= 2
  <2>1. n \in ToSet(Primitives) \cup Names
    BY DEF Adds
  <2> QED BY <2>1, HeaderSize
<1>2. d.here \in CodeAddrs /\ b.here \in CodeAddrs /\ Shaped(b)
  BY Zenon DEF DictInv, Adds, Shaped
<1>3. b.here \in Region /\ d.here + HeaderCells(n) \in Region /\ d.here + HeaderCells(n) < b.here
  BY <1>1, <1>2, RegionAssumption DEF CodeAddrs, Region, Adds
<1>4. /\ Shaped(c)
      /\ c.hdr = b.hdr /\ c.latest = b.latest /\ c.here = b.here + 1
      /\ \A a \in Region : a # b.here => c.mem[a] = b.mem[a]
  BY <1>2, <1>3, CommaIs
<1>5. \A a \in Region : a < d.here \/ c.here <= a => c.mem[a] = d.mem[a]
  <2>1. \A a \in Region : a < d.here \/ c.here <= a => a # b.here /\ (a < d.here \/ b.here <= a)
    BY <1>1, <1>2, <1>3, <1>4, RegionAssumption DEF CodeAddrs, Region
  <2> QED BY <1>4, <2>1 DEF Adds
<1>6. c.mem[d.here + HeaderCells(n)] = b.mem[d.here + HeaderCells(n)]
  BY <1>3, <1>4 DEF Region
<1>7. d.here + HeaderCells(n) < c.here
  BY <1>1, <1>2, <1>3, <1>4, RegionAssumption DEF CodeAddrs
<1>8. Entries(c) = Entries(b)
  BY <1>4 DEF Entries
<1>9. dict_get_param_field(c, d.here) = dict_get_param_field(b, d.here)
  BY <1>4 DEF dict_get_param_field, dict_get_code_field
<1> QED BY <1>4, <1>5, <1>6, <1>7, <1>8, <1>9 DEF Adds

\* What register_primitives has made of the first primitives.
Made(w, n) == IF n = 0 THEN dict_init
              ELSE dict_add_primitive(w[n - 1], Primitives[n], Native[n], Primitives[n] \in Immediates)
IsMade(w, k) == w = [n \in 0 .. k |-> Made(w, n)]

LEMMA RegisterMakes ==
  register_primitives = (CHOOSE w : IsMade(w, Len(Primitives)))[Len(Primitives)]
  BY DEF register_primitives, IsMade, Made

LEMMA MakingExists ==
  ASSUME NEW N \in Nat
  PROVE  \E w : IsMade(w, N)
<1> DEFINE T == {k \in Nat : \E w : IsMade(w, k)}
<1>1. 0 \in T
  <2> DEFINE w == [n \in 0 .. 0 |-> dict_init]
  <2>1. IsMade(w, 0)
    BY DEF IsMade, Made
  <2> QED BY <2>1
<1>2. ASSUME NEW k \in 0 .. N, k \in T PROVE k + 1 \in T
  <2>1. PICK v : IsMade(v, k)
    BY <1>2
  <2> DEFINE w == [n \in 0 .. k + 1 |-> Made(v, n)]
  <2>2. \A n \in 0 .. k : v[n] = Made(v, n)
    BY <2>1 DEF IsMade
  <2>3. \A n \in 0 .. k : w[n] = v[n]
    BY <2>2
  <2>4. \A n \in 0 .. k + 1 : n # 0 => n - 1 \in 0 .. k
    OBVIOUS
  <2>5. \A n \in 0 .. k + 1 : Made(w, n) = Made(v, n)
    BY <2>3, <2>4 DEF Made
  <2>6. w = [n \in 0 .. k + 1 |-> Made(w, n)]
    BY <2>5
  <2> HIDE DEF w
  <2>7. IsMade(w, k + 1)
    BY <2>6 DEF IsMade
  <2> QED BY <2>7
<1>3. \A k \in 0 .. N : k # N /\ k \in T => k + 1 \in T
  BY <1>2
<1> HIDE DEF T
<1>4. N \in T
  BY <1>1, <1>3, Counting
<1> QED BY <1>4 DEF T
\* A record of a dictionary, whatever the region.
Bare(d) == /\ d = [hdr |-> d.hdr, mem |-> d.mem, here |-> d.here, latest |-> d.latest]
           /\ d.here \in Int

LEMMA CreateBare ==
  ASSUME NEW d, NEW n, NEW i, NEW h \in BOOLEAN, NEW c, Bare(d), c = dict_create(d, n, i, h)
  PROVE  \E hs : c = [hdr |-> hs, mem |-> d.mem, here |-> d.here + HeaderCells(n), latest |-> d.here]
<1>1. d = [hdr |-> d.hdr, mem |-> d.mem, here |-> d.here, latest |-> d.latest]
  BY DEF Bare
<1> DEFINE new == [link |-> d.latest, name |-> Stored(n), as |-> n, immediate |-> i, hidden |-> h]
           hs == [e \in Entries(d) \cup {d.here} |-> IF e = d.here THEN new ELSE d.hdr[e]]
<1>2. c = [hdr |-> hs, mem |-> d.mem, here |-> d.here + HeaderCells(n), latest |-> d.here]
  BY <1>1 DEF dict_create, Entries
<1> QED BY <1>2

LEMMA BareSteps ==
  ASSUME NEW d, NEW n, NEW fn, NEW i, NEW h \in BOOLEAN, NEW c, Bare(d), HeaderCells(n) \in Nat,
         c = dict_set_code(dict_create(d, n, i, h), fn)
  PROVE  Bare(c) /\ c.here = d.here + HeaderCells(n) + 1
<1>1. d = [hdr |-> d.hdr, mem |-> d.mem, here |-> d.here, latest |-> d.latest] /\ d.here \in Int
  BY DEF Bare
<1> DEFINE b == dict_create(d, n, i, h)
<1>2. PICK hs : b = [hdr |-> hs, mem |-> d.mem, here |-> d.here + HeaderCells(n), latest |-> d.here]
  BY CreateBare
<1>3. b = [hdr |-> hs, mem |-> d.mem, here |-> d.here + HeaderCells(n), latest |-> d.here]
  BY <1>2
<1>4. c = dict_comma(b, fn)
  BY DEF dict_set_code
<1> HIDE DEF b
<1>5. c = [hdr |-> hs, mem |-> [d.mem EXCEPT ![d.here + HeaderCells(n)] = fn],
           here |-> d.here + HeaderCells(n) + 1, latest |-> d.here]
  <2>1. b.here = d.here + HeaderCells(n)
    BY <1>3
  <2>2. c = [hdr |-> hs, mem |-> [d.mem EXCEPT ![b.here] = fn],
             here |-> (d.here + HeaderCells(n)) + 1, latest |-> d.here]
    BY <1>3, <1>4 DEF dict_comma
  <2>3. (d.here + HeaderCells(n)) + 1 = d.here + HeaderCells(n) + 1
    BY <1>1
  <2> QED BY <2>1, <2>2, <2>3
<1> QED BY <1>1, <1>5 DEF Bare

LEMMA Truth == ASSUME NEW x, NEW S PROVE \E i \in BOOLEAN : i = (x \in S)
<1>1. CASE x \in S
  <2>1. TRUE = (x \in S)
    BY <1>1
  <2>2. TRUE \in BOOLEAN
    OBVIOUS
  <2> WITNESS TRUE \in BOOLEAN
  <2> QED BY <2>1
<1>2. CASE x \notin S
  <2>1. FALSE = (x \in S)
    BY <1>2
  <2> WITNESS FALSE \in BOOLEAN
  <2> QED BY <2>1
<1> QED BY <1>1, <1>2

LEMMA PrimitiveBare ==
  ASSUME NEW d, NEW n, NEW fn, NEW i \in BOOLEAN, NEW c, Bare(d), HeaderCells(n) \in Nat,
         c = dict_add_primitive(d, n, fn, i)
  PROVE  Bare(c) /\ c.here = d.here + HeaderCells(n) + 1
<1>1. PICK h \in BOOLEAN : h = FALSE
  OBVIOUS
<1>2. c = dict_set_code(dict_create(d, n, i, h), fn)
  BY <1>1 DEF dict_add_primitive
<1> QED BY <1>2, BareSteps

LEMMA EmptyDict == DictInv(dict_init) /\ Sound(dict_init) /\ Bare(dict_init)
<1>1. /\ dict_init.hdr = <<>>
      /\ dict_init.mem = [a \in Region |-> 0]
      /\ dict_init.here = DICT_VIRT_BASE /\ dict_init.latest = NULL
      /\ dict_init = [hdr |-> dict_init.hdr, mem |-> dict_init.mem,
                      here |-> dict_init.here, latest |-> dict_init.latest]
  BY DEF dict_init, Region
<1>2. Entries(dict_init) = {}
  BY <1>1, EmptyIs DEF Entries
<1>3. dict_init.here \in CodeAddrs /\ dict_init.here \in Int
  BY <1>1, RegionAssumption DEF CodeAddrs
<1>4. <<>> = [e \in {} |-> [link |-> <<>>[e].link, name |-> <<>>[e].name, as |-> <<>>[e].as,
                            immediate |-> <<>>[e].immediate, hidden |-> <<>>[e].hidden]]
  OBVIOUS
<1>5. Shaped(dict_init)
  BY <1>1, <1>2, <1>3, <1>4 DEF Shaped
<1> QED BY <1>1, <1>2, <1>3, <1>5 DEF DictInv, Placed, Linked, KeepsNames, Sound, Ended,
                                               Blank, Filled, Bare

\* w[n] is the dictionary after the first n primitives.
Registering(w, n) ==
    \E p \in ToSet(Primitives), i \in BOOLEAN, f \in BOOLEAN, v \in 10 + 1 .. 10 + Len(Primitives) :
        /\ v \in NativeCode
        /\ w[n + 1] = dict_set_code(dict_create(w[n], p, i, f), v)
        /\ w[n].here + HeaderCells(p) + 1 <= DICT_VIRT_BASE + DICT_SIZE
Registers(w) ==
    /\ w[0] = dict_init /\ w[Len(Primitives)] = register_primitives
    /\ \A n \in 0 .. Len(Primitives) : DictInv(w[n]) /\ Sound(w[n])
    /\ \A n \in 0 .. Len(Primitives) : n # Len(Primitives) => Registering(w, n)

LEMMA Registered == \E w : Registers(w)
<1> DEFINE N == Len(Primitives)
<1>1. N \in Nat /\ DOMAIN Primitives = 1 .. N
  BY PrimitivesAssumption
<1> HIDE DEF N
<1>2. PICK w : IsMade(w, N) /\ register_primitives = w[N]
  BY <1>1, MakingExists, RegisterMakes DEF N
<1>3. \A n \in 0 .. N : w[n] = Made(w, n)
  BY <1>2 DEF IsMade
<1>4. w[0] = dict_init
  BY <1>1, <1>3 DEF Made
<1>5. ASSUME NEW n \in 0 .. N, n # N
      PROVE  /\ w[n + 1] = dict_add_primitive(w[n], Primitives[n + 1], Native[n + 1],
                                              Primitives[n + 1] \in Immediates)
             /\ Primitives[n + 1] \in ToSet(Primitives)
             /\ Native[n + 1] = 10 + (n + 1)
  <2>1. n + 1 \in 1 .. N /\ n + 1 \in 0 .. N /\ n + 1 # 0 /\ (n + 1) - 1 = n
    BY <1>1, <1>5
  <2>2. w[n + 1] = Made(w, n + 1)
    BY <1>3, <2>1
  <2> QED BY <1>1, <2>1, <2>2 DEF Made, ToSet, Native
<1> DEFINE T == {n \in 0 .. N : Bare(w[n]) /\ \A m \in 0 .. n : w[m].here \in Int /\ w[m].here <= w[n].here}
<1>6. 0 \in T
  <2>1. Bare(w[0])
    BY <1>4, EmptyDict
  <2>2. w[0].here \in Int
    BY <2>1 DEF Bare
  <2> QED BY <1>1, <2>1, <2>2
<1>7. ASSUME NEW n \in 0 .. N, n # N, n \in T PROVE n + 1 \in T
  <2>1. HeaderCells(Primitives[n + 1]) \in Nat
    BY <1>5, <1>7, HeaderSize
  <2>2. Bare(w[n])
    BY <1>7
  <2>3. Bare(w[n + 1]) /\ w[n + 1].here = w[n].here + HeaderCells(Primitives[n + 1]) + 1
    <3> DEFINE p == Primitives[n + 1]
               d == w[n]
               c == w[n + 1]
    <3>1. c = dict_add_primitive(d, p, Native[n + 1], p \in Immediates)
      BY <1>5, <1>7
    <3>2. Bare(d) /\ HeaderCells(p) \in Nat
      BY <2>1, <2>2
    <3>3. Bare(c) /\ c.here = d.here + HeaderCells(p) + 1
      <4> HIDE DEF p, d, c
      <4>1. PICK i \in BOOLEAN : i = (p \in Immediates)
        BY Truth
      <4>2. c = dict_add_primitive(d, p, Native[n + 1], i)
        BY <3>1, <4>1
      <4> QED BY <3>2, <4>2, PrimitiveBare
    <3> QED BY <3>3
  <2>4. w[n].here \in Int /\ w[n + 1].here \in Int
    BY <2>2, <2>3 DEF Bare
  <2>5. ASSUME NEW m \in 0 .. n PROVE w[m].here \in Int /\ w[m].here <= w[n + 1].here
    <3>1. w[m].here \in Int /\ w[m].here <= w[n].here
      BY <1>7
    <3> DEFINE k == HeaderCells(Primitives[n + 1])
    <3> HIDE DEF k
    <3>3. k \in Nat /\ w[n + 1].here = w[n].here + k + 1
      BY <2>1, <2>3 DEF k
    <3> QED BY <2>4, <3>1, <3>3
  <2>6. \A m \in 0 .. n + 1 : m \in 0 .. n \/ m = n + 1
    BY <1>1
  <2>7. n + 1 \in 0 .. N /\ w[n + 1].here <= w[n + 1].here
    BY <1>1, <1>7, <2>4
  <2> QED BY <2>3, <2>4, <2>5, <2>6, <2>7
<1>8. \A n \in 0 .. N : n # N /\ n \in T => n + 1 \in T
  BY <1>7
<1>9. \A n \in 0 .. N : n \in T
  <2> HIDE DEF T
  <2> QED BY <1>1, <1>6, <1>8, Counting
<1>10. ASSUME NEW n \in 0 .. N PROVE w[n].here \in Int /\ w[n].here <= DICT_VIRT_BASE + DICT_SIZE
  <2>1. N \in T /\ n \in T
    BY <1>1, <1>9
  <2>2. w[n].here \in Int /\ w[N].here \in Int /\ w[n].here <= w[N].here
    BY <2>1 DEF Bare
  <2>3. w[N].here <= DICT_VIRT_BASE + DICT_SIZE
    BY <1>2, PrimitivesAssumption
  <2> QED BY <2>2, <2>3, RegionAssumption
<1>11. ASSUME NEW n \in 0 .. N, n # N PROVE Registering(w, n)
  <2> DEFINE p == Primitives[n + 1]
             d == w[n]
             c == w[n + 1]
  <2>1. p \in ToSet(Primitives) /\ Native[n + 1] = 10 + (n + 1)
    BY <1>5, <1>11
  <2>2. HeaderCells(p) \in Nat
    BY <2>1, HeaderSize
  <2>3. n + 1 \in 0 .. N /\ n + 1 \in 1 .. N
    BY <1>1, <1>11
  <2>4. Bare(d)
    BY <1>9
  <2>5. c = dict_add_primitive(d, p, Native[n + 1], p \in Immediates)
    BY <1>5, <1>11
  <2>6. Native[n + 1] \in NativeCode /\ Native[n + 1] \in 10 + 1 .. 10 + N
    <3>1. n + 1 \in DOMAIN Native
      BY <1>1, <2>3 DEF Native
    <3>2. Native[n + 1] \in NativeCode
      BY <3>1 DEF NativeCode
    <3> QED BY <1>1, <2>1, <2>3, <3>2
  <2>7. PICK i \in BOOLEAN : i = (p \in Immediates)
    <3> HIDE DEF p
    <3> QED BY Truth
  <2>8. PICK f \in BOOLEAN : f = FALSE
    OBVIOUS
  <2>9. c = dict_add_primitive(d, p, Native[n + 1], i)
    <3> HIDE DEF p, d, c
    <3> QED BY <2>5, <2>7
  <2>10. c.here = d.here + HeaderCells(p) + 1
    <3> HIDE DEF p, d, c
    <3> QED BY <2>2, <2>4, <2>9, PrimitiveBare
  <2>11. d.here + HeaderCells(p) + 1 <= DICT_VIRT_BASE + DICT_SIZE
    BY <1>10, <2>3, <2>10
  <2>12. c = dict_set_code(dict_create(d, p, i, f), Native[n + 1])
    <3> HIDE DEF p, d, c
    <3> QED BY <2>8, <2>9 DEF dict_add_primitive
  <2> HIDE DEF p
  <2> QED BY <2>1, <2>6, <2>11, <2>12 DEF Registering, N
<1> DEFINE G == {n \in 0 .. N : DictInv(w[n]) /\ Sound(w[n])}
<1>12. 0 \in G
  BY <1>1, <1>4, EmptyDict
<1>13. ASSUME NEW n \in 0 .. N, n # N, n \in G PROVE n + 1 \in G
  <2> DEFINE d == w[n]
             c == w[n + 1]
  <2>1. DictInv(d) /\ Sound(d) /\ n + 1 \in 0 .. N
    BY <1>1, <1>13
  <2>2. PICK p \in ToSet(Primitives), i \in BOOLEAN, f \in BOOLEAN, v \in 10 + 1 .. 10 + N :
          /\ c = dict_set_code(dict_create(d, p, i, f), v)
          /\ d.here + HeaderCells(p) + 1 <= DICT_VIRT_BASE + DICT_SIZE
    BY <1>11, <1>13 DEF Registering, N
  <2>3. v # do_colon /\ v # do_constant
    BY <1>1 DEF do_colon, do_constant
  <2> HIDE DEF d, c
  <2>4. Adds(d, c, p) /\ c.mem[d.here + HeaderCells(p)] = v
    BY <2>1, <2>2, <2>3, CreateAdds
  <2>5. Fills(d, c)
    <3>1. HeaderCells(Stored(p)) = HeaderCells(p)
      BY HeaderSize
    <3>2. dict_get_code_field(c, d.here) = d.here + HeaderCells(p)
      BY <2>4, <3>1 DEF Adds, dict_get_code_field
    <3> QED BY <2>3, <2>4, <3>2 DEF Fills, CodeIn
  <2>6. DictInv(c) /\ Sound(c)
    BY <2>1, <2>4, <2>5, AddsKeeps, AddsSound
  <2> QED BY <2>1, <2>6 DEF c
<1>14. \A n \in 0 .. N : n # N /\ n \in G => n + 1 \in G
  BY <1>13
<1>15. \A n \in 0 .. N : n \in G
  <2> HIDE DEF G
  <2> QED BY <1>1, <1>12, <1>14, Counting
<1> QED BY <1>2, <1>4, <1>11, <1>15 DEF Registers, N

LEMMA RegisterInv == DictInv(register_primitives) /\ Sound(register_primitives)
<1>1. PICK w : Registers(w)
  BY Registered
<1>2. Len(Primitives) \in 0 .. Len(Primitives)
  BY PrimitivesAssumption
<1> QED BY <1>1, <1>2 DEF Registers
----------------------------------------------------------------------------
(* What a step does to the dictionary.                                     *)

DictStep == \/ dict' = dict
            \/ Extends(dict, dict') /\ (~misused' => Keeps(dict, dict'))
            \/ Fills(dict, dict') /\ \E n : Adds(dict, dict', n)

LEMMA EmitDoes ==
  ASSUME DictInv(dict), NEW cells, Len(cells) \in Nat, Emit(cells)
  PROVE  Extends(dict, dict') /\ Keeps(dict, dict')
<1>1. Shaped(dict) /\ dict.here \in Int
  BY RegionAssumption DEF DictInv, Shaped, CodeAddrs
<1>2. dict' = dict_commas(dict, cells) /\ dict.here + Len(cells) <= DICT_VIRT_BASE + DICT_SIZE
  BY DEF Emit, Room
<1>3. /\ Shaped(dict')
      /\ dict'.hdr = dict.hdr /\ dict'.latest = dict.latest /\ dict'.here = dict.here + Len(cells)
      /\ \A a \in Region : a < dict.here \/ dict'.here <= a => dict'.mem[a] = dict.mem[a]
  BY <1>1, <1>2, CommasIs
<1>4. dict.here <= dict'.here
  BY <1>1, <1>3
<1>5. Entries(dict') = Entries(dict)
  BY <1>3 DEF Entries
<1> QED BY <1>3, <1>4, <1>5 DEF Extends, Keeps

LEMMA EmitPatchDoes ==
  ASSUME DictInv(dict), NEW cells, NEW a, Len(cells) \in Nat, EmitPatch(cells, a)
  PROVE  Extends(dict, dict') /\ (~misused' => Keeps(dict, dict'))
<1>1. Shaped(dict) /\ dict.here \in CodeAddrs
  BY DEF DictInv, Shaped
<1> DEFINE b == dict_commas(dict, cells)
           v == dict.here + Len(cells)
<1>2. dict' = [b EXCEPT !.mem[a] = v] /\ v <= DICT_VIRT_BASE + DICT_SIZE
  BY DEF EmitPatch, Room
<1>3. v \in CodeAddrs /\ dict.here <= v
  BY <1>1, <1>2, RegionAssumption DEF CodeAddrs
<1>4. /\ Shaped(b)
      /\ b.hdr = dict.hdr /\ b.latest = dict.latest /\ b.here = v
      /\ \A x \in Region : x < dict.here \/ b.here <= x => b.mem[x] = dict.mem[x]
  BY <1>1, <1>2, CommasIs
<1> HIDE DEF b, v
<1>5. /\ Shaped(dict')
      /\ dict'.hdr = b.hdr /\ dict'.latest = b.latest /\ dict'.here = b.here
      /\ a \in Region => dict'.mem[a] = v
      /\ \A x \in Region : x # a => dict'.mem[x] = b.mem[x]
  <2>1. Stores(b, dict', a, v)
    BY <1>2, <1>4, StoreIs
  <2> QED BY <2>1 DEF Stores
<1>6. Entries(dict') = Entries(dict)
  BY <1>4, <1>5 DEF Entries
<1>7. Extends(dict, dict')
  BY <1>3, <1>4, <1>5, <1>6 DEF Extends
<1>8. ASSUME ~misused', a \in Region
      PROVE  dict.mem[a] = 0 /\ FetchIn(dict, a - 1) \in {rt_branch, rt_0branch}
  <2>1. Fetch(a) = 0 /\ FetchIn(dict, a - 1) \in {rt_branch, rt_0branch}
    BY <1>8 DEF EmitPatch, Fetch
  <2>2. InRegion(a)
    BY DEF EmitPatch, Patchable
  <2>3. a \notin Entries(dict)
    <3> SUFFICES ASSUME a \in Entries(dict) PROVE FALSE
      OBVIOUS
    <3>1. a \notin a .. dict_get_code_field(dict, a) - 1
      BY DEF EmitPatch, Patchable
    <3>2. dict_get_code_field(dict, a) \in a + 1 .. dict.here - 1
      BY DEF DictInv, Placed
    <3> QED BY <1>1, <1>8, <3>1, <3>2, RegionAssumption DEF Region, CodeAddrs
  <2>4. Fetch(a) = dict.mem[a]
    BY <2>2, <2>3 DEF Fetch, FetchIn
  <2> QED BY <2>1, <2>4
<1>9. ASSUME ~misused' PROVE Keeps(dict, dict')
  <2>1. ASSUME NEW x \in Region, x < dict.here
        PROVE  \/ dict'.mem[x] = dict.mem[x]
               \/ /\ dict.mem[x] = 0 /\ dict'.mem[x] \in CodeAddrs
                  /\ FetchIn(dict, x - 1) \in {rt_branch, rt_0branch}
    BY <1>3, <1>4, <1>5, <1>8, <1>9, <2>1
  <2>2. ASSUME NEW x \in Region, dict'.here <= x
        PROVE  \/ dict'.mem[x] = dict.mem[x]
               \/ dict'.mem[x] = dict'.here /\ FetchIn(dict, x - 1) \in {rt_branch, rt_0branch}
    BY <1>4, <1>5, <1>8, <1>9, <2>2
  <2> QED BY <1>4, <1>5, <2>1, <2>2 DEF Keeps
<1> QED BY <1>7, <1>9

LEMMA SemicolonDoes ==
  ASSUME DictInv(dict), w_semicolon
  PROVE  Extends(dict, dict') /\ Keeps(dict, dict')
<1>1. Shaped(dict) /\ dict.here \in CodeAddrs /\ dict.here + 1 <= DICT_VIRT_BASE + DICT_SIZE
  BY DEF DictInv, Shaped, w_semicolon, Room
<1> DEFINE b == dict_comma(dict, SENTINEL_EXIT)
<1>2. dict' = [b EXCEPT !.hdr[dict.latest].hidden = FALSE]
  BY DEF w_semicolon
<1>3. dict.here \in Region /\ dict.here < dict.here + 1
  BY <1>1, RegionAssumption DEF CodeAddrs, Region
<1>4. /\ Shaped(b)
      /\ b.hdr = dict.hdr /\ b.latest = dict.latest /\ b.here = dict.here + 1
      /\ b.mem[dict.here] = SENTINEL_EXIT
      /\ \A a \in Region : a # dict.here => b.mem[a] = dict.mem[a]
  BY <1>1, <1>3, CommaIs
<1> HIDE DEF b
<1>5. Flagged(b, dict', dict.latest)
  <2>1. PICK h : h = FALSE
    OBVIOUS
  <2>2. dict' = [b EXCEPT !.hdr[dict.latest].hidden = h]
    BY <1>2, <2>1
  <2> QED BY <1>4, <2>2, HideIs
<1>6. Entries(b) = Entries(dict)
  BY <1>4 DEF Entries
<1>7. Extends(dict, dict')
  BY <1>1, <1>3, <1>4, <1>5, <1>6, RegionAssumption DEF Extends, Flagged, CodeAddrs
<1>8. \A a \in Region : a < dict.here \/ dict'.here <= a => dict'.mem[a] = dict.mem[a]
  BY <1>3, <1>4, <1>5 DEF Flagged, Region
<1>9. \A e \in Entries(dict) : e # dict.latest => dict'.hdr[e] = dict.hdr[e]
  BY <1>4, <1>5, <1>6 DEF Flagged
<1>10. dict.here < dict'.here /\ dict'.mem[dict.here] = SENTINEL_EXIT
  BY <1>3, <1>4, <1>5 DEF Flagged
<1> QED BY <1>7, <1>8, <1>9, <1>10 DEF Keeps

LEMMA ImmediateDoes ==
  ASSUME DictInv(dict), w_immediate
  PROVE  Extends(dict, dict') /\ Keeps(dict, dict')
<1>1. Shaped(dict) /\ dict.here \in Int
  BY RegionAssumption DEF DictInv, Shaped, CodeAddrs
<1>2. PICK v : dict' = [dict EXCEPT !.hdr[dict.latest].immediate = v]
  <2>1. dict' = [dict EXCEPT !.hdr[dict.latest].immediate = ~@]
    BY DEF w_immediate
  <2> QED BY <2>1
<1>3. Flagged(dict, dict', dict.latest) /\ SameHidden(dict, dict')
  BY <1>1, <1>2, ImmediateIs
<1> QED BY <1>1, <1>3 DEF Flagged, SameHidden, Extends, Keeps
LEMMA NewDoes ==
  ASSUME DictInv(dict), NEW n \in Names, NEW i \in BOOLEAN, NEW h \in BOOLEAN, NEW code, NEW c,
         c = dict_set_code(dict_create(dict, n, i, h), code),
         Room(HeaderCells(n) + 2), h \/ code # do_colon
  PROVE  /\ Adds(dict, c, n) /\ c.here < DICT_VIRT_BASE + DICT_SIZE
         /\ CodeIn(c, dict.here) = code /\ dict_get_param_field(c, dict.here) = c.here
<1>1. dict.here \in Int /\ HeaderCells(n) \in Nat /\ HeaderCells(Stored(n)) = HeaderCells(n)
  BY HeaderSize, RegionAssumption DEF DictInv, Shaped, CodeAddrs
<1>2. /\ dict.here + HeaderCells(n) + 1 <= DICT_VIRT_BASE + DICT_SIZE
      /\ dict.here + HeaderCells(n) + 1 < DICT_VIRT_BASE + DICT_SIZE
  BY <1>1, RegionAssumption DEF Room
<1>3. /\ Adds(dict, c, n) /\ c.here = dict.here + HeaderCells(n) + 1
      /\ c.mem[dict.here + HeaderCells(n)] = code
  BY <1>2, CreateAdds
<1>4. dict_get_code_field(c, dict.here) = dict.here + HeaderCells(n)
  BY <1>1, <1>3 DEF dict_get_code_field, Adds
<1>5. dict_get_param_field(c, dict.here) = c.here
  BY <1>1, <1>3, <1>4 DEF dict_get_param_field
<1> QED BY <1>2, <1>3, <1>4, <1>5 DEF CodeIn

LEMMA ParsingDoes ==
  ASSUME DictInv(dict), NEW w, parsing(w)
  PROVE  DictStep /\ misused' = misused
<1>0. PICK p \in parse_word :
        /\ Parsing(p)
        /\ \/ w_colon(p) \/ NoName(p) \/ w_create(p) \/ w_constant(p)
           \/ w_variable(p) \/ w_tick(p)
  BY DEF parsing
<1>1. PICK f \in BOOLEAN, t \in BOOLEAN : f = FALSE /\ t = TRUE
  OBVIOUS
<1>2. misused' = misused
  BY <1>0 DEF Parsing, hist
<1>3. CASE NoName(p) \/ w_tick(p)
  BY <1>2, <1>3 DEF NoName, w_tick, DictStep
<1>4. CASE w_colon(p)
  <2>1. dict' = dict_set_code(dict_create(dict, p.word, f, t), do_colon)
    BY <1>1, <1>4 DEF w_colon
  <2>2. p.word \in Names /\ Room(HeaderCells(p.word) + 2)
    BY <1>4 DEF w_colon, Named
  <2>3. Adds(dict, dict', p.word) /\ CodeIn(dict', dict.here) = do_colon
    BY <1>1, <2>1, <2>2, NewDoes
  <2> QED BY <1>2, <2>3 DEF DictStep, Fills, do_colon, do_constant
<1>5. CASE w_create(p)
  <2>1. dict' = dict_set_code(dict_create(dict, p.word, f, f), do_variable)
    BY <1>1, <1>5 DEF w_create
  <2>2. p.word \in Names /\ Room(HeaderCells(p.word) + 2) /\ do_variable # do_colon
    BY <1>5 DEF w_create, Named, do_variable, do_colon
  <2>3. Adds(dict, dict', p.word) /\ CodeIn(dict', dict.here) = do_variable
    BY <2>1, <2>2, NewDoes
  <2> QED BY <1>2, <2>3 DEF DictStep, Fills, do_variable, do_constant
<1>6. CASE w_constant(p)
  <2> DEFINE b == dict_set_code(dict_create(dict, p.word, f, f), do_constant)
  <2>1. dict' = dict_comma(b, ds_peek(ds))
    BY <1>1, <1>6 DEF w_constant
  <2>2. p.word \in Names /\ Room(HeaderCells(p.word) + 2) /\ do_constant # do_colon
    BY <1>6 DEF w_constant, Named, do_constant, do_colon
  <2>3. /\ Adds(dict, b, p.word) /\ b.here < DICT_VIRT_BASE + DICT_SIZE
        /\ dict_get_param_field(b, dict.here) = b.here
    BY <2>2, NewDoes
  <2> HIDE DEF b
  <2>4. /\ Adds(dict, dict', p.word) /\ dict'.here = b.here + 1
        /\ dict_get_param_field(dict', dict.here) = b.here
    BY <2>1, <2>3, CommaAdds
  <2>5. b.here \in CodeAddrs
    BY <2>3 DEF Adds, Shaped
  <2>6. b.here < dict'.here
    BY <2>4, <2>5, RegionAssumption DEF CodeAddrs
  <2>7. Fills(dict, dict')
    BY <2>4, <2>6 DEF Fills
  <2> QED BY <1>2, <2>4, <2>7 DEF DictStep
<1>7. CASE w_variable(p) /\ p.word # NoWord
  <2> DEFINE b == dict_set_code(dict_create(dict, p.word, f, f), do_variable)
  <2>1. dict' = dict_comma(b, 0)
    BY <1>1, <1>7 DEF w_variable
  <2>2. p.word \in Names /\ Room(HeaderCells(p.word) + 2) /\ do_variable # do_colon
    BY <1>7 DEF w_variable, Named, do_variable, do_colon
  <2>3. /\ Adds(dict, b, p.word) /\ b.here < DICT_VIRT_BASE + DICT_SIZE
        /\ dict_get_param_field(b, dict.here) = b.here
    BY <2>2, NewDoes
  <2> HIDE DEF b
  <2>4. /\ Adds(dict, dict', p.word) /\ dict'.here = b.here + 1
        /\ dict_get_param_field(dict', dict.here) = b.here
    BY <2>1, <2>3, CommaAdds
  <2>5. b.here \in CodeAddrs
    BY <2>3 DEF Adds, Shaped
  <2>6. b.here < dict'.here
    BY <2>4, <2>5, RegionAssumption DEF CodeAddrs
  <2>7. Fills(dict, dict')
    BY <2>4, <2>6 DEF Fills
  <2> QED BY <1>2, <2>4, <2>7 DEF DictStep
<1>8. CASE w_variable(p) /\ p.word = NoWord
  <2>1. dict' = dict_comma(dict, 0) /\ dict.here + 1 <= DICT_VIRT_BASE + DICT_SIZE
    BY <1>8 DEF w_variable, Room
  <2>2. Shaped(dict) /\ dict.here \in CodeAddrs
    BY DEF DictInv, Shaped
  <2>3. dict.here \in Region /\ dict.here <= dict.here + 1
    BY <2>1, <2>2, RegionAssumption DEF CodeAddrs, Region
  <2>4. /\ Shaped(dict')
        /\ dict'.hdr = dict.hdr /\ dict'.latest = dict.latest /\ dict'.here = dict.here + 1
        /\ \A a \in Region : a # dict.here => dict'.mem[a] = dict.mem[a]
    BY <2>1, <2>2, <2>3, CommaIs
  <2>5. \A a \in Region : a < dict.here \/ dict'.here <= a => dict'.mem[a] = dict.mem[a]
    BY <2>3, <2>4 DEF Region
  <2>6. Entries(dict') = Entries(dict)
    BY <2>4 DEF Entries
  <2>7. Extends(dict, dict') /\ Keeps(dict, dict')
    BY <2>3, <2>4, <2>5, <2>6 DEF Extends, Keeps
  <2> QED BY <1>2, <2>7 DEF DictStep
<1> QED BY <1>0, <1>3, <1>4, <1>5, <1>6, <1>7, <1>8

LEMMA NativeDoes ==
  ASSUME DictInv(dict), misused \in BOOLEAN, NEW w, native(w)
  PROVE  DictStep /\ (~misused' => ~misused)
<1>1. \A v, x : Len(<<v>>) \in Nat /\ Len(<<v, x>>) \in Nat /\ Len(<<>>) \in Nat
  OBVIOUS
<1>2. CASE compute(w) \/ w_here \/ w_base \/ w_r_fetch \/ w_begin
  BY <1>2 DEF compute, w_here, w_base, w_r_fetch, w_begin, Quiet, hist, DictStep
<1>3. CASE runaway(w)
  BY <1>3 DEF runaway, Fault, hist, DictStep
<1>4. CASE parsing(w)
  BY <1>4, ParsingDoes
<1>5. CASE w_semicolon
  <2>1. misused' = misused
    BY <1>5 DEF w_semicolon, hist
  <2> QED BY <1>5, <2>1, SemicolonDoes DEF DictStep
<1>6. CASE w_immediate
  <2>1. misused' = misused
    BY <1>6 DEF w_immediate, Quiet, hist
  <2> QED BY <1>6, <2>1, ImmediateDoes DEF DictStep
<1>7. CASE w_execute \/ w_load \/ w_fork \/ w_yield \/ SetBase(16) \/ SetBase(10) \/ w_to_r \/ w_from_r
  BY <1>7 DEF w_execute, w_load, w_fork, w_yield, SetBase, w_to_r, w_from_r, hist, DictStep
<1>8. CASE w_comma \/ w_if \/ w_while \/ w_until \/ w_again \/ w_do \/ w_loop
  <2>1. misused' = misused
    BY <1>8 DEF w_comma, w_if, w_while, w_until, w_again, w_do, w_loop, Quiet, hist
  <2>2. PICK cells : Len(cells) \in Nat /\ Emit(cells)
    <3>1. CASE w_comma
      BY <1>1, <3>1 DEF w_comma
    <3>2. CASE w_if \/ w_while
      BY <1>1, <3>2 DEF w_if, w_while
    <3>3. CASE w_until
      BY <1>1, <3>3 DEF w_until
    <3>4. CASE w_again
      BY <1>1, <3>4 DEF w_again
    <3>5. CASE w_do
      BY <1>1, <3>5 DEF w_do
    <3>6. CASE w_loop
      BY <1>1, <3>6 DEF w_loop
    <3> QED BY <1>8, <3>1, <3>2, <3>3, <3>4, <3>5, <3>6
  <2>3. Extends(dict, dict') /\ Keeps(dict, dict')
    BY <2>2, EmitDoes
  <2> QED BY <2>1, <2>3 DEF DictStep
<1>9. CASE w_else \/ w_then \/ w_repeat
  <2>1. PICK cells, a : Len(cells) \in Nat /\ Store(cells, a)
    <3>1. CASE w_else
      BY <1>1, <3>1 DEF w_else
    <3>2. CASE w_then
      BY <1>1, <3>2 DEF w_then
    <3>3. CASE w_repeat
      BY <1>1, <3>3 DEF w_repeat
    <3> QED BY <1>9, <3>1, <3>2, <3>3
  <2>2. CASE EmitPatch(cells, a)
    <3>1. ~misused' => ~misused
      BY <2>2 DEF EmitPatch
    <3> QED BY <2>1, <2>2, <3>1, EmitPatchDoes DEF DictStep
  <2>3. CASE EmitLow(cells, a)
    <3>1. misused' = misused /\ Emit(cells)
      BY <2>3 DEF EmitLow, Quiet, hist
    <3>2. Extends(dict, dict') /\ Keeps(dict, dict')
      BY <2>1, <3>1, EmitDoes
    <3> QED BY <3>1, <3>2 DEF DictStep
  <2> QED BY <2>1, <2>2, <2>3 DEF Store
<1> QED BY <1>2, <1>3, <1>4, <1>5, <1>6, <1>7, <1>8, <1>9 DEF native

LEMMA DictNext ==
  ASSUME DictInv(dict), misused \in BOOLEAN, [Next]_vars
  PROVE  DictStep /\ (~misused' => ~misused)
<1>1. CASE UNCHANGED vars
  BY <1>1 DEF vars, hist, DictStep
<1>2. CASE forth_execute
  <2>1. CASE Fault
    BY <2>1 DEF Fault, hist, DictStep
  <2>2. CASE native(PrimitiveOf(CodeOf(Last(frames).xt)))
    BY <2>2, NativeDoes
  <2>3. CASE UNCHANGED <<dict, misused>>
    BY <2>3 DEF DictStep
  <2>4. Fault \/ native(PrimitiveOf(CodeOf(Last(frames).xt))) \/ UNCHANGED <<dict, misused>>
    BY <1>2, ZenonT(30) DEF forth_execute, Quiet, hist
  <2> QED BY <2>1, <2>2, <2>3, <2>4
<1>3. CASE forth_inner
  <2>1. CASE InnerExit \/ InnerLiteral \/ InnerInvalid
    BY <2>1 DEF InnerExit, InnerLiteral, InnerInvalid, hist, DictStep
  <2>2. CASE InnerWord
    BY <2>2 DEF InnerWord, DictStep
  <2>3. CASE InnerFault
    BY <2>3 DEF InnerFault, Fault, hist, DictStep
  <2> QED BY <1>3, <2>1, <2>2, <2>3 DEF forth_inner
<1>4. CASE forth_eval
  <2>1. misused' = misused
    BY <1>4 DEF forth_eval
  <2>2. dict' = dict \/ \E cells : Len(cells) \in Nat /\ Emit(cells)
    <3>1. \A v, x : Len(<<v>>) \in Nat /\ Len(<<v, x>>) \in Nat
      OBVIOUS
    <3>2. dict' = dict \/ (\E v : Emit(<<v>>)) \/ (\E v, x : Emit(<<v, x>>))
      BY <1>4 DEF forth_eval
    <3> QED BY <3>1, <3>2
  <2>3. dict' = dict \/ (Extends(dict, dict') /\ Keeps(dict, dict'))
    BY <2>2, EmitDoes
  <2> QED BY <2>1, <2>3 DEF DictStep
<1>5. CASE forth_run \/ forth_thread_wrapper \/ task_exit
  BY <1>5 DEF forth_run, forth_thread_wrapper, task_exit, hist, DictStep
<1> QED BY <1>1, <1>2, <1>3, <1>4, <1>5 DEF Next

LEMMA DictKept ==
  ASSUME DictInv(dict), misused \in BOOLEAN, ~misused => Sound(dict), [Next]_vars
  PROVE  DictInv(dict') /\ (~misused' => Sound(dict'))
<1>1. DictStep /\ (~misused' => ~misused)
  BY DictNext
<1>2. CASE dict' = dict
  BY <1>1, <1>2
<1>3. CASE Extends(dict, dict') /\ (~misused' => Keeps(dict, dict'))
  BY <1>1, <1>3, ExtendsKeeps, ExtendsSound
<1>4. CASE Fills(dict, dict') /\ \E n : Adds(dict, dict', n)
  BY <1>1, <1>4, AddsKeeps, AddsSound
<1> QED BY <1>1, <1>2, <1>3, <1>4 DEF DictStep
----------------------------------------------------------------------------
(* Call stacks and the ring of tasks.                                      *)

LEMMA FunctionIs ==
  ASSUME NEW n \in Nat, NEW s, s = [i \in 1 .. n |-> s[i]]
  PROVE  IsSeq(s) /\ Len(s) = n
<1> DEFINE S == {s[i] : i \in DOMAIN s}
<1>1. \A i \in 1 .. n : s[i] \in S
  OBVIOUS
<1> HIDE DEF S
<1>2. s \in [1 .. n -> S]
  BY <1>1
<1>3. s \in Seq(S) /\ Len(s) = n
  BY <1>2
<1> QED BY <1>3, AnySeq

LEMMA PopStack ==
  ASSUME NEW f, IsStack(f), f # <<>>
  PROVE  /\ IsStack(Front(f))
         /\ InnerAt(Front(f)) = InnerAt(f) \ {Len(f)}
         /\ Last(f).kind # "inner" => InnerAt(Front(f)) = InnerAt(f)
         /\ Last(f).kind = "inner" => Len(f) \in InnerAt(f)
         /\ Last(f).kind = "thread" => Front(f) = <<>>
<1>1. IsSeq(f)
  BY DEF IsStack
<1>2. /\ IsSeq(Front(f)) /\ Len(Front(f)) = Len(f) - 1 /\ Len(f) \in Nat \ {0}
      /\ DOMAIN Front(f) = 1 .. Len(f) - 1 /\ DOMAIN f = 1 .. Len(f)
      /\ \A i \in 1 .. Len(f) - 1 : Front(f)[i] = f[i]
  BY <1>1, FrontIs, SeqIs
<1>3. IsStack(Front(f))
  BY <1>2 DEF IsStack
<1>4. InnerAt(Front(f)) = InnerAt(f) \ {Len(f)}
  BY <1>2 DEF InnerAt
<1>5. Last(f) = f[Len(f)] /\ Len(f) \in DOMAIN f
  BY <1>2 DEF Last
<1>6. ASSUME Last(f).kind = "thread" PROVE Front(f) = <<>>
  <2>1. Len(f) = 1
    BY <1>5, <1>6 DEF IsStack
  <2>2. Len(Front(f)) = 0
    BY <1>2, <2>1
  <2> QED BY <1>2, <2>2 DEF IsSeq
<1> QED BY <1>3, <1>4, <1>5, <1>6 DEF InnerAt

LEMMA PushStack ==
  ASSUME NEW f, NEW x, IsStack(f), x.kind \in {"call", "inner", "line", "load"}
  PROVE  /\ IsStack(Append(f, x))
         /\ x.kind # "inner" => InnerAt(Append(f, x)) = InnerAt(f)
         /\ x.kind = "inner" => InnerAt(Append(f, x)) = InnerAt(f) \cup {Len(f) + 1}
         /\ Len(f) \in Nat
<1>1. IsSeq(f)
  BY DEF IsStack
<1>2. /\ IsSeq(Append(f, x)) /\ DOMAIN Append(f, x) = 1 .. Len(f) + 1
      /\ \A i \in 1 .. Len(f) : Append(f, x)[i] = f[i]
      /\ Append(f, x)[Len(f) + 1] = x
      /\ Len(f) \in Nat /\ DOMAIN f = 1 .. Len(f)
  BY <1>1, AppendIs, SeqIs
<1>3. \A i \in 1 .. Len(f) + 1 : i \in 1 .. Len(f) \/ i = Len(f) + 1
  BY <1>2
<1>4. IsStack(Append(f, x))
  BY <1>2, <1>3 DEF IsStack
<1>5. InnerAt(Append(f, x)) = {i \in 1 .. Len(f) : f[i].kind = "inner"}
                                \cup {i \in {Len(f) + 1} : x.kind = "inner"}
  BY <1>2, <1>3 DEF InnerAt
<1> QED BY <1>2, <1>4, <1>5 DEF InnerAt

LEMMA OneStack ==
  ASSUME NEW x, x.kind \in {"call", "line", "load", "thread"}
  PROVE  IsStack(<<x>>) /\ InnerAt(<<x>>) = {}
  BY OneIs DEF IsStack, InnerAt

LEMMA NoStack == IsStack(<<>>) /\ InnerAt(<<>>) = {}
  BY EmptyIs DEF IsStack, InnerAt

LEMMA StackLives == ASSUME NEW f, IsStack(f) PROVE f # Dead
<1>1. /\ DOMAIN Dead = {1} /\ Dead[1] = [kind |-> "dead"]
  BY OneIs DEF Dead
<1>2. Dead[1].kind = "dead"
  BY <1>1
<1> QED BY <1>1, <1>2 DEF IsStack

LEMMA InnersSeen ==
  ASSUME TasksInv
  PROVE  InInner <=> Inners # {}
<1>1. cur \in DOMAIN tasks /\ tasks[cur] = <<>> /\ IsStack(frames)
  BY DEF TasksInv
<1>2. cur \in Alive
  BY <1>1, NoStack, StackLives DEF Alive
<1>3. \A t \in Alive : IsStack(StackOf(t))
  BY <1>1 DEF TasksInv, Alive, StackOf
<1>4. \A t \in Alive : \A i \in InnerAt(StackOf(t)) : i \in Nat
  BY <1>3, SeqIs DEF IsStack, InnerAt
<1>5. Inners # {} <=> \E t \in Alive : InnerAt(StackOf(t)) # {}
  <2>1. ASSUME NEW p \in Inners PROVE \E t \in Alive : InnerAt(StackOf(t)) # {}
    BY DEF Inners
  <2>2. ASSUME NEW t \in Alive, NEW i \in InnerAt(StackOf(t)) PROVE Inners # {}
    <3>1. <<t, i>> \in Inners
      BY <1>4 DEF Inners
    <3> QED BY <3>1
  <2> QED BY <2>1, <2>2
<1>6. \A f : HasInner(f) <=> InnerAt(f) # {}
  BY DEF HasInner, InnerAt
<1>7. \A t \in Alive : t # cur => StackOf(t) = tasks[t]
  BY DEF StackOf
<1>8. StackOf(cur) = frames /\ InnerAt(tasks[cur]) = {}
  BY <1>1, NoStack DEF StackOf
<1> QED BY <1>2, <1>5, <1>6, <1>7, <1>8 DEF InInner

\* The running task's call stack changes.
LEMMA LocalStep ==
  ASSUME TasksInv, IsStack(frames'), cur' = cur, tasks' = tasks
  PROVE  /\ TasksInv'
         /\ InnerAt(frames') = InnerAt(frames) => Inners' = Inners
         /\ \A k \in Nat : InnerAt(frames') = InnerAt(frames) \cup {k} => Inners' = Inners \cup {<<cur, k>>}
         /\ \A k \in InnerAt(frames) :
              InnerAt(frames') = InnerAt(frames) \ {k} => /\ Inners' = Inners \ {<<cur, k>>}
                                                          /\ <<cur, k>> \in Inners
<1>1. cur \in DOMAIN tasks /\ tasks[cur] = <<>> /\ IsStack(frames)
  BY DEF TasksInv
<1>2. cur \in Alive /\ Alive' = Alive
  BY <1>1, NoStack, StackLives DEF Alive
<1>3. TasksInv'
  BY DEF TasksInv
<1>4. \A p \in Alive \X Nat : /\ p \in Inners <=> p[2] \in InnerAt(IF p[1] = cur THEN frames ELSE tasks[p[1]])
                              /\ p \in Inners' <=> p[2] \in InnerAt(IF p[1] = cur THEN frames' ELSE tasks[p[1]])
  BY <1>2 DEF Inners, StackOf
<1>5. Inners \subseteq Alive \X Nat /\ Inners' \subseteq Alive \X Nat
  BY <1>2 DEF Inners
<1>6. \A p \in Alive \X Nat : p = <<p[1], p[2]>>
  OBVIOUS
<1>7. ASSUME InnerAt(frames') = InnerAt(frames) PROVE Inners' = Inners
  <2>1. \A p \in Alive \X Nat : p \in Inners <=> p \in Inners'
    BY <1>4, <1>7
  <2> QED BY <1>5, <2>1
<1>8. ASSUME NEW k \in Nat, InnerAt(frames') = InnerAt(frames) \cup {k}
      PROVE  Inners' = Inners \cup {<<cur, k>>}
  <2>1. <<cur, k>> \in Alive \X Nat
    BY <1>2
  <2>2. \A p \in Alive \X Nat : p \in Inners' <=> p \in Inners \/ p = <<cur, k>>
    <3>1. ASSUME NEW p \in Alive \X Nat PROVE p \in Inners' <=> p \in Inners \/ p = <<cur, k>>
      <4>1. p = <<cur, k>> <=> p[1] = cur /\ p[2] = k
        BY <1>6
      <4> QED BY <1>4, <1>8, <4>1
    <3> QED BY <3>1
  <2> QED BY <1>5, <2>1, <2>2
<1>9. ASSUME NEW k \in InnerAt(frames), InnerAt(frames') = InnerAt(frames) \ {k}
      PROVE  Inners' = Inners \ {<<cur, k>>} /\ <<cur, k>> \in Inners
  <2>1. k \in Nat
    BY <1>1, SeqIs DEF IsStack, InnerAt
  <2>2. <<cur, k>> \in Alive \X Nat
    BY <1>2, <2>1
  <2>3. ASSUME NEW p \in Alive \X Nat PROVE p \in Inners' <=> p \in Inners /\ p # <<cur, k>>
    <3>1. p = <<cur, k>> <=> p[1] = cur /\ p[2] = k
      BY <1>6
    <3> QED BY <1>4, <1>9, <3>1
  <2>4. <<cur, k>> \in Inners
    BY <1>4, <2>2
  <2> QED BY <1>5, <2>3, <2>4
<1> QED BY <1>3, <1>7, <1>8, <1>9
LEMMA ModEqual == ASSUME NEW n \in Nat \ {0} PROVE n % n = 0
  OBVIOUS
LEMMA ModBelow == ASSUME NEW n \in Nat \ {0}, NEW a \in Nat, a < n PROVE a % n = a
  OBVIOUS
LEMMA ModAbove == ASSUME NEW n \in Nat \ {0}, NEW a \in Nat, n <= a, a < 2 * n PROVE a % n = a - n
  OBVIOUS

\* yield finds a task that lives, and another one if the terminal is not the
\* running task.
LEMMA NextLives ==
  ASSUME TasksInv
  PROVE  /\ NextTask = cur \/ NextTask \in Alive
         /\ cur # 1 => NextTask # cur
<1> DEFINE n == Len(tasks)
           After(i) == ((cur + i - 1) % n) + 1
           other == {i \in 1 .. n - 1 : After(i) \in Alive}
<1>1. n \in Nat /\ cur \in 1 .. n /\ DOMAIN tasks = 1 .. n
  BY SeqIs DEF TasksInv
<1>2. NextTask = IF other = {} THEN cur ELSE After(Min(other))
  BY DEF NextTask
<1>3. other # {} => Min(other) \in other
  <2>1. other \in SUBSET Nat
    BY <1>1
  <2> HIDE DEF other
  <2> QED BY <2>1, MinIs
<1>4. other # {} => After(Min(other)) \in Alive
  <2> SUFFICES ASSUME other # {} PROVE After(Min(other)) \in Alive
    OBVIOUS
  <2>1. PICK m : m = Min(other)
    OBVIOUS
  <2>2. m \in other
    BY <1>3, <2>1
  <2>3. After(m) \in Alive
    BY <2>2
  <2> QED BY <2>1, <2>3
<1>5. ASSUME NEW i \in 1 .. n - 1 PROVE After(i) # cur
  <2> DEFINE a == cur + i - 1
  <2>1. a \in Nat /\ a < 2 * n /\ n \in Nat \ {0}
    BY <1>1
  <2>2. CASE a < n
    <3>1. a % n = a
      BY <2>1, <2>2, ModBelow
    <3> QED BY <1>1, <3>1
  <2>3. CASE n <= a
    <3>1. a % n = a - n
      BY <2>1, <2>3, ModAbove
    <3> QED BY <1>1, <3>1
  <2> QED BY <1>1, <2>2, <2>3
<1>6. ASSUME cur # 1 PROVE other # {}
  <2>1. 1 \in Alive
    BY <1>1 DEF TasksInv, Alive
  <2> DEFINE i == n - (cur - 1)
  <2>2. i \in 1 .. n - 1 /\ cur + i - 1 = n /\ n \in Nat \ {0}
    BY <1>1, <1>6
  <2>3. After(i) = 1
    BY <2>2, ModEqual
  <2> QED BY <2>1, <2>2, <2>3
<1>7. ASSUME cur # 1 PROVE After(Min(other)) # cur
  <2>1. PICK m : m = Min(other)
    OBVIOUS
  <2>2. m \in 1 .. n - 1
    BY <1>3, <1>6, <1>7, <2>1
  <2>3. After(m) # cur
    BY <1>5, <2>2
  <2> QED BY <2>1, <2>3
<1> HIDE DEF other
<1> QED BY <1>2, <1>4, <1>6, <1>7

\* The ring after a switch.
LEMMA RingAfter ==
  ASSUME TasksInv, NEW f, NEW m \in Alive, m # cur, f = Dead \/ IsStack(f), f = Dead => cur # 1,
         frames' = tasks[m], cur' = m, tasks' = [tasks EXCEPT ![cur] = f, ![m] = <<>>]
  PROVE  /\ TasksInv'
         /\ DOMAIN tasks' = DOMAIN tasks
         /\ \A t \in DOMAIN tasks : tasks'[t] = IF t = m THEN <<>> ELSE IF t = cur THEN f ELSE tasks[t]
<1>1. IsSeq(tasks) /\ cur \in DOMAIN tasks /\ Len(tasks) \in Nat /\ DOMAIN tasks = 1 .. Len(tasks)
  BY SeqIs DEF TasksInv
<1>2. m \in DOMAIN tasks /\ tasks[m] # Dead
  BY DEF Alive
<1>3. tasks' = [t \in 1 .. Len(tasks) |-> IF t = m THEN <<>> ELSE IF t = cur THEN f ELSE tasks[t]]
  BY <1>1, <1>2
<1>4. tasks' = [t \in 1 .. Len(tasks) |-> tasks'[t]]
  BY <1>3
<1>5. IsSeq(tasks') /\ Len(tasks') = Len(tasks)
  BY <1>1, <1>4, FunctionIs
<1>6. \A t \in DOMAIN tasks : tasks'[t] = IF t = m THEN <<>> ELSE IF t = cur THEN f ELSE tasks[t]
  BY <1>1, <1>3
<1>7. DOMAIN tasks' = DOMAIN tasks
  BY <1>1, <1>3
<1>8. IsStack(frames')
  BY <1>2 DEF TasksInv
<1>9. tasks'[1] # Dead
  <2>1. 1 \in DOMAIN tasks
    BY <1>1
  <2>2. tasks[1] # Dead
    BY DEF TasksInv
  <2>3. <<>> # Dead
    BY NoStack, StackLives
  <2>4. cur = 1 => f # Dead
    OBVIOUS
  <2> QED BY <1>6, <2>1, <2>2, <2>3, <2>4
<1>10. \A t \in DOMAIN tasks : tasks'[t] = Dead \/ IsStack(tasks'[t])
  <2>1. \A t \in DOMAIN tasks : tasks[t] = Dead \/ IsStack(tasks[t])
    BY DEF TasksInv
  <2> QED BY <1>6, <2>1, NoStack
<1>11. TasksInv'
  <2>1. cur' \in DOMAIN tasks' /\ tasks'[cur'] = <<>>
    BY <1>2, <1>6, <1>7
  <2> QED BY <1>5, <1>7, <1>8, <1>9, <1>10, <2>1 DEF TasksInv
<1> QED BY <1>6, <1>7, <1>11

LEMMA PairIs ==
  ASSUME NEW S, NEW p
  PROVE  p \in S \X Nat <=> p = <<p[1], p[2]>> /\ p[1] \in S /\ p[2] \in Nat
<1>1. ASSUME p \in S \X Nat PROVE p = <<p[1], p[2]>> /\ p[1] \in S /\ p[2] \in Nat
  <2>1. PICK a \in S, b \in Nat : p = <<a, b>>
    BY <1>1
  <2>2. p[1] = a /\ p[2] = b
    BY <2>1
  <2> QED BY <2>1, <2>2
<1>2. ASSUME p = <<p[1], p[2]>>, p[1] \in S, p[2] \in Nat PROVE p \in S \X Nat
  BY <1>2
<1> QED BY <1>1, <1>2

\* The activations of forth_inner are the same if they are so task by task.
LEMMA InnersSame ==
  ASSUME \A t, i : (t \in Alive' /\ i \in InnerAt(StackOf(t)')) <=> (t \in Alive /\ i \in InnerAt(StackOf(t)))
  PROVE  Inners' = Inners
<1>1. \A p : p \in Inners <=> p = <<p[1], p[2]>> /\ p[1] \in Alive /\ p[2] \in Nat
                              /\ p[2] \in InnerAt(StackOf(p[1]))
  <2> SUFFICES ASSUME NEW p
               PROVE  p \in Inners <=> p = <<p[1], p[2]>> /\ p[1] \in Alive /\ p[2] \in Nat
                                       /\ p[2] \in InnerAt(StackOf(p[1]))
    OBVIOUS
  <2>1. PICK S : S = Alive
    OBVIOUS
  <2>2. p \in S \X Nat <=> p = <<p[1], p[2]>> /\ p[1] \in S /\ p[2] \in Nat
    BY PairIs
  <2>3. p \in Inners <=> p \in S \X Nat /\ p[2] \in InnerAt(StackOf(p[1]))
    BY <2>1 DEF Inners
  <2> QED BY <2>1, <2>2, <2>3
<1>2. \A p : p \in Inners' <=> p = <<p[1], p[2]>> /\ p[1] \in Alive' /\ p[2] \in Nat
                               /\ p[2] \in InnerAt(StackOf(p[1])')
  <2> SUFFICES ASSUME NEW p
               PROVE  p \in Inners' <=> p = <<p[1], p[2]>> /\ p[1] \in Alive' /\ p[2] \in Nat
                                        /\ p[2] \in InnerAt(StackOf(p[1])')
    OBVIOUS
  <2>1. PICK S : S = Alive'
    OBVIOUS
  <2>2. p \in S \X Nat <=> p = <<p[1], p[2]>> /\ p[1] \in S /\ p[2] \in Nat
    BY PairIs
  <2>3. p \in Inners' <=> p \in S \X Nat /\ p[2] \in InnerAt(StackOf(p[1])')
    BY <2>1 DEF Inners
  <2> QED BY <2>1, <2>2, <2>3
<1>3. ASSUME NEW p PROVE p \in Inners' <=> p \in Inners
  BY <1>1, <1>2
<1> QED BY <1>3

\* The activations of forth_inner are the same after a switch.
LEMMA RingInners ==
  ASSUME TasksInv, NEW f, NEW m \in Alive, m # cur, f = Dead \/ IsStack(f), f = Dead => cur # 1,
         frames' = tasks[m], cur' = m, tasks' = [tasks EXCEPT ![cur] = f, ![m] = <<>>],
         f = Dead => InnerAt(frames) = {},
         f # Dead => InnerAt(f) = InnerAt(frames)
  PROVE  Inners' = Inners
<1>1. DOMAIN tasks' = DOMAIN tasks
  BY RingAfter
<1>2. \A t \in DOMAIN tasks : tasks'[t] = IF t = m THEN <<>> ELSE IF t = cur THEN f ELSE tasks[t]
  BY RingAfter
<1>3. m \in DOMAIN tasks /\ tasks[m] # Dead /\ cur \in DOMAIN tasks /\ tasks[cur] # Dead
  BY NoStack, StackLives DEF Alive, TasksInv
<1>4. <<>> # Dead
  BY NoStack, StackLives
<1>5. \A t \in DOMAIN tasks : /\ t \in Alive <=> tasks[t] # Dead
                              /\ t \in Alive' <=> tasks'[t] # Dead
  BY <1>1 DEF Alive
<1>6. Alive \subseteq DOMAIN tasks /\ Alive' \subseteq DOMAIN tasks
  BY <1>1 DEF Alive
<1>7. ASSUME NEW t \in DOMAIN tasks, NEW i
      PROVE  (t \in Alive' /\ i \in InnerAt(StackOf(t)')) <=> (t \in Alive /\ i \in InnerAt(StackOf(t)))
  <2>1. CASE t = m
    <3>1. StackOf(t)' = tasks[m] /\ StackOf(t) = tasks[m]
      BY <2>1 DEF StackOf
    <3>2. t \in Alive' /\ t \in Alive
      BY <1>2, <1>3, <1>4, <1>5, <2>1
    <3> QED BY <3>1, <3>2
  <2>2. CASE t = cur
    <3>1. StackOf(t)' = f /\ StackOf(t) = frames /\ tasks'[t] = f
      BY <1>2, <2>2 DEF StackOf
    <3>2. t \in Alive /\ (t \in Alive' <=> f # Dead)
      BY <1>3, <1>5, <2>2, <3>1
    <3> QED BY <3>1, <3>2
  <2>3. CASE t # m /\ t # cur
    <3>1. StackOf(t)' = tasks[t] /\ StackOf(t) = tasks[t] /\ tasks'[t] = tasks[t]
      BY <1>2, <2>3 DEF StackOf
    <3> QED BY <1>5, <3>1
  <2> QED BY <2>1, <2>2, <2>3
<1>8. \A t, i : (t \in Alive' /\ i \in InnerAt(StackOf(t)')) <=> (t \in Alive /\ i \in InnerAt(StackOf(t)))
  BY <1>6, <1>7
<1> QED BY <1>8, InnersSame

LEMMA SwitchStep ==
  ASSUME TasksInv, NEW f, Switch(f), f = Dead \/ IsStack(f), f = Dead => cur # 1,
         f = Dead => InnerAt(frames) = {},
         f # Dead => InnerAt(f) = InnerAt(frames)
  PROVE  TasksInv' /\ Inners' = Inners
<1>1. CASE NextTask = cur
  <2>1. frames' = f /\ cur' = cur /\ tasks' = tasks
    BY <1>1 DEF Switch
  <2>2. f # Dead
    BY <1>1, NextLives
  <2> QED BY <2>1, <2>2, LocalStep
<1>2. CASE NextTask # cur
  <2>1. PICK m : m = NextTask
    OBVIOUS
  <2>2. frames' = tasks[m] /\ cur' = m /\ tasks' = [tasks EXCEPT ![cur] = f, ![m] = <<>>]
    BY <1>2, <2>1 DEF Switch
  <2>3. m \in Alive /\ m # cur
    BY <1>2, <2>1, NextLives
  <2>4. TasksInv'
    BY <2>2, <2>3, RingAfter
  <2>5. Inners' = Inners
    BY <2>2, <2>3, RingInners
  <2> QED BY <2>4, <2>5
<1> QED BY <1>1, <1>2
LEMMA ForkStep ==
  ASSUME TasksInv, IsStack(frames'), InnerAt(frames') = InnerAt(frames), cur' = cur,
         tasks' = Append(tasks, <<ThreadFrame>>)
  PROVE  TasksInv' /\ Inners' = Inners
<1> DEFINE n == Len(tasks)
<1>1. IsSeq(tasks) /\ n \in Nat /\ DOMAIN tasks = 1 .. n /\ cur \in 1 .. n /\ tasks[cur] = <<>>
  BY SeqIs DEF TasksInv
<1>2. /\ IsSeq(tasks') /\ DOMAIN tasks' = 1 .. n + 1
      /\ \A t \in 1 .. n : tasks'[t] = tasks[t]
      /\ tasks'[n + 1] = <<ThreadFrame>>
  BY <1>1, AppendIs
<1> HIDE DEF n
<1>3. \A t \in 1 .. n + 1 : t \in 1 .. n \/ t = n + 1
  BY <1>1
<1>4. IsStack(<<ThreadFrame>>) /\ InnerAt(<<ThreadFrame>>) = {}
  BY OneStack DEF ThreadFrame
<1>5. TasksInv'
  <2>1. tasks'[1] # Dead
    BY <1>1, <1>2 DEF TasksInv
  <2>2. \A t \in DOMAIN tasks' : tasks'[t] = Dead \/ IsStack(tasks'[t])
    BY <1>1, <1>2, <1>3, <1>4 DEF TasksInv
  <2>3. cur' \in DOMAIN tasks' /\ tasks'[cur'] = <<>>
    BY <1>1, <1>2
  <2> QED BY <1>2, <2>1, <2>2, <2>3 DEF TasksInv
<1>6. ASSUME NEW t, NEW i
      PROVE  (t \in Alive' /\ i \in InnerAt(StackOf(t)')) <=> (t \in Alive /\ i \in InnerAt(StackOf(t)))
  <2>1. CASE t \in 1 .. n
    <3>1. t \in Alive' <=> t \in Alive
      BY <1>1, <1>2, <2>1 DEF Alive
    <3>2. CASE t = cur
      <4>1. StackOf(t)' = frames' /\ StackOf(t) = frames
        BY <3>2 DEF StackOf
      <4> QED BY <3>1, <4>1
    <3>3. CASE t # cur
      <4>1. StackOf(t)' = tasks[t] /\ StackOf(t) = tasks[t]
        BY <1>2, <2>1, <3>3 DEF StackOf
      <4> QED BY <3>1, <4>1
    <3> QED BY <3>2, <3>3
  <2>2. CASE t = n + 1
    <3>1. t # cur /\ t \notin 1 .. n
      BY <1>1, <2>2
    <3>2. StackOf(t)' = <<ThreadFrame>>
      BY <1>2, <2>2, <3>1 DEF StackOf
    <3> QED BY <1>1, <1>4, <3>1, <3>2 DEF Alive
  <2>3. CASE t \notin 1 .. n + 1
    <3>1. t \notin 1 .. n
      BY <1>1, <2>3
    <3> QED BY <1>1, <1>2, <2>3, <3>1 DEF Alive
  <2> QED BY <1>3, <2>1, <2>2, <2>3
<1>7. Inners' = Inners
  BY <1>6, InnersSame
<1> QED BY <1>5, <1>7

----------------------------------------------------------------------------
(* The return stack.                                                       *)

LEMMA PushIs ==
  ASSUME Flags, NEW v, NEW b \in BOOLEAN, rs' = rs_push(rs, v), borrowed' = Pushed(b)
  PROVE  /\ borrowed' \in Seq(BOOLEAN) /\ IsSeq(rs') /\ Len(rs') = Len(borrowed')
         /\ Len(rs) >= RETURN_STACK_SIZE => Returns' = Returns /\ rs' = rs
         /\ ~(Len(rs) >= RETURN_STACK_SIZE) =>
              /\ Returns' = IF b THEN Returns ELSE Returns \cup {Len(rs) + 1}
              /\ rs'[Len(rs) + 1] = v
         /\ \A i \in Returns : rs'[i] = rs[i] /\ i \in 1 .. Len(rs)
         /\ Len(rs) \in Nat
<1>1. IsSeq(rs) /\ borrowed \in Seq(BOOLEAN) /\ Len(rs) = Len(borrowed)
  BY DEF Flags
<1>2. Len(rs) \in Nat /\ DOMAIN rs = 1 .. Len(rs)
  BY <1>1, SeqIs
<1>3. CASE Len(rs) >= RETURN_STACK_SIZE
  <2>1. rs' = rs /\ borrowed' = borrowed
    BY <1>3 DEF rs_push, Pushed
  <2>2. Returns' = Returns
    BY <2>1 DEF Returns
  <2> QED BY <1>1, <1>2, <1>3, <2>1, <2>2 DEF Returns
<1>4. CASE ~(Len(rs) >= RETURN_STACK_SIZE)
  <2>1. rs' = Append(rs, v) /\ borrowed' = Append(borrowed, b)
    BY <1>4 DEF rs_push, Pushed
  <2>2. /\ IsSeq(rs') /\ Len(rs') = Len(rs) + 1 /\ DOMAIN rs' = 1 .. Len(rs) + 1
        /\ \A i \in 1 .. Len(rs) : rs'[i] = rs[i]
        /\ rs'[Len(rs) + 1] = v
    BY <1>1, <2>1, AppendIs
  <2>3. /\ borrowed' \in Seq(BOOLEAN) /\ Len(borrowed') = Len(rs) + 1
        /\ \A i \in 1 .. Len(rs) : borrowed'[i] = borrowed[i]
        /\ borrowed'[Len(rs) + 1] = b
    BY <1>1, <1>2, <2>1
  <2>4. \A i \in 1 .. Len(rs) + 1 : i \in 1 .. Len(rs) \/ i = Len(rs) + 1
    BY <1>2
  <2>5. \A i : i \in Returns' <=> i \in Returns \/ (i = Len(rs) + 1 /\ ~b)
    BY <1>2, <2>2, <2>3, <2>4 DEF Returns
  <2>6. Returns' = IF b THEN Returns ELSE Returns \cup {Len(rs) + 1}
    BY <2>5
  <2> QED BY <1>2, <1>4, <2>2, <2>3, <2>6 DEF Returns
<1> QED BY <1>3, <1>4

LEMMA PopIs ==
  ASSUME Flags, rs' = rs_rest(rs), borrowed' = Popped
  PROVE  /\ borrowed' \in Seq(BOOLEAN) /\ IsSeq(rs') /\ Len(rs') = Len(borrowed')
         /\ Returns' = Returns \ {Len(rs)}
         /\ \A i \in Returns' : rs'[i] = rs[i]
         /\ Returns # {} => rs # <<>>
         /\ \A i \in Returns : i \in Nat /\ i <= Len(rs)
         /\ rs # <<>> => /\ Last(borrowed) \in BOOLEAN
                         /\ Len(rs) \in Returns <=> ~Last(borrowed)
<1>1. IsSeq(rs) /\ borrowed \in Seq(BOOLEAN) /\ Len(rs) = Len(borrowed)
  BY DEF Flags
<1>2. Len(rs) \in Nat /\ DOMAIN rs = 1 .. Len(rs)
  BY <1>1, SeqIs
<1>3. CASE rs = <<>>
  <2>1. rs' = rs /\ borrowed' = borrowed
    BY <1>3 DEF rs_rest, Popped
  <2>2. Returns = {} /\ Returns' = {}
    BY <1>3, <2>1, EmptyIs DEF Returns
  <2> QED BY <1>1, <1>3, <2>1, <2>2
<1>4. CASE rs # <<>>
  <2>1. rs' = Front(rs) /\ borrowed' = Front(borrowed)
    BY <1>4 DEF rs_rest, Popped, Front
  <2>2. /\ IsSeq(rs') /\ Len(rs') = Len(rs) - 1 /\ DOMAIN rs' = 1 .. Len(rs) - 1
        /\ Len(rs) \in Nat \ {0}
        /\ \A i \in 1 .. Len(rs) - 1 : rs'[i] = rs[i]
    BY <1>1, <1>4, <2>1, FrontIs
  <2>3. /\ borrowed' \in Seq(BOOLEAN) /\ Len(borrowed') = Len(rs) - 1
        /\ \A i \in 1 .. Len(rs) - 1 : borrowed'[i] = borrowed[i]
    BY <1>1, <2>1, <2>2 DEF Front
  <2>4. Last(borrowed) = borrowed[Len(rs)] /\ Last(borrowed) \in BOOLEAN
    BY <1>1, <2>2 DEF Last
  <2>5. \A i : i \in Returns' <=> i \in Returns /\ i # Len(rs)
    BY <1>2, <2>2, <2>3 DEF Returns
  <2>6. Returns' = Returns \ {Len(rs)}
    BY <2>5
  <2>7. \A i \in Returns' : rs'[i] = rs[i]
    BY <2>2 DEF Returns
  <2>8. \A i \in Returns : i \in Nat /\ i <= Len(rs)
    BY <1>2 DEF Returns
  <2>9. Len(rs) \in Returns <=> ~Last(borrowed)
    BY <1>2, <2>2, <2>4 DEF Returns
  <2> QED BY <1>4, <2>2, <2>3, <2>4, <2>6, <2>7, <2>8, <2>9
<1> QED BY <1>3, <1>4
\* A step that leaves return addresses, ip and activations as they are.
LEMMA SameReturns ==
  ASSUME ReturnInv, Returns' = Returns, \A i \in Returns : rs'[i] = rs[i], ip' = ip, nested' = nested,
         ~lost' => ~lost, ~wild' => ~wild, Inners' = Inners
  PROVE  ReturnInv'
<1>1. SUFFICES ASSUME ~lost', ~wild' PROVE Threaded' /\ (nested' \/ Single')
  BY DEF ReturnInv
<1>2. Threaded /\ (nested \/ Single)
  BY <1>1 DEF ReturnInv
<1>3. Threaded'
  BY <1>2 DEF Threaded
<1>4. Single => Single'
  BY DEF Single
<1> QED BY <1>2, <1>3, <1>4

Still == UNCHANGED <<rs, ip, wild, nested, lost, borrowed>> /\ misused' \in BOOLEAN

LEMMA StillKeeps ==
  ASSUME Flags, ReturnInv, Still, Inners' = Inners
  PROVE  Flags' /\ ReturnInv'
<1>1. Flags'
  BY DEF Flags, Still
<1>2. Returns' = Returns
  BY DEF Returns, Still
<1>3. ReturnInv'
  BY <1>2, SameReturns DEF Still
<1> QED BY <1>1, <1>3

LEMMA FaultKeeps ==
  ASSUME TasksInv, Flags, Fault
  PROVE  TasksInv' /\ Flags' /\ ReturnInv'
<1>1. TasksInv'
  BY DEF TasksInv, Fault, sched
<1>2. Flags'
  BY DEF Flags, Fault, hist
<1>3. wild' = TRUE
  BY DEF Fault
<1>4. ReturnInv'
  BY <1>3 DEF ReturnInv
<1> QED BY <1>1, <1>2, <1>4

\* forth_execute returns, or goes on to another call.
LEMMA CallReturns ==
  ASSUME TasksInv, Top("call")
  PROVE  IsStack(Return(frames)) /\ InnerAt(Return(frames)) = InnerAt(frames)
<1>1. IsStack(frames) /\ frames # <<>> /\ Last(frames).kind = "call"
  BY DEF TasksInv, Top
<1> QED BY <1>1, PopStack DEF Return

LEMMA ReturnStep ==
  ASSUME TasksInv, Top("call"), frames' = Return(frames), cur' = cur, tasks' = tasks
  PROVE  TasksInv' /\ Inners' = Inners
  BY CallReturns, LocalStep

LEMMA ParamPlace ==
  ASSUME DictInv(dict), NEW e \in Entries(dict)
  PROVE  dict_get_param_field(dict, e) \in CodeAddrs
<1>1. /\ dict.here \in CodeAddrs /\ e \in Region
      /\ dict_get_code_field(dict, e) \in e + 1 .. dict.here - 1
  BY DEF DictInv, Shaped, Placed
<1> QED BY <1>1, RegionAssumption DEF dict_get_param_field, CodeAddrs, Region

LEMMA NativeKeeps ==
  ASSUME TasksInv, Flags, ReturnInv, Top("call"), NEW w, native(w)
  PROVE  TasksInv' /\ Flags' /\ ReturnInv'
<1>0. misused \in BOOLEAN
  BY DEF Flags
<1>1. ASSUME frames' = Return(frames), cur' = cur, tasks' = tasks, Still
      PROVE  TasksInv' /\ Flags' /\ ReturnInv'
  BY <1>1, ReturnStep, StillKeeps
<1>2. CASE compute(w) \/ w_here \/ w_comma \/ w_base \/ w_r_fetch \/ w_immediate \/ w_if \/ w_while
           \/ w_begin \/ w_until \/ w_again \/ w_do \/ w_loop
  <2>1. Quiet
    BY <1>2 DEF compute, w_here, w_comma, w_base, w_r_fetch, w_immediate, w_if, w_while, w_begin,
                w_until, w_again, w_do, w_loop
  <2>2. frames' = Return(frames) /\ cur' = cur /\ tasks' = tasks /\ Still
    BY <1>0, <2>1 DEF Quiet, sched, hist, Still
  <2> QED BY <1>1, <2>2
<1>3. CASE runaway(w)
  BY <1>3, FaultKeeps DEF runaway
<1>4. CASE parsing(w)
  <2>1. PICK p \in parse_word : Parsing(p)
    BY <1>4 DEF parsing
  <2>2. frames' = Return(frames) /\ cur' = cur /\ tasks' = tasks /\ Still
    BY <1>0, <2>1 DEF Parsing, sched, hist, Still
  <2> QED BY <1>1, <2>2
<1>5. CASE w_semicolon \/ SetBase(16) \/ SetBase(10)
  <2>1. frames' = Return(frames) /\ cur' = cur /\ tasks' = tasks /\ Still
    BY <1>0, <1>5 DEF w_semicolon, SetBase, sched, hist, Still
  <2> QED BY <1>1, <2>1
<1>6. CASE w_else \/ w_then \/ w_repeat
  <2>1. PICK cells, a : Store(cells, a)
    BY <1>6 DEF w_else, w_then, w_repeat
  <2>2. frames' = Return(frames) /\ cur' = cur /\ tasks' = tasks /\ Still
    BY <1>0, <2>1 DEF Store, EmitPatch, EmitLow, Quiet, sched, hist, Still
  <2> QED BY <1>1, <2>2
<1>7. CASE w_execute \/ w_load
  <2>1. PICK x : frames' = Append(Return(frames), x) /\ x.kind \in {"call", "load"}
    BY <1>7 DEF w_execute, w_load, Call, LoadFrame
  <2>2. IsStack(frames') /\ InnerAt(frames') = InnerAt(frames)
    BY <2>1, CallReturns, PushStack
  <2>3. cur' = cur /\ tasks' = tasks /\ Still
    BY <1>0, <1>7 DEF w_execute, w_load, sched, hist, Still
  <2>4. TasksInv' /\ Inners' = Inners
    BY <2>2, <2>3, LocalStep
  <2> QED BY <2>3, <2>4, StillKeeps
<1>8. CASE w_fork
  <2>1. /\ frames' = Return(frames) /\ cur' = cur /\ tasks' = Append(tasks, <<ThreadFrame>>)
        /\ Still
    BY <1>0, <1>8 DEF w_fork, hist, Still
  <2>2. TasksInv' /\ Inners' = Inners
    BY <2>1, CallReturns, ForkStep
  <2> QED BY <2>1, <2>2, StillKeeps
<1>9. CASE w_yield
  <2>1. Switch(Return(frames)) /\ Still
    BY <1>0, <1>9 DEF w_yield, Still
  <2>2. Return(frames) # Dead
    BY CallReturns, StackLives
  <2>3. TasksInv' /\ Inners' = Inners
    BY <2>1, <2>2, CallReturns, SwitchStep
  <2> QED BY <2>1, <2>3, StillKeeps
<1>10. CASE w_to_r
  <2>1. /\ frames' = Return(frames) /\ cur' = cur /\ tasks' = tasks
        /\ rs' = rs_push(rs, ds_peek(ds)) /\ borrowed' = Pushed(TRUE)
        /\ UNCHANGED <<ip, wild, nested, lost, misused>>
    BY <1>10 DEF w_to_r, sched
  <2>2. TasksInv' /\ Inners' = Inners
    BY <2>1, ReturnStep
  <2>3. PICK t \in BOOLEAN : t = TRUE
    OBVIOUS
  <2>4. borrowed' = Pushed(t)
    BY <2>1, <2>3
  <2>5. /\ borrowed' \in Seq(BOOLEAN) /\ IsSeq(rs') /\ Len(rs') = Len(borrowed')
        /\ Returns' = Returns
        /\ \A i \in Returns : rs'[i] = rs[i]
    BY <2>1, <2>3, <2>4, PushIs
  <2>6. Flags'
    BY <2>1, <2>5 DEF Flags
  <2>7. ReturnInv'
    BY <2>1, <2>2, <2>5, SameReturns
  <2> QED BY <2>2, <2>6, <2>7
<1>11. CASE w_from_r
  <2>1. /\ frames' = Return(frames) /\ cur' = cur /\ tasks' = tasks
        /\ rs' = rs_rest(rs) /\ borrowed' = Popped /\ lost' = (lost \/ OnTop(FALSE))
        /\ UNCHANGED <<ip, wild, nested, misused>>
    BY <1>11 DEF w_from_r, sched
  <2>2. TasksInv' /\ Inners' = Inners
    BY <2>1, ReturnStep
  <2>3. /\ borrowed' \in Seq(BOOLEAN) /\ IsSeq(rs') /\ Len(rs') = Len(borrowed')
        /\ Returns' = Returns \ {Len(rs)}
        /\ \A i \in Returns' : rs'[i] = rs[i]
        /\ Returns # {} => rs # <<>>
        /\ rs # <<>> => (Len(rs) \in Returns <=> ~Last(borrowed)) /\ Last(borrowed) \in BOOLEAN
    BY <2>1, PopIs
  <2>4. Flags'
    BY <2>1, <2>3 DEF Flags
  <2>5. CASE lost'
    BY <2>2, <2>4, <2>5 DEF ReturnInv
  <2>6. CASE ~lost'
    <3>1. ~lost /\ ~OnTop(FALSE)
      BY <2>1, <2>6
    <3>2. Len(rs) \notin Returns
      BY <2>3, <3>1 DEF OnTop
    <3>3. Returns' = Returns
      BY <2>3, <3>2
    <3>4. ReturnInv'
      BY <2>1, <2>2, <2>3, <3>1, <3>3, SameReturns
    <3> QED BY <2>2, <2>4, <3>4
  <2> QED BY <2>5, <2>6
<1> QED BY <1>2, <1>3, <1>4, <1>5, <1>6, <1>7, <1>8, <1>9, <1>10, <1>11 DEF native
LEMMA NullOutside == NULL \notin CodeAddrs /\ 1 \notin CodeAddrs
<1>1. Native[1] = 11 /\ 1 \in DOMAIN Native
  BY PrimitivesAssumption DEF Native
<1>2. 11 < DICT_VIRT_BASE
  BY <1>1, PrimitivesAssumption
<1> QED BY <1>2, RegionAssumption DEF NULL, CodeAddrs

\* A colon word is entered from return address r.
LEMMA LowOutside == ~InRegion(0) /\ ~InRegion(1)
  BY Above, RegionAssumption DEF InRegion

LEMMA DocolKeeps ==
  ASSUME DictInv(dict), Flags, ReturnInv, NEW e \in Entries(dict), NEW r, Docol(e, r),
         wild' = wild, nested' \in BOOLEAN, misused' = misused,
         ~nested' => ~nested,
         Inners' # {},
         (~lost /\ ~wild) => r \in Int,
         (~lost /\ ~wild /\ Returns # {}) => r \in CodeAddrs,
         (~lost /\ ~wild /\ ~nested') => \/ Inners' = Inners
                                         \/ r = NULL /\ \A p, q \in Inners' : p = q
  PROVE  Flags' /\ ReturnInv'
<1>1. /\ rs' = rs_push(rs, r) /\ borrowed' = Pushed(FALSE)
      /\ lost' = (lost \/ Len(rs) >= RETURN_STACK_SIZE)
      /\ ip' = dict_get_param_field(dict, e)
  BY DEF Docol
<1>2. ip' \in CodeAddrs /\ ip' \in Int
  BY <1>1, ParamPlace, RegionAssumption DEF CodeAddrs
<1>3. PICK f \in BOOLEAN : f = FALSE
  OBVIOUS
<1>4. borrowed' = Pushed(f)
  BY <1>1, <1>3
<1>5. /\ borrowed' \in Seq(BOOLEAN) /\ IsSeq(rs') /\ Len(rs') = Len(borrowed')
      /\ ~(Len(rs) >= RETURN_STACK_SIZE) =>
           Returns' = Returns \cup {Len(rs) + 1} /\ rs'[Len(rs) + 1] = r
      /\ \A i \in Returns : rs'[i] = rs[i] /\ i \in 1 .. Len(rs)
      /\ Len(rs) \in Nat
  BY <1>1, <1>3, <1>4, PushIs
<1>6. lost' \in BOOLEAN
  BY <1>1
<1>7. Flags'
  BY <1>5, <1>6 DEF Flags
<1>8. ASSUME ~lost', ~wild' PROVE Threaded' /\ (nested' \/ Single')
  <2> DEFINE k == Len(rs) + 1
  <2>1. ~lost /\ ~wild /\ ~(Len(rs) >= RETURN_STACK_SIZE)
    BY <1>1, <1>8
  <2>2. Returns' = Returns \cup {k} /\ rs'[k] = r /\ k \in Int
    BY <1>5, <2>1
  <2>3. Threaded /\ (nested \/ Single)
    BY <2>1 DEF ReturnInv
  <2>4. \A i \in Returns : i < k /\ i \in Int
    BY <1>5
  <2> HIDE DEF k
  <2>5. \A i \in Returns' : rs'[i] \in Int
    BY <1>5, <2>1, <2>2, <2>3 DEF Threaded
  <2>6. \A i, j \in Returns' : j < i => rs'[i] \in CodeAddrs
    <3>1. ASSUME NEW i \in Returns', NEW j \in Returns', j < i PROVE rs'[i] \in CodeAddrs
      <4>1. CASE i = k
        <5>1. j \in Returns
          BY <2>2, <3>1, <4>1
        <5> QED BY <2>1, <2>2, <4>1, <5>1
      <4>2. CASE i # k
        <5>1. i \in Returns
          BY <2>2, <4>2
        <5>2. j \in Returns
          BY <2>2, <2>4, <3>1, <5>1
        <5> QED BY <1>5, <2>3, <3>1, <5>1, <5>2 DEF Threaded
      <4> QED BY <4>1, <4>2
    <3> QED BY <3>1
  <2>7. Threaded'
    BY <1>2, <2>5, <2>6 DEF Threaded
  <2>8. ASSUME ~nested' PROVE Single'
    <3>1. Single
      BY <2>3, <2>8
    <3>2. CASE Inners' = Inners
      <4>1. PICK i \in Returns : rs[i] = NULL
        BY <3>1, <3>2 DEF Single
      <4>2. i \in Returns' /\ rs'[i] = NULL
        BY <1>5, <2>2, <4>1
      <4> QED BY <3>1, <3>2, <4>2 DEF Single
    <3>3. CASE r = NULL /\ \A p, q \in Inners' : p = q
      <4>1. k \in Returns' /\ rs'[k] = NULL
        BY <2>2, <3>3
      <4> QED BY <3>3, <4>1 DEF Single
    <3> QED BY <2>1, <2>8, <3>2, <3>3
  <2> QED BY <2>7, <2>8
<1> QED BY <1>7, <1>8 DEF ReturnInv

LEMMA ExecuteKeeps ==
  ASSUME DictInv(dict), TasksInv, Flags, ReturnInv, forth_execute
  PROVE  TasksInv' /\ Flags' /\ ReturnInv'
<1> DEFINE e == Last(frames).xt
<1>1. Top("call")
  BY DEF forth_execute
<1>2. CASE Fault
  BY <1>2, FaultKeeps
<1>3. CASE native(PrimitiveOf(CodeOf(e)))
  BY <1>1, <1>3, NativeKeeps
<1>4. CASE Quiet
  <2>1. frames' = Return(frames) /\ cur' = cur /\ tasks' = tasks /\ Still
    BY <1>4 DEF Quiet, sched, hist, Still, Flags
  <2>2. TasksInv' /\ Inners' = Inners
    BY <1>1, <2>1, ReturnStep
  <2> QED BY <2>1, <2>2, StillKeeps
<1>5. CASE /\ Executable(e) /\ Docol(e, ip) /\ frames' = Append(Return(frames), InnerFrame)
           /\ nested' = (nested \/ InInner) /\ UNCHANGED <<sched, wild, misused>>
  <2> HIDE DEF e
  <2>1. IsStack(Return(frames)) /\ InnerAt(Return(frames)) = InnerAt(frames)
    BY <1>1, CallReturns
  <2> DEFINE k == Len(Return(frames)) + 1
  <2>2. /\ IsStack(frames') /\ InnerAt(frames') = InnerAt(frames) \cup {k} /\ k \in Nat
    <3>1. InnerFrame.kind = "inner"
      BY DEF InnerFrame
    <3>2. /\ IsStack(frames') /\ InnerAt(frames') = InnerAt(Return(frames)) \cup {k}
          /\ Len(Return(frames)) \in Nat
      BY <1>5, <2>1, <3>1, PushStack
    <3> QED BY <2>1, <3>2
  <2> HIDE DEF k
  <2>3. cur' = cur /\ tasks' = tasks
    BY <1>5 DEF sched
  <2>4. TasksInv' /\ Inners' = Inners \cup {<<cur, k>>}
    BY <2>2, <2>3, LocalStep
  <2>5. e \in Entries(dict)
    BY <1>5 DEF Executable
  <2>6. InInner <=> Inners # {}
    BY InnersSeen
  <2>7. nested' \in BOOLEAN /\ (~nested' => ~nested /\ Inners = {})
    BY <1>5, <2>6 DEF Flags
  <2>8. (~lost /\ ~wild) => Threaded /\ (nested \/ Single)
    BY DEF ReturnInv
  <2>9. (~lost /\ ~wild) => ip \in Int
    BY <2>8 DEF Threaded
  <2>10. (~lost /\ ~wild /\ Returns # {}) => ip \in CodeAddrs
    BY <2>8 DEF Threaded
  <2>11. (~lost /\ ~wild /\ ~nested') => ip = NULL /\ \A p, q \in Inners' : p = q
    BY <2>4, <2>7, <2>8 DEF Single
  <2>12. Inners' # {} /\ wild' = wild /\ misused' = misused
    BY <1>5, <2>4
  <2>13. Docol(e, ip)
    BY <1>5
  <2>14. Flags' /\ ReturnInv'
    BY <2>5, <2>7, <2>9, <2>10, <2>11, <2>12, <2>13, DocolKeeps
  <2> QED BY <2>4, <2>14
<1>6. \/ Fault \/ native(PrimitiveOf(CodeOf(e))) \/ Quiet
      \/ /\ Executable(e) /\ Docol(e, ip) /\ frames' = Append(Return(frames), InnerFrame)
         /\ nested' = (nested \/ InInner) /\ UNCHANGED <<sched, wild, misused>>
  BY ZenonT(30) DEF forth_execute
<1> QED BY <1>2, <1>3, <1>4, <1>5, <1>6

\* What forth_inner fetches outside the region is 0.
LEMMA FetchInside ==
  ASSUME DictInv(dict), NEW a, Fetch(a) # 0
  PROVE  InRegion(a)
<1>1. SUFFICES ASSUME ~InRegion(a) PROVE Fetch(a) = 0
  OBVIOUS
<1>2. Entries(dict) \subseteq Region
  BY DEF DictInv, Shaped
<1>3. a \notin Entries(dict)
  BY <1>1, <1>2, RegionAssumption DEF Region, InRegion
<1> QED BY <1>1, <1>3 DEF Fetch, FetchIn

LEMMA InnerTop ==
  ASSUME TasksInv, Top("inner")
  PROVE  /\ Len(frames) \in InnerAt(frames) /\ <<cur, Len(frames)>> \in Inners
         /\ IsStack(Return(frames)) /\ InnerAt(Return(frames)) = InnerAt(frames) \ {Len(frames)}
<1>1. IsStack(frames) /\ frames # <<>> /\ Last(frames).kind = "inner"
  BY DEF TasksInv, Top
<1>2. /\ IsStack(Front(frames)) /\ InnerAt(Front(frames)) = InnerAt(frames) \ {Len(frames)}
      /\ Len(frames) \in InnerAt(frames)
  BY <1>1, PopStack
<1>3. cur \in Alive /\ StackOf(cur) = frames
  BY NoStack, StackLives DEF TasksInv, Alive, StackOf
<1>4. Len(frames) \in Nat
  BY <1>1, SeqIs DEF IsStack
<1>5. <<cur, Len(frames)>> \in Inners
  BY <1>2, <1>3, <1>4 DEF Inners
<1> QED BY <1>2, <1>5 DEF Return

\* The loop of forth_inner, one lemma for each way a turn can go.
LEMMA ExitKeeps ==
  ASSUME TasksInv, Flags, ReturnInv, Top("inner"), InnerExit
  PROVE  TasksInv' /\ Flags' /\ ReturnInv'
<1> DEFINE k == Len(rs)
           x == <<cur, Len(frames)>>
<1>1. /\ rs' = rs_rest(rs) /\ borrowed' = Popped /\ lost' = (lost \/ OnTop(TRUE))
      /\ ip' = rs_peek(rs) /\ wild' = wild /\ nested' = nested /\ misused' = misused
      /\ cur' = cur /\ tasks' = tasks
      /\ frames' = IF rs_peek(rs) = NULL THEN Return(frames) ELSE frames
  BY DEF InnerExit, sched
<1>2. /\ borrowed' \in Seq(BOOLEAN) /\ IsSeq(rs') /\ Len(rs') = Len(borrowed')
      /\ Returns' = Returns \ {k}
      /\ \A i \in Returns' : rs'[i] = rs[i]
      /\ Returns # {} => rs # <<>>
      /\ \A i \in Returns : i \in Nat /\ i <= k
      /\ rs # <<>> => /\ Last(borrowed) \in BOOLEAN
                      /\ k \in Returns <=> ~Last(borrowed)
  BY <1>1, PopIs
<1>3. /\ Len(frames) \in InnerAt(frames) /\ x \in Inners
      /\ IsStack(Return(frames)) /\ InnerAt(Return(frames)) = InnerAt(frames) \ {Len(frames)}
  BY InnerTop
<1>4. IsStack(frames) /\ IsStack(frames')
  BY <1>1, <1>3 DEF TasksInv
<1>5. /\ TasksInv'
      /\ InnerAt(frames') = InnerAt(frames) => Inners' = Inners
      /\ InnerAt(frames') = InnerAt(frames) \ {Len(frames)} => Inners' = Inners \ {x}
  BY <1>1, <1>3, <1>4, LocalStep
<1>6. rs_peek(rs) = NULL => Inners' = Inners \ {x}
  BY <1>1, <1>3, <1>5
<1>7. rs_peek(rs) # NULL => Inners' = Inners
  BY <1>1, <1>5
<1>8. Flags'
  BY <1>1, <1>2 DEF Flags
<1>9. ASSUME ~lost', ~wild' PROVE Threaded' /\ (nested' \/ Single')
  <2>1. ~lost /\ ~wild /\ ~OnTop(TRUE)
    BY <1>1, <1>9
  <2>2. Threaded /\ (nested \/ Single)
    BY <2>1 DEF ReturnInv
  <2>3. CASE rs = <<>>
    <3>1. Returns = {} /\ Returns' = {}
      BY <1>2, <2>3
    <3>2. ip' = 0 /\ nested
      BY <1>1, <1>3, <2>2, <2>3, <3>1 DEF rs_peek, Single
    <3>3. ~InRegion(0)
      BY LowOutside
    <3> QED BY <1>1, <3>1, <3>2, <3>3 DEF Threaded
  <2>4. CASE rs # <<>>
    <3>1. k \in Returns
      BY <1>2, <2>1, <2>4 DEF OnTop
    <3>2. rs_peek(rs) = rs[k] /\ rs[k] \in Int
      BY <2>2, <2>4, <3>1 DEF rs_peek, Threaded
    <3>3. \A i \in Returns : i # k => i < k
      BY <1>2, <3>1
    <3>4. ASSUME NEW j \in Returns, j # k PROVE rs[k] \in CodeAddrs /\ rs[k] # NULL
      BY <2>2, <3>1, <3>3, <3>4, NullOutside DEF Threaded
    <3> HIDE DEF k, x
    <3>5. Returns' # {} => rs[k] \in CodeAddrs /\ Inners' = Inners
      BY <1>2, <1>7, <3>2, <3>4
    <3>6. \A i \in Returns' : rs'[i] \in Int
      BY <1>2, <2>2 DEF Threaded
    <3>7. \A i, j \in Returns' : j < i => rs'[i] \in CodeAddrs
      BY <1>2, <2>2 DEF Threaded
    <3>10. Inners' = {} => ip' = 0
      BY <1>1, <1>3, <1>7 DEF NULL
    <3>8. Threaded'
      BY <1>1, <1>3, <3>2, <3>5, <3>6, <3>7, <3>10, LowOutside DEF Threaded
    <3>9. ASSUME ~nested' PROVE Single'
      <4>1. Single
        BY <1>1, <2>2, <3>9
      <4>2. PICK i \in Returns : rs[i] = NULL
        BY <1>3, <4>1 DEF Single
      <4>3. CASE i = k
        <5>1. Inners' = {} /\ ip' = NULL
          BY <1>1, <1>3, <1>6, <3>2, <4>1, <4>2, <4>3 DEF Single
        <5> QED BY <5>1 DEF Single
      <4>4. CASE i # k
        <5>1. i \in Returns' /\ rs'[i] = NULL /\ Inners' = Inners
          BY <1>2, <3>5, <4>2, <4>4
        <5> QED BY <1>3, <4>1, <5>1 DEF Single
      <4> QED BY <4>3, <4>4
    <3> QED BY <3>8, <3>9
  <2> QED BY <2>3, <2>4
<1> QED BY <1>5, <1>8, <1>9 DEF ReturnInv

LEMMA AdvanceInside ==
  ASSUME NEW a, InRegion(a)
  PROVE  /\ a \in Int => Advance(a) \in CodeAddrs /\ Advance(a) \in Int /\ Advance(a) = a + 1
  BY RegionAssumption DEF Advance, InRegion, CodeAddrs

\* ip moves within the code, the return stack stays.
LEMMA MovesKeeps ==
  ASSUME Flags, ReturnInv, Inners # {}, Inners' = Inners,
         UNCHANGED <<rs, borrowed, lost, wild, nested, misused>>,
         (~lost /\ ~wild) => ip' \in Int,
         (~lost /\ ~wild /\ Returns # {}) => ip' \in CodeAddrs
  PROVE  Flags' /\ ReturnInv'
<1>1. Returns' = Returns
  BY DEF Returns
<1>2. Flags'
  BY DEF Flags
<1>3. ASSUME ~lost', ~wild' PROVE Threaded' /\ (nested' \/ Single')
  <2>1. ~lost /\ ~wild /\ Threaded /\ (nested \/ Single)
    BY <1>3 DEF ReturnInv
  <2>2. Threaded'
    BY <1>1, <2>1 DEF Threaded
  <2>3. Single => Single'
    BY <1>1 DEF Single
  <2> QED BY <2>1, <2>2, <2>3
<1> QED BY <1>2, <1>3 DEF ReturnInv

LEMMA LiteralKeeps ==
  ASSUME DictInv(dict), TasksInv, Flags, ReturnInv, Top("inner"), InnerLiteral
  PROVE  TasksInv' /\ Flags' /\ ReturnInv'
<1>1. /\ ip' = Advance(Advance(ip)) /\ Mapped(Advance(ip)) /\ Fetch(ip) = do_literal
      /\ frames' = frames /\ cur' = cur /\ tasks' = tasks
      /\ UNCHANGED <<rs, borrowed, lost, wild, nested, misused>>
  BY DEF InnerLiteral, sched, hist
<1>2. InRegion(ip)
  BY <1>1, FetchInside DEF do_literal
<1>3. (~lost /\ ~wild) => ip \in Int
  BY DEF ReturnInv, Threaded
<1>4. (~lost /\ ~wild) => ip' \in CodeAddrs /\ ip' \in Int
  <2>1. SUFFICES ASSUME ip \in Int PROVE ip' \in CodeAddrs /\ ip' \in Int
    BY <1>3
  <2>2. Advance(ip) = ip + 1 /\ Advance(ip) \in CodeAddrs
    BY <1>2, <2>1, AdvanceInside
  <2>3. Advance(ip) \in Int /\ InRegion(Advance(ip))
    BY <1>1, <2>2, RegionAssumption DEF Mapped, InRegion, CodeAddrs
  <2> QED BY <1>1, <2>3, AdvanceInside
<1>5. TasksInv' /\ Inners' = Inners
  BY <1>1, LocalStep DEF TasksInv
<1>6. Inners # {}
  BY InnerTop
<1>7. Flags' /\ ReturnInv'
  BY <1>1, <1>4, <1>5, <1>6, MovesKeeps
<1> QED BY <1>5, <1>7

LEMMA InvalidKeeps ==
  ASSUME TasksInv, Flags, ReturnInv, Top("inner"), InnerInvalid
  PROVE  TasksInv' /\ Flags' /\ ReturnInv'
<1>1. /\ ip' = Advance(ip) /\ Mapped(ip) /\ frames' = Return(frames) /\ cur' = cur /\ tasks' = tasks
      /\ lost' = (lost \/ InRegion(ip))
      /\ UNCHANGED <<rs, borrowed, wild, nested, misused>>
  BY DEF InnerInvalid, sched
<1>2. Inners # {} /\ IsStack(frames')
  BY <1>1, InnerTop
<1>3. TasksInv'
  BY <1>1, <1>2, LocalStep
<1>4. Returns' = Returns
  BY <1>1 DEF Returns
<1>5. Flags'
  BY <1>1 DEF Flags
<1>6. ASSUME ~lost', ~wild' PROVE Threaded' /\ nested'
  <2>1. ~lost /\ ~wild /\ ~InRegion(ip)
    BY <1>1, <1>6
  <2>2. Threaded /\ (nested \/ Single)
    BY <2>1 DEF ReturnInv
  <2>3. ip \notin CodeAddrs
    BY <1>1, <2>1, RegionAssumption DEF CodeAddrs, InRegion, Mapped
  <2>4. Returns = {}
    BY <2>2, <2>3 DEF Threaded
  <2>5. nested
    BY <1>2, <2>2, <2>4 DEF Single
  <2>6. ip' = 1
    BY <1>1, <2>1 DEF Advance
  <2> QED BY <1>1, <1>4, <2>4, <2>5, <2>6, LowOutside DEF Threaded
<1> QED BY <1>3, <1>5, <1>6 DEF ReturnInv

LEMMA WordKeeps ==
  ASSUME DictInv(dict), TasksInv, Flags, ReturnInv, Top("inner"), InnerWord
  PROVE  TasksInv' /\ Flags' /\ ReturnInv'
<1> DEFINE e == Fetch(ip)
           r == Advance(ip)
<1>1. /\ InRegion(e) /\ cur' = cur /\ tasks' = tasks
      /\ UNCHANGED <<wild, nested, misused>>
  BY DEF InnerWord, sched
<1>2. \/ Executable(e) /\ Docol(e, r) /\ frames' = frames
      \/ frames' = Append(frames, Call(e)) /\ ip' = r /\ UNCHANGED <<rs, lost, borrowed>>
  BY DEF InnerWord
<1>3. e # 0
  BY <1>1, RegionAssumption DEF InRegion
<1>4. InRegion(ip)
  BY <1>3, FetchInside
<1>5. (~lost /\ ~wild) => ip \in Int
  BY DEF ReturnInv, Threaded
<1>6. (~lost /\ ~wild) => r \in CodeAddrs /\ r \in Int
  BY <1>4, <1>5, AdvanceInside
<1>7. Inners # {}
  BY InnerTop
<1> HIDE DEF r, e
<1>8. CASE Executable(e) /\ Docol(e, r) /\ frames' = frames
  <2>1. TasksInv' /\ Inners' = Inners
    BY <1>1, <1>8, LocalStep DEF TasksInv
  <2>2. e \in Entries(dict) /\ Docol(e, r)
    BY <1>8 DEF Executable
  <2>3. nested' \in BOOLEAN /\ (~nested' => ~nested)
    BY <1>1 DEF Flags
  <2>4. Inners' # {}
    BY <1>7, <2>1
  <2>5. Flags' /\ ReturnInv'
    BY <1>1, <1>6, <2>1, <2>2, <2>3, <2>4, DocolKeeps
  <2> QED BY <2>1, <2>5
<1>9. CASE frames' = Append(frames, Call(e)) /\ ip' = r /\ UNCHANGED <<rs, lost, borrowed>>
  <2>1. Call(e).kind = "call" /\ IsStack(frames)
    BY DEF Call, TasksInv
  <2>2. IsStack(frames') /\ InnerAt(frames') = InnerAt(frames)
    BY <1>9, <2>1, PushStack
  <2>3. TasksInv' /\ Inners' = Inners
    BY <1>1, <2>2, LocalStep
  <2>4. Flags' /\ ReturnInv'
    BY <1>1, <1>6, <1>7, <1>9, <2>3, MovesKeeps
  <2> QED BY <2>3, <2>4
<1> QED BY <1>2, <1>8, <1>9

LEMMA InnerKeeps ==
  ASSUME DictInv(dict), TasksInv, Flags, ReturnInv, forth_inner
  PROVE  TasksInv' /\ Flags' /\ ReturnInv'
<1>1. Top("inner") /\ (InnerExit \/ InnerLiteral \/ InnerInvalid \/ InnerWord \/ Fault)
  BY DEF forth_inner, InnerFault
<1> QED BY <1>1, ExitKeeps, LiteralKeeps, InvalidKeeps, WordKeeps, FaultKeeps

----------------------------------------------------------------------------
(* forth_eval, the terminal and the life of a task.                        *)

LEMMA EvalKeeps ==
  ASSUME TasksInv, Flags, ReturnInv, forth_eval
  PROVE  TasksInv' /\ Flags' /\ ReturnInv'
<1>1. /\ Top("line") \/ Top("load")
      /\ cur' = cur /\ tasks' = tasks
      /\ UNCHANGED <<rs, ip, wild, nested, lost, misused, borrowed>>
  BY DEF forth_eval, sched
<1>2. \/ frames' = frames
      \/ \E e : frames' = Append(frames, Call(e))
      \/ frames' = Return(frames)
  BY ZenonT(30) DEF forth_eval, EvalReturn
<1>3. IsStack(frames)
  BY DEF TasksInv
<1>4. IsStack(frames') /\ InnerAt(frames') = InnerAt(frames)
  <2>1. CASE frames' = frames
    BY <1>3, <2>1
  <2>2. CASE \E e : frames' = Append(frames, Call(e))
    <3>1. PICK e : frames' = Append(frames, Call(e))
      BY <2>2
    <3>2. Call(e).kind = "call"
      BY DEF Call
    <3> QED BY <1>3, <3>1, <3>2, PushStack
  <2>3. CASE frames' = Return(frames)
    <3>1. frames # <<>> /\ Last(frames).kind # "inner"
      BY <1>1 DEF Top
    <3> QED BY <1>3, <2>3, <3>1, PopStack DEF Return
  <2> QED BY <1>2, <2>1, <2>2, <2>3
<1>5. TasksInv' /\ Inners' = Inners
  BY <1>1, <1>4, LocalStep
<1>6. Still
  BY <1>1 DEF Still, Flags
<1> QED BY <1>5, <1>6, StillKeeps

LEMMA RunKeeps ==
  ASSUME TasksInv, Flags, ReturnInv, forth_run
  PROVE  TasksInv' /\ Flags' /\ ReturnInv'
<1>1. /\ frames = <<>> /\ UNCHANGED <<rs, ip, wild, nested, lost, misused, borrowed>>
      /\ \/ frames' = <<LineFrame>> /\ cur' = cur /\ tasks' = tasks
         \/ Switch(<<>>)
  BY DEF forth_run, sched
<1>2. Still
  BY <1>1 DEF Still, Flags
<1>3. CASE frames' = <<LineFrame>> /\ cur' = cur /\ tasks' = tasks
  <2>1. LineFrame.kind = "line"
    BY DEF LineFrame
  <2>2. IsStack(frames') /\ InnerAt(frames') = InnerAt(frames)
    <3>1. PICK x : x = LineFrame
      OBVIOUS
    <3>2. IsStack(<<x>>) /\ InnerAt(<<x>>) = {}
      BY <2>1, <3>1, OneStack
    <3> QED BY <1>1, <1>3, <3>1, <3>2, NoStack
  <2>3. TasksInv' /\ Inners' = Inners
    BY <1>3, <2>2, LocalStep
  <2> QED BY <1>2, <2>3, StillKeeps
<1>4. CASE Switch(<<>>)
  <2>1. IsStack(<<>>) /\ <<>> # Dead /\ InnerAt(<<>>) = InnerAt(frames)
    BY <1>1, NoStack, StackLives
  <2>2. TasksInv' /\ Inners' = Inners
    BY <1>4, <2>1, SwitchStep
  <2> QED BY <1>2, <2>2, StillKeeps
<1> QED BY <1>1, <1>3, <1>4

LEMMA ThreadKeeps ==
  ASSUME TasksInv, Flags, ReturnInv, forth_thread_wrapper
  PROVE  TasksInv' /\ Flags' /\ ReturnInv'
<1>1. /\ Top("thread") /\ cur' = cur /\ tasks' = tasks
      /\ UNCHANGED <<rs, ip, wild, nested, lost, misused, borrowed>>
      /\ frames' = <<>> \/ frames' = <<Call(fork_target_xt)>>
  BY DEF forth_thread_wrapper, sched, hist
<1>2. InnerAt(frames) = {}
  <2>1. IsStack(frames) /\ frames # <<>> /\ Last(frames).kind = "thread"
    BY <1>1 DEF TasksInv, Top
  <2>2. Front(frames) = <<>> /\ InnerAt(Front(frames)) = InnerAt(frames)
    BY <2>1, PopStack
  <2> QED BY <2>2, NoStack
<1>3. Call(fork_target_xt).kind = "call"
  BY DEF Call
<1>4. IsStack(frames') /\ InnerAt(frames') = InnerAt(frames)
  BY <1>1, <1>2, <1>3, OneStack, NoStack
<1>5. TasksInv' /\ Inners' = Inners
  BY <1>1, <1>4, LocalStep
<1>6. Still
  BY <1>1 DEF Still, Flags
<1> QED BY <1>5, <1>6, StillKeeps

LEMMA ExitTaskKeeps ==
  ASSUME TasksInv, Flags, ReturnInv, task_exit
  PROVE  TasksInv' /\ Flags' /\ ReturnInv'
<1>1. /\ frames = <<>> /\ cur # 1 /\ Switch(Dead)
      /\ UNCHANGED <<rs, ip, wild, nested, lost, misused, borrowed>>
  BY DEF task_exit
<1>2. InnerAt(frames) = {}
  BY <1>1, NoStack
<1>3. PICK f : f = Dead
  OBVIOUS
<1>4. TasksInv' /\ Inners' = Inners
  BY <1>1, <1>2, <1>3, SwitchStep
<1>5. Still
  BY <1>1 DEF Still, Flags
<1> QED BY <1>4, <1>5, StillKeeps

LEMMA Started == Init => IInv
<1>1. SUFFICES ASSUME Init PROVE IInv
  OBVIOUS
<1>2. /\ dict = register_primitives /\ rs = <<>> /\ ip = NULL /\ frames = <<>> /\ cur = 1
      /\ tasks = <<<<>>>> /\ borrowed = <<>>
      /\ wild = FALSE /\ nested = FALSE /\ lost = FALSE /\ misused = FALSE
  BY <1>1 DEF Init
<1>3. DictInv(dict) /\ Sound(dict)
  BY <1>2, RegisterInv
<1>4. TasksInv
  <2>1. IsSeq(tasks) /\ DOMAIN tasks = {1} /\ tasks[1] = <<>>
    BY <1>2, OneIs
  <2>2. IsStack(<<>>) /\ <<>> # Dead
    BY NoStack, StackLives
  <2> QED BY <1>2, <2>1, <2>2 DEF TasksInv
<1>5. Flags
  <2>1. borrowed \in Seq(BOOLEAN) /\ IsSeq(rs) /\ Len(rs) = Len(borrowed)
    BY <1>2, EmptyIs
  <2> QED BY <1>2, <2>1 DEF Flags
<1>6. Returns = {}
  BY <1>2, EmptyIs DEF Returns
<1>7. Inners = {}
  <2>1. Alive \subseteq {1}
    BY <1>2, OneIs DEF Alive
  <2>2. StackOf(1) = <<>>
    BY <1>2 DEF StackOf
  <2> QED BY <2>1, <2>2, NoStack DEF Inners
<1>8. Threaded /\ Single
  BY <1>2, <1>6, <1>7, LowOutside DEF Threaded, Single, NULL
<1> QED BY <1>3, <1>4, <1>5, <1>8 DEF IInv, ReturnInv

LEMMA Stepped == IInv /\ [Next]_vars => IInv'
<1>1. SUFFICES ASSUME IInv, [Next]_vars PROVE IInv'
  OBVIOUS
<1>2. DictInv(dict) /\ (~misused => Sound(dict)) /\ TasksInv /\ Flags /\ ReturnInv
  BY <1>1 DEF IInv
<1>3. misused \in BOOLEAN
  BY <1>2 DEF Flags
<1>4. DictInv(dict') /\ (~misused' => Sound(dict'))
  BY <1>1, <1>2, <1>3, DictKept
<1>5. TasksInv' /\ Flags' /\ ReturnInv'
  <2>1. CASE UNCHANGED vars
    <3>1. frames' = frames /\ cur' = cur /\ tasks' = tasks /\ Still
      BY <1>3, <2>1 DEF vars, sched, hist, Still
    <3>2. TasksInv' /\ Inners' = Inners
      BY <1>2, <3>1, LocalStep DEF TasksInv
    <3> QED BY <1>2, <3>1, <3>2, StillKeeps
  <2>2. CASE Next
    BY <1>2, <2>2, ExecuteKeeps, InnerKeeps, EvalKeeps, RunKeeps, ThreadKeeps, ExitTaskKeeps DEF Next
  <2> QED BY <1>1, <2>1, <2>2
<1> QED BY <1>4, <1>5 DEF IInv

----------------------------------------------------------------------------
(* What follows of every behaviour.                                        *)

\* The inductive invariant: whatever is typed, LOADed, EXECUTEd, FORKed or
\* defined, the dictionary's headers do not overlap and are linked newest
\* first (dict_create), the task ring holds proper call stacks (yield,
\* task_exit), and the return addresses on the return stack belong to
\* activations of forth_inner.
THEOREM Invariance == Spec => []IInv
<1>1. Init => IInv
  BY Started
<1>2. IInv /\ [Next]_vars => IInv'
  BY Stepped
<1> QED BY <1>1, <1>2, PTL DEF Spec

\* dict_find returns the newest visible word of a name, for every set of names
\* and every region: a word that w_colon has hidden, or a name longer than
\* dict_create stores, is never found.
THEOREM NamesFound == Spec => []FindsItsName
<1>1. IInv => FindsItsName
  BY FindsName DEF IInv
<1> QED BY <1>1, Invariance, PTL

\* Every colon word that dict_find can return has the EXIT of w_semicolon in
\* its body, unless THEN, ELSE or REPEAT patched a cell no IF left open.
THEOREM WordsTerminated == Spec => []VisibleTerminated
<1>1. ASSUME IInv PROVE VisibleTerminated
  <2>1. SUFFICES ASSUME ~misused, NEW e \in Own, VisibleColon(e)
                 PROVE  \E a \in dict_get_param_field(dict, e) .. dict.here - 1 :
                            dict.mem[a] = SENTINEL_EXIT /\ Owner(a) = e
    BY DEF VisibleTerminated
  <2>2. DictInv(dict) /\ Ended(dict) /\ e \in Entries(dict)
    BY <1>1, <2>1 DEF IInv, Sound, Own
  <2>3. ~dict.hdr[e].hidden /\ dict.mem[dict_get_code_field(dict, e)] = do_colon
    BY <2>1 DEF VisibleColon, CodeOf, CodeIn
  <2>4. PICK a \in dict_get_code_field(dict, e) + 1 .. dict.here - 1 :
              /\ dict.mem[a] = SENTINEL_EXIT
              /\ \A f \in Entries(dict) : f <= a => f <= e
    BY <2>2, <2>3 DEF Ended
  <2>5. /\ Entries(dict) \subseteq Region /\ dict.here \in CodeAddrs
        /\ dict_get_code_field(dict, e) \in e + 1 .. dict.here - 1
    BY <2>2 DEF DictInv, Shaped, Placed
  <2>6. Entries(dict) \subseteq Int /\ e \in Int /\ a \in Int /\ e <= a
    BY <2>2, <2>4, <2>5, RegionAssumption DEF Region, CodeAddrs
  <2> DEFINE S == {f \in Entries(dict) : f <= a}
  <2>7. S \in SUBSET Int /\ e \in S /\ \A x \in S : x <= e
    BY <2>2, <2>4, <2>6
  <2> HIDE DEF S
  <2>8. Max(S) = e
    BY <2>7, MaxIs
  <2>9. Owner(a) = e
    BY <2>8 DEF Owner, S
  <2>10. a \in dict_get_param_field(dict, e) .. dict.here - 1
    BY <2>4 DEF dict_get_param_field
  <2> QED BY <2>4, <2>9, <2>10
<1> QED BY <1>1, Invariance, PTL

\* With no task in forth_inner, the return stack holds no return address, and
\* ip is null unless a colon word was entered below a running one: for every
\* number of tasks, every depth of LOAD and EXECUTE and every place where
\* tasks switch.
THEOREM PromptIsClean == Spec => []PromptClean
<1>1. ASSUME IInv PROVE PromptClean
  <2>1. SUFFICES ASSUME ~InInner, ~lost, ~wild
                 PROVE  (\A i \in DOMAIN rs : borrowed[i]) /\ (nested \/ ip = NULL)
    BY DEF PromptClean
  <2>2. TasksInv /\ Flags /\ Threaded /\ (nested \/ Single)
    BY <1>1, <2>1 DEF IInv, ReturnInv
  <2>3. Inners = {}
    BY <2>1, <2>2, InnersSeen
  <2>4. Returns = {}
    BY <2>2, <2>3 DEF Threaded
  <2> QED BY <2>2, <2>3, <2>4 DEF Returns, Single
<1> QED BY <1>1, Invariance, PTL

\* Compiled code stays: entries keep their links and names, HERE never goes
\* back, and a cell below HERE changes only where it is the 0 that IF or WHILE
\* left for THEN, ELSE and REPEAT, unless one of those was misused.
AppendOnly ==
    /\ dict.here <= dict'.here
    /\ \A e \in Entries(dict) : /\ e \in Entries(dict')
                                /\ dict'.hdr[e].link = dict.hdr[e].link
                                /\ dict'.hdr[e].name = dict.hdr[e].name
    /\ ~misused' => \A a \in Region : a < dict.here =>
                        \/ dict'.mem[a] = dict.mem[a]
                        \/ dict.mem[a] = 0 /\ dict'.mem[a] \in CodeAddrs

\* The dictionary only grows (dict_create, dict_comma, and the patches of the
\* branch words): what was compiled before a redefinition means what it meant.
THEOREM CodeStays == Spec => [][AppendOnly]_vars
<1>1. ASSUME IInv, [Next]_vars PROVE AppendOnly
  <2>1. DictInv(dict) /\ misused \in BOOLEAN
    BY <1>1 DEF IInv, Flags
  <2>2. DictStep
    BY <1>1, <2>1, DictNext
  <2>3. dict.here \in Int
    BY <2>1, RegionAssumption DEF DictInv, Shaped, CodeAddrs
  <2>4. CASE dict' = dict
    BY <2>3, <2>4 DEF AppendOnly
  <2>5. CASE Extends(dict, dict') /\ (~misused' => Keeps(dict, dict'))
    BY <2>5 DEF AppendOnly, Extends, Keeps
  <2>6. CASE \E n : Adds(dict, dict', n)
    <3>1. PICK n : Adds(dict, dict', n)
      BY <2>6
    <3>2. HeaderCells(n) \in Nat
      BY <3>1, HeaderSize DEF Adds
    <3>3. dict'.here \in Int
      <4>1. Shaped(dict')
        BY <3>1 DEF Adds
      <4>2. dict'.here \in CodeAddrs
        BY <4>1 DEF Shaped
      <4> QED BY <4>2, RegionAssumption DEF CodeAddrs
    <3>4. dict.here <= dict'.here
      BY <2>3, <3>1, <3>2, <3>3 DEF Adds
    <3>5. \A e \in Entries(dict) : e # dict.here
      <4>1. \A e \in Entries(dict) : dict_get_code_field(dict, e) \in e + 1 .. dict.here - 1
        BY <2>1 DEF DictInv, Placed
      <4>2. Entries(dict) \subseteq Int
        BY <2>1, RegionAssumption DEF DictInv, Shaped, Region
      <4> QED BY <2>3, <4>1, <4>2
    <3>6. \A e \in Entries(dict) : e \in Entries(dict') /\ dict'.hdr[e] = dict.hdr[e]
      BY <3>1, <3>5 DEF Adds
    <3>7. \A a \in Region : a < dict.here => dict'.mem[a] = dict.mem[a]
      BY <3>1 DEF Adds
    <3> QED BY <3>4, <3>6, <3>7 DEF AppendOnly
  <2> QED BY <2>2, <2>4, <2>5, <2>6 DEF DictStep
<1> QED BY <1>1, Invariance, PTL DEF Spec

----------------------------------------------------------------------------
(* Sequences of operations.                                                *)

LEMMA JoinIs ==
  ASSUME NEW s, NEW t, IsSeq(s), IsSeq(t)
  PROVE  /\ IsSeq(s \o t) /\ Len(s \o t) = Len(s) + Len(t) /\ Len(s) \in Nat /\ Len(t) \in Nat
         /\ \A i \in 1 .. Len(s) : (s \o t)[i] = s[i]
         /\ \A i \in 1 .. Len(t) : (s \o t)[Len(s) + i] = t[i]
<1> DEFINE S == {s[i] : i \in DOMAIN s} \cup {t[i] : i \in DOMAIN t}
<1>1. s \in Seq(S) /\ t \in Seq(S)
  BY DEF IsSeq
<1> HIDE DEF S
<1>2. s \o t \in Seq(S) /\ Len(s \o t) = Len(s) + Len(t) /\ Len(s) \in Nat /\ Len(t) \in Nat
  BY <1>1
<1>3. \A i \in 1 .. Len(s) : (s \o t)[i] = s[i]
  BY <1>1
<1>4. \A i \in 1 .. Len(t) : (s \o t)[Len(s) + i] = t[i]
  BY <1>1
<1>5. IsSeq(s \o t)
  BY <1>2, AnySeq
<1> QED BY <1>2, <1>3, <1>4, <1>5

\* Two sequences with the same elements.
LEMMA SameSeq ==
  ASSUME NEW s, NEW t, IsSeq(s), IsSeq(t), Len(s) = Len(t), \A i \in 1 .. Len(s) : s[i] = t[i]
  PROVE  s = t
<1> DEFINE S == {s[i] : i \in DOMAIN s} \cup {t[i] : i \in DOMAIN t}
<1>1. s \in Seq(S) /\ t \in Seq(S)
  BY DEF IsSeq
<1> HIDE DEF S
<1> QED BY <1>1

LEMMA JoinEmpty ==
  ASSUME NEW s, IsSeq(s)
  PROVE  <<>> \o s = s /\ s \o <<>> = s
<1>1. IsSeq(<<>>) /\ Len(<<>>) = 0 /\ Len(s) \in Nat
  BY EmptyIs, SeqIs
<1>2. /\ IsSeq(<<>> \o s) /\ Len(<<>> \o s) = Len(<<>>) + Len(s)
      /\ \A i \in 1 .. Len(s) : (<<>> \o s)[Len(<<>>) + i] = s[i]
  BY <1>1, JoinIs
<1>3. /\ IsSeq(s \o <<>>) /\ Len(s \o <<>>) = Len(s) + Len(<<>>)
      /\ \A i \in 1 .. Len(s) : (s \o <<>>)[i] = s[i]
  BY <1>1, JoinIs
<1>4. <<>> \o s = s
  <2>1. Len(<<>> \o s) = Len(s) /\ \A i \in 1 .. Len(s) : (<<>> \o s)[i] = s[i]
    BY <1>1, <1>2
  <2>2. PICK x : x = <<>> \o s
    OBVIOUS
  <2> QED BY <1>2, <2>1, <2>2, SameSeq
<1>5. s \o <<>> = s
  <2>1. Len(s \o <<>>) = Len(s)
    BY <1>1, <1>3
  <2>2. PICK x : x = s \o <<>>
    OBVIOUS
  <2> QED BY <1>3, <2>1, <2>2, SameSeq
<1> QED BY <1>4, <1>5

LEMMA JoinJoin ==
  ASSUME NEW s, NEW t, NEW u, IsSeq(s), IsSeq(t), IsSeq(u)
  PROVE  (s \o t) \o u = s \o (t \o u)
<1> DEFINE S == {s[i] : i \in DOMAIN s} \cup {t[i] : i \in DOMAIN t} \cup {u[i] : i \in DOMAIN u}
<1>1. s \in Seq(S) /\ t \in Seq(S) /\ u \in Seq(S)
  BY DEF IsSeq
<1> HIDE DEF S
<1> QED BY <1>1

LEMMA JoinDefined ==
  ASSUME NEW s, NEW t, IsSeq(s), IsSeq(t)
  PROVE  Defined(s \o t) <=> Defined(s) /\ Defined(t)
<1>1. /\ IsSeq(s \o t) /\ Len(s \o t) = Len(s) + Len(t) /\ Len(s) \in Nat /\ Len(t) \in Nat
      /\ \A i \in 1 .. Len(s) : (s \o t)[i] = s[i]
      /\ \A i \in 1 .. Len(t) : (s \o t)[Len(s) + i] = t[i]
  BY JoinIs
<1>2. DOMAIN s = 1 .. Len(s) /\ DOMAIN t = 1 .. Len(t) /\ DOMAIN (s \o t) = 1 .. Len(s) + Len(t)
  <2>1. PICK x : x = s \o t
    OBVIOUS
  <2> QED BY <1>1, <2>1, SeqIs
<1>3. ASSUME Defined(s \o t) PROVE Defined(s) /\ Defined(t)
  <2>1. ASSUME NEW i \in 1 .. Len(s) PROVE s[i].op # "other"
    <3>1. i \in 1 .. Len(s) + Len(t) /\ (s \o t)[i] = s[i]
      BY <1>1
    <3> QED BY <1>2, <1>3, <3>1 DEF Defined
  <2>2. ASSUME NEW i \in 1 .. Len(t) PROVE t[i].op # "other"
    <3>1. Len(s) + i \in 1 .. Len(s) + Len(t) /\ (s \o t)[Len(s) + i] = t[i]
      BY <1>1
    <3> QED BY <1>2, <1>3, <3>1 DEF Defined
  <2> QED BY <1>2, <2>1, <2>2 DEF Defined
<1>4. ASSUME Defined(s), Defined(t) PROVE Defined(s \o t)
  <2>1. ASSUME NEW i \in 1 .. Len(s) + Len(t) PROVE (s \o t)[i].op # "other"
    <3>1. CASE i \in 1 .. Len(s)
      BY <1>1, <1>2, <1>4, <3>1 DEF Defined
    <3>2. CASE i \notin 1 .. Len(s)
      <4>1. PICK j \in 1 .. Len(t) : i = Len(s) + j
        <5>1. i - Len(s) \in 1 .. Len(t) /\ i = Len(s) + (i - Len(s))
          BY <1>1, <3>2
        <5> QED BY <5>1
      <4> QED BY <1>1, <1>2, <1>4, <4>1 DEF Defined
    <3> QED BY <3>1, <3>2
  <2> QED BY <1>2, <2>1 DEF Defined
<1> QED BY <1>3, <1>4

LEMMA BitsOfOps ==
  /\ IsSeq(Other) /\ ~Defined(Other)
  /\ IsSeq(<<>>) /\ Defined(<<>>)
  /\ \A v : IsSeq(Lit(v)) /\ Defined(Lit(v))
  /\ \A w : IsSeq(Prim(w)) /\ Defined(Prim(w))
<1>1. PICK o : o = [op |-> "other"]
  OBVIOUS
<1>2. IsSeq(<<o>>) /\ <<o>>[1] = o /\ DOMAIN <<o>> = {1}
  BY OneIs
<1>3. IsSeq(Other) /\ ~Defined(Other)
  BY <1>1, <1>2 DEF Other, Defined
<1>4. ASSUME NEW v PROVE IsSeq(Lit(v)) /\ Defined(Lit(v))
  <2>1. PICK l : l = [op |-> "literal", value |-> v]
    OBVIOUS
  <2>2. IsSeq(<<l>>) /\ <<l>>[1] = l /\ DOMAIN <<l>> = {1}
    BY OneIs
  <2> QED BY <2>1, <2>2 DEF Lit, Defined
<1>5. ASSUME NEW w PROVE IsSeq(Prim(w)) /\ Defined(Prim(w))
  <2>1. PICK l : l = [op |-> "primitive", word |-> w]
    OBVIOUS
  <2>2. IsSeq(<<l>>) /\ <<l>>[1] = l /\ DOMAIN <<l>> = {1}
    BY OneIs
  <2> QED BY <2>1, <2>2 DEF Prim, Defined
<1> QED BY <1>3, <1>4, <1>5, EmptyIs DEF Defined

LEMMA SimpleSeq == ASSUME NEW d, NEW e PROVE IsSeq(SimpleOps(d, e))
<1>1. \/ SimpleOps(d, e) = Other
      \/ \E v : SimpleOps(d, e) = Lit(v)
      \/ \E w : SimpleOps(d, e) = Prim(w)
  BY DEF SimpleOps
<1> QED BY <1>1, BitsOfOps

----------------------------------------------------------------------------
(* What the rounds of Ops find.                                            *)

Addrs == DICT_VIRT_BASE .. DICT_VIRT_BASE + DICT_SIZE + 1

RoundAt(d, w, n) == [a \in Addrs |-> IF n = 0 THEN Other ELSE OpsAt(d, w[n - 1], a)]
IsRound(d, w, k) == w = [n \in 0 .. k |-> RoundAt(d, w, n)]

LEMMA OpsRounds ==
  ASSUME NEW d
  PROVE  Ops(d) = (CHOOSE w : IsRound(d, w, DICT_SIZE))[DICT_SIZE]
  BY DEF Ops, IsRound, RoundAt, Addrs

LEMMA RoundsExist ==
  ASSUME NEW d, NEW N \in Nat
  PROVE  \E w : IsRound(d, w, N)
<1> DEFINE T == {k \in Nat : \E w : IsRound(d, w, k)}
<1>1. 0 \in T
  <2> DEFINE w == [n \in 0 .. 0 |-> [a \in Addrs |-> Other]]
  <2>1. IsRound(d, w, 0)
    BY DEF IsRound, RoundAt
  <2> QED BY <2>1
<1>2. ASSUME NEW k \in 0 .. N, k \in T PROVE k + 1 \in T
  <2>1. PICK v : IsRound(d, v, k)
    BY <1>2
  <2> DEFINE w == [n \in 0 .. k + 1 |-> RoundAt(d, v, n)]
  <2>2. \A n \in 0 .. k : v[n] = RoundAt(d, v, n)
    BY <2>1 DEF IsRound
  <2>3. \A n \in 0 .. k : w[n] = v[n]
    BY <2>2
  <2>4. \A n \in 0 .. k + 1 : n # 0 => n - 1 \in 0 .. k
    OBVIOUS
  <2>5. \A n \in 0 .. k + 1 : RoundAt(d, w, n) = RoundAt(d, v, n)
    <3> HIDE DEF w
    <3>1. ASSUME NEW n \in 0 .. k + 1 PROVE RoundAt(d, w, n) = RoundAt(d, v, n)
      <4>1. n # 0 => w[n - 1] = v[n - 1]
        BY <2>3, <2>4
      <4> QED BY <4>1 DEF RoundAt
    <3> QED BY <3>1
  <2>6. w = [n \in 0 .. k + 1 |-> RoundAt(d, w, n)]
    BY <2>5
  <2> HIDE DEF w
  <2>7. IsRound(d, w, k + 1)
    BY <2>6 DEF IsRound
  <2> QED BY <2>7
<1>3. \A k \in 0 .. N : k # N /\ k \in T => k + 1 \in T
  BY <1>2
<1> HIDE DEF T
<1>4. N \in T
  BY <1>1, <1>3, Counting
<1> QED BY <1>4 DEF T

\* The rounds of dictionary d.
Rounds(d, w) == /\ Ops(d) = w[DICT_SIZE]
                /\ \A a \in Addrs : w[0][a] = Other
                /\ \A n \in 0 .. DICT_SIZE : \A a \in Addrs :
                       n # 0 => w[n][a] = OpsAt(d, w[n - 1], a)

LEMMA RoundsAre == ASSUME NEW d PROVE \E w : Rounds(d, w)
<1>1. DICT_SIZE \in Nat
  BY RegionAssumption
<1>2. \E w : IsRound(d, w, DICT_SIZE)
  BY <1>1, RoundsExist
<1> DEFINE w == CHOOSE x : IsRound(d, x, DICT_SIZE)
<1>3. IsRound(d, w, DICT_SIZE)
  BY <1>2
<1>4. Ops(d) = w[DICT_SIZE]
  BY OpsRounds
<1> HIDE DEF w
<1>5. \A n \in 0 .. DICT_SIZE : w[n] = RoundAt(d, w, n)
  BY <1>3 DEF IsRound
<1>6. 0 \in 0 .. DICT_SIZE
  BY <1>1
<1>7. \A a \in Addrs : w[0][a] = Other
  BY <1>5, <1>6 DEF RoundAt
<1>8. \A n \in 0 .. DICT_SIZE : \A a \in Addrs : n # 0 => w[n][a] = OpsAt(d, w[n - 1], a)
  BY <1>5 DEF RoundAt
<1> QED BY <1>4, <1>7, <1>8 DEF Rounds

\* The cases of OpsAt, and that it stays among the addresses.
OpsCase(d, f, a) ==
    LET c == FetchIn(d, a)
    IN  \/ c = SENTINEL_EXIT /\ a \in Region /\ OpsAt(d, f, a) = <<>>
        \/ /\ c = do_literal /\ a \in Region /\ a \notin Entries(d)
           /\ a + 2 \in Addrs
           /\ OpsAt(d, f, a) = Lit(FetchIn(d, a + 1)) \o f[a + 2]
        \/ /\ c \in Entries(d) /\ a \in Region /\ CodeIn(d, c) = do_colon
           /\ dict_get_param_field(d, c) \in Addrs /\ a + 1 \in Addrs
           /\ OpsAt(d, f, a) = f[dict_get_param_field(d, c)] \o f[a + 1]
        \/ /\ c \in Entries(d) /\ a \in Region /\ CodeIn(d, c) # do_colon
           /\ a + 1 \in Addrs
           /\ OpsAt(d, f, a) = SimpleOps(d, c) \o f[a + 1]
        \/ /\ c # SENTINEL_EXIT /\ c # do_literal /\ c \notin Entries(d)
           /\ OpsAt(d, f, a) = Other

LEMMA OpsCases ==
  ASSUME NEW d, NEW f, NEW a \in Addrs, DictInv(d)
  PROVE  OpsCase(d, f, a)
<1> DEFINE c == FetchIn(d, a)
<1>1. a \in Int /\ DICT_VIRT_BASE \in Nat /\ DICT_SIZE \in Nat
  BY RegionAssumption DEF Addrs
<1>2. Entries(d) \subseteq Region /\ d.here \in CodeAddrs
  BY DEF DictInv, Shaped
<1>3. \A e \in Entries(d) : e # 0 /\ e # SENTINEL_EXIT /\ e # do_literal
  BY <1>2, Above, RegionAssumption DEF Region, SENTINEL_EXIT, do_literal
<1>4. a \notin Region => c = 0
  <2>1. SUFFICES ASSUME a \notin Region PROVE c = 0
    OBVIOUS
  <2>2. ~InRegion(a) /\ a \notin Entries(d)
    BY <1>1, <1>2, <2>1 DEF Region, InRegion
  <2> QED BY <2>2 DEF FetchIn
<1>5. a \in Region => a + 1 \in Addrs /\ a + 2 \in Addrs
  BY <1>1 DEF Region, Addrs
<1>6. c = do_literal => a \notin Entries(d)
  <2>1. c = do_literal => c # 0 /\ c < DICT_VIRT_BASE
    BY <1>1, Above DEF do_literal
  <2> QED BY <1>1, <2>1, FetchSmall
<1>7. \A e \in Entries(d) : dict_get_param_field(d, e) \in Addrs
  <2>1. ASSUME NEW e \in Entries(d) PROVE dict_get_param_field(d, e) \in Addrs
    <3>1. dict_get_code_field(d, e) \in e + 1 .. d.here - 1 /\ e \in Region
      BY <1>2 DEF DictInv, Placed
    <3> QED BY <1>1, <1>2, <3>1 DEF dict_get_param_field, Region, CodeAddrs, Addrs
  <2> QED BY <2>1
<1> HIDE DEF c
<1>8. SENTINEL_EXIT # do_literal /\ SENTINEL_EXIT # 0 /\ do_literal # 0
  BY DEF SENTINEL_EXIT, do_literal
<1>9. CASE c = SENTINEL_EXIT
  <2>1. OpsAt(d, f, a) = <<>>
    BY <1>3, <1>8, <1>9 DEF OpsAt, c
  <2> QED BY <1>4, <1>8, <1>9, <2>1 DEF OpsCase, c
<1>10. CASE c = do_literal
  <2>1. OpsAt(d, f, a) = Lit(FetchIn(d, a + 1)) \o f[a + 2]
    BY <1>3, <1>8, <1>10 DEF OpsAt, c
  <2> QED BY <1>4, <1>5, <1>6, <1>8, <1>10, <2>1 DEF OpsCase, c
<1>11. CASE c \in Entries(d)
  <2>1. OpsAt(d, f, a) = (IF CodeIn(d, c) = do_colon THEN f[dict_get_param_field(d, c)]
                          ELSE SimpleOps(d, c)) \o f[a + 1]
    BY <1>3, <1>11 DEF OpsAt, c
  <2>2. a \in Region
    BY <1>3, <1>4, <1>11
  <2>3. a + 1 \in Addrs /\ dict_get_param_field(d, c) \in Addrs
    BY <1>5, <1>7, <1>11, <2>2
  <2>4. CASE CodeIn(d, c) = do_colon
    <3>1. OpsAt(d, f, a) = f[dict_get_param_field(d, c)] \o f[a + 1]
      BY <2>1, <2>4
    <3> QED BY <1>11, <2>2, <2>3, <2>4, <3>1 DEF OpsCase, c
  <2>5. CASE CodeIn(d, c) # do_colon
    <3>1. OpsAt(d, f, a) = SimpleOps(d, c) \o f[a + 1]
      BY <2>1, <2>5
    <3> QED BY <1>11, <2>2, <2>3, <2>5, <3>1 DEF OpsCase, c
  <2> QED BY <2>4, <2>5
<1>12. CASE c # SENTINEL_EXIT /\ c # do_literal /\ c \notin Entries(d)
  <2>1. OpsAt(d, f, a) = Other
    BY <1>12 DEF OpsAt, c
  <2> QED BY <1>12, <2>1 DEF OpsCase, c
<1> QED BY <1>9, <1>10, <1>11, <1>12

AllSeqs(f) == \A a \in Addrs : IsSeq(f[a])
\* g goes on with what f has found.
Goes(f, g) == \A a \in Addrs : Defined(f[a]) => g[a] = f[a]

LEMMA OpsSeq ==
  ASSUME NEW d, NEW f, NEW a \in Addrs, DictInv(d), AllSeqs(f)
  PROVE  IsSeq(OpsAt(d, f, a))
<1> DEFINE c == FetchIn(d, a)
           p == dict_get_param_field(d, c)
           l == Lit(FetchIn(d, a + 1))
           s == SimpleOps(d, c)
<1>1. \A b \in Addrs : IsSeq(f[b])
  BY DEF AllSeqs
<1>2. IsSeq(l) /\ IsSeq(Other) /\ IsSeq(<<>>) /\ IsSeq(s)
  BY BitsOfOps, SimpleSeq
<1>3. OpsCase(d, f, a)
  BY OpsCases
<1>4. \/ OpsAt(d, f, a) = <<>> \/ OpsAt(d, f, a) = Other
      \/ a + 2 \in Addrs /\ OpsAt(d, f, a) = l \o f[a + 2]
      \/ p \in Addrs /\ a + 1 \in Addrs /\ OpsAt(d, f, a) = f[p] \o f[a + 1]
      \/ a + 1 \in Addrs /\ OpsAt(d, f, a) = s \o f[a + 1]
  BY <1>3 DEF OpsCase
<1> HIDE DEF c, p, l, s
<1>5. a + 2 \in Addrs => IsSeq(l \o f[a + 2])
  BY <1>1, <1>2, JoinIs
<1>6. p \in Addrs /\ a + 1 \in Addrs => IsSeq(f[p] \o f[a + 1])
  BY <1>1, JoinIs
<1>7. a + 1 \in Addrs => IsSeq(s \o f[a + 1])
  BY <1>1, <1>2, JoinIs
<1> QED BY <1>2, <1>4, <1>5, <1>6, <1>7

LEMMA OpsAgree ==
  ASSUME NEW d, NEW f, NEW g, NEW a \in Addrs, DictInv(d), AllSeqs(f), Goes(f, g),
         Defined(OpsAt(d, f, a))
  PROVE  OpsAt(d, g, a) = OpsAt(d, f, a)
<1> DEFINE c == FetchIn(d, a)
           p == dict_get_param_field(d, c)
           l == Lit(FetchIn(d, a + 1))
           s == SimpleOps(d, c)
<1>1. \A b \in Addrs : IsSeq(f[b]) /\ (Defined(f[b]) => g[b] = f[b])
  BY DEF AllSeqs, Goes
<1>2. IsSeq(l) /\ IsSeq(s)
  BY BitsOfOps, SimpleSeq
<1>3. OpsCase(d, f, a) /\ OpsCase(d, g, a)
  BY OpsCases
<1> DEFINE Case(h) == \/ c = SENTINEL_EXIT /\ OpsAt(d, h, a) = <<>>
                      \/ c = do_literal /\ a + 2 \in Addrs /\ OpsAt(d, h, a) = l \o h[a + 2]
                      \/ /\ c \in Entries(d) /\ CodeIn(d, c) = do_colon
                         /\ p \in Addrs /\ a + 1 \in Addrs /\ OpsAt(d, h, a) = h[p] \o h[a + 1]
                      \/ /\ c \in Entries(d) /\ CodeIn(d, c) # do_colon
                         /\ a + 1 \in Addrs /\ OpsAt(d, h, a) = s \o h[a + 1]
                      \/ OpsAt(d, h, a) = Other /\ c # SENTINEL_EXIT /\ c # do_literal /\ c \notin Entries(d)
<1>10. Case(f)
  BY <1>3 DEF OpsCase
<1>11. Case(g)
  BY <1>3 DEF OpsCase
<1>4. \A e \in Entries(d) : e # SENTINEL_EXIT /\ e # do_literal
  <2>1. Entries(d) \subseteq Region
    BY DEF DictInv, Shaped
  <2> QED BY <2>1, Above, RegionAssumption DEF Region, SENTINEL_EXIT, do_literal
<1>5. SENTINEL_EXIT # do_literal
  BY DEF SENTINEL_EXIT, do_literal
<1>6. \/ OpsAt(d, f, a) = <<>> /\ OpsAt(d, g, a) = <<>>
      \/ OpsAt(d, f, a) = Other
      \/ a + 2 \in Addrs /\ OpsAt(d, f, a) = l \o f[a + 2] /\ OpsAt(d, g, a) = l \o g[a + 2]
      \/ p \in Addrs /\ a + 1 \in Addrs /\ OpsAt(d, f, a) = f[p] \o f[a + 1] /\ OpsAt(d, g, a) = g[p] \o g[a + 1]
      \/ a + 1 \in Addrs /\ OpsAt(d, f, a) = s \o f[a + 1] /\ OpsAt(d, g, a) = s \o g[a + 1]
  <2> HIDE DEF c, p, l, s
  <2>1. CASE c = SENTINEL_EXIT
    BY <1>4, <1>5, <1>10, <1>11, <2>1
  <2>2. CASE c = do_literal
    BY <1>4, <1>5, <1>10, <1>11, <2>2
  <2>3. CASE c \in Entries(d) /\ CodeIn(d, c) = do_colon
    BY <1>4, <1>10, <1>11, <2>3
  <2>4. CASE c \in Entries(d) /\ CodeIn(d, c) # do_colon
    BY <1>4, <1>10, <1>11, <2>4
  <2>5. CASE c # SENTINEL_EXIT /\ c # do_literal /\ c \notin Entries(d)
    BY <1>10, <2>5
  <2> QED BY <2>1, <2>2, <2>3, <2>4, <2>5
<1> HIDE DEF c, p, l, s, Case
<1>7. ASSUME a + 2 \in Addrs, OpsAt(d, f, a) = l \o f[a + 2], OpsAt(d, g, a) = l \o g[a + 2]
      PROVE  OpsAt(d, g, a) = OpsAt(d, f, a)
  <2>1. Defined(l \o f[a + 2])
    BY <1>7
  <2>2. Defined(f[a + 2])
    BY <1>1, <1>2, <1>7, <2>1, JoinDefined
  <2> QED BY <1>1, <1>7, <2>2
<1>8. ASSUME p \in Addrs, a + 1 \in Addrs, OpsAt(d, f, a) = f[p] \o f[a + 1], OpsAt(d, g, a) = g[p] \o g[a + 1]
      PROVE  OpsAt(d, g, a) = OpsAt(d, f, a)
  <2>1. Defined(f[p] \o f[a + 1])
    BY <1>8
  <2>2. Defined(f[p]) /\ Defined(f[a + 1])
    BY <1>1, <1>8, <2>1, JoinDefined
  <2> QED BY <1>1, <1>8, <2>2
<1>9. ASSUME a + 1 \in Addrs, OpsAt(d, f, a) = s \o f[a + 1], OpsAt(d, g, a) = s \o g[a + 1]
      PROVE  OpsAt(d, g, a) = OpsAt(d, f, a)
  <2>1. Defined(s \o f[a + 1])
    BY <1>9
  <2>2. Defined(f[a + 1])
    BY <1>1, <1>2, <1>9, <2>1, JoinDefined
  <2> QED BY <1>1, <1>9, <2>2
<1> QED BY <1>6, <1>7, <1>8, <1>9, BitsOfOps

LEMMA RoundSeqs ==
  ASSUME NEW d, NEW w, DictInv(d), Rounds(d, w)
  PROVE  \A n \in 0 .. DICT_SIZE : AllSeqs(w[n])
<1>1. DICT_SIZE \in Nat
  BY RegionAssumption
<1> DEFINE T == {n \in 0 .. DICT_SIZE : AllSeqs(w[n])}
<1>2. 0 \in T
  BY <1>1, BitsOfOps DEF Rounds, AllSeqs
<1>3. ASSUME NEW n \in 0 .. DICT_SIZE, n # DICT_SIZE, n \in T PROVE n + 1 \in T
  <2>1. n + 1 \in 0 .. DICT_SIZE /\ n + 1 # 0 /\ (n + 1) - 1 = n
    BY <1>1, <1>3
  <2>2. \A a \in Addrs : w[n + 1][a] = OpsAt(d, w[n], a)
    BY <2>1 DEF Rounds
  <2>3. AllSeqs(w[n])
    BY <1>3
  <2>4. \A a \in Addrs : IsSeq(OpsAt(d, w[n], a))
    BY <2>3, OpsSeq
  <2>5. AllSeqs(w[n + 1])
    BY <2>2, <2>4 DEF AllSeqs
  <2> QED BY <2>1, <2>5
<1>4. \A n \in 0 .. DICT_SIZE : n # DICT_SIZE /\ n \in T => n + 1 \in T
  BY <1>3
<1>5. \A n \in 0 .. DICT_SIZE : n \in T
  <2> HIDE DEF T
  <2> QED BY <1>1, <1>2, <1>4, Counting
<1> QED BY <1>5

\* What a round has found, the next ones find.
LEMMA RoundsGo ==
  ASSUME NEW d, NEW w, DictInv(d), Rounds(d, w)
  PROVE  \A n \in 0 .. DICT_SIZE : n # DICT_SIZE => Goes(w[n], w[n + 1])
<1>1. DICT_SIZE \in Nat
  BY RegionAssumption
<1> DEFINE T == {n \in 0 .. DICT_SIZE : n # DICT_SIZE => Goes(w[n], w[n + 1])}
<1>2. 0 \in T
  <2>1. \A a \in Addrs : ~Defined(w[0][a])
    BY BitsOfOps DEF Rounds
  <2> QED BY <1>1, <2>1 DEF Goes
<1>3. ASSUME NEW n \in 0 .. DICT_SIZE, n # DICT_SIZE, n \in T PROVE n + 1 \in T
  <2>1. n + 1 \in 0 .. DICT_SIZE /\ n + 1 # 0 /\ (n + 1) - 1 = n
    BY <1>1, <1>3
  <2>2. \A a \in Addrs : w[n + 1][a] = OpsAt(d, w[n], a)
    BY <2>1 DEF Rounds
  <2>3. Goes(w[n], w[n + 1]) /\ AllSeqs(w[n])
    BY <1>3, RoundSeqs
  <2>4. SUFFICES ASSUME n + 1 # DICT_SIZE PROVE Goes(w[n + 1], w[(n + 1) + 1])
    BY <2>1
  <2> DEFINE m == (n + 1) + 1
  <2>5. m \in 0 .. DICT_SIZE /\ m # 0 /\ m - 1 = n + 1
    BY <1>1, <2>1, <2>4
  <2> HIDE DEF m
  <2>6. \A a \in Addrs : w[m][a] = OpsAt(d, w[n + 1], a)
    BY <2>5 DEF Rounds
  <2>7. ASSUME NEW a \in Addrs, Defined(w[n + 1][a]) PROVE w[m][a] = w[n + 1][a]
    <3>1. Defined(OpsAt(d, w[n], a))
      BY <2>2, <2>7
    <3>2. OpsAt(d, w[n + 1], a) = OpsAt(d, w[n], a)
      BY <2>3, <3>1, OpsAgree
    <3> QED BY <2>2, <2>6, <3>2
  <2> QED BY <2>7 DEF Goes, m
<1>4. \A n \in 0 .. DICT_SIZE : n # DICT_SIZE /\ n \in T => n + 1 \in T
  BY <1>3
<1>5. \A n \in 0 .. DICT_SIZE : n \in T
  <2> HIDE DEF T
  <2> QED BY <1>1, <1>2, <1>4, Counting
<1> QED BY <1>5

\* The recursive equation of Ops, where they are defined.
LEMMA OpsEquation ==
  ASSUME NEW d, DictInv(d)
  PROVE  /\ AllSeqs(Ops(d))
         /\ \A a \in Addrs : Defined(Ops(d)[a]) => Ops(d)[a] = OpsAt(d, Ops(d), a)
<1>1. PICK w : Rounds(d, w)
  BY RoundsAre
<1>2. DICT_SIZE \in Nat \ {0}
  BY RegionAssumption
<1> DEFINE k == DICT_SIZE - 1
<1>3. k \in 0 .. DICT_SIZE /\ k # DICT_SIZE /\ k + 1 = DICT_SIZE /\ DICT_SIZE \in 0 .. DICT_SIZE
  BY <1>2
<1>4. Ops(d) = w[DICT_SIZE] /\ \A a \in Addrs : w[DICT_SIZE][a] = OpsAt(d, w[k], a)
  BY <1>1, <1>2, <1>3 DEF Rounds
<1> HIDE DEF k
<1>5. AllSeqs(w[k]) /\ AllSeqs(w[DICT_SIZE])
  BY <1>1, <1>3, RoundSeqs
<1>6. Goes(w[k], w[k + 1])
  BY <1>1, <1>3, RoundsGo
<1>7. Goes(w[k], w[DICT_SIZE])
  BY <1>3, <1>6
<1>8. ASSUME NEW a \in Addrs, Defined(Ops(d)[a]) PROVE Ops(d)[a] = OpsAt(d, Ops(d), a)
  <2>1. Defined(OpsAt(d, w[k], a))
    BY <1>4, <1>8
  <2>2. OpsAt(d, w[DICT_SIZE], a) = OpsAt(d, w[k], a)
    BY <1>5, <1>7, <2>1, OpsAgree
  <2> QED BY <1>4, <2>2
<1> QED BY <1>4, <1>5, <1>8

----------------------------------------------------------------------------
(* What a step of the dictionary leaves as it was.                         *)

\* What is compiled in d is the same in c, but for open branches.
Firm(d, c) ==
    /\ Entries(d) \subseteq Entries(c)
    /\ \A e \in Entries(d) : c.hdr[e].name = d.hdr[e].name
    /\ \A e \in Entries(d) : c.hdr[e].link = d.hdr[e].link
    /\ \A e \in Entries(c) : e < d.here => e \in Entries(d)
    /\ \A a \in Region : a < d.here => \/ c.mem[a] = d.mem[a]
                                       \/ /\ d.mem[a] = 0
                                          /\ FetchIn(d, a - 1) \in {rt_branch, rt_0branch}

LEMMA FirmStep ==
  ASSUME DictInv(dict), DictStep, ~misused'
  PROVE  Firm(dict, dict')
<1>1. dict.here \in Int
  BY RegionAssumption DEF DictInv, Shaped, CodeAddrs
<1>2. CASE dict' = dict
  BY <1>2 DEF Firm
<1>3. CASE Extends(dict, dict') /\ Keeps(dict, dict')
  BY <1>3 DEF Firm, Extends, Keeps
<1>4. CASE \E n : Adds(dict, dict', n)
  <2>1. PICK n : Adds(dict, dict', n)
    BY <1>4
  <2>2. \A e \in Entries(dict) : e # dict.here
    <3>1. \A e \in Entries(dict) : dict_get_code_field(dict, e) \in e + 1 .. dict.here - 1
      BY DEF DictInv, Placed
    <3>2. Entries(dict) \subseteq Int
      BY RegionAssumption DEF DictInv, Shaped, Region
    <3> QED BY <1>1, <3>1, <3>2
  <2>3. \A e \in Entries(dict) : dict'.hdr[e] = dict.hdr[e]
    BY <2>1, <2>2 DEF Adds
  <2>4. \A e \in Entries(dict') : e < dict.here => e \in Entries(dict)
    BY <1>1, <2>1 DEF Adds
  <2> QED BY <2>1, <2>3, <2>4 DEF Firm, Adds
<1> QED BY <1>2, <1>3, <1>4 DEF DictStep

LEMMA FirmFetch ==
  ASSUME NEW d, NEW c, DictInv(d), DictInv(c), Firm(d, c), NEW a \in Region, a < d.here,
         FetchIn(d, a) # 0 \/ FetchIn(d, a - 1) \notin {rt_branch, rt_0branch}
  PROVE  FetchIn(c, a) = FetchIn(d, a)
<1>1. InRegion(a)
  BY RegionAssumption DEF Region, InRegion
<1>2. CASE a \in Entries(d)
  <2>1. a \in Entries(c) /\ c.hdr[a].link = d.hdr[a].link
    BY <1>2 DEF Firm
  <2>2. FetchIn(c, a) = c.hdr[a].link
    BY <1>1, <2>1 DEF FetchIn
  <2>3. FetchIn(d, a) = d.hdr[a].link
    BY <1>1, <1>2 DEF FetchIn
  <2> QED BY <2>1, <2>2, <2>3
<1>3. CASE a \notin Entries(d)
  <2>1. a \notin Entries(c)
    BY <1>3 DEF Firm
  <2>2. FetchIn(c, a) = c.mem[a]
    BY <1>1, <2>1 DEF FetchIn
  <2>3. FetchIn(d, a) = d.mem[a]
    BY <1>1, <1>3 DEF FetchIn
  <2>4. \/ c.mem[a] = d.mem[a]
        \/ d.mem[a] = 0 /\ FetchIn(d, a - 1) \in {rt_branch, rt_0branch}
    BY DEF Firm
  <2> QED BY <2>2, <2>3, <2>4
<1> QED BY <1>2, <1>3

\* The code field of an entry is a cell below HERE.
LEMMA CodePlace ==
  ASSUME NEW d, DictInv(d), NEW e \in Entries(d)
  PROVE  /\ dict_get_code_field(d, e) \in Region /\ dict_get_code_field(d, e) < d.here
         /\ dict_get_code_field(d, e) \notin Entries(d) /\ e < d.here
         /\ dict_get_param_field(d, e) = dict_get_code_field(d, e) + 1
         /\ dict_get_param_field(d, e) \in CodeAddrs
<1> DEFINE cf == dict_get_code_field(d, e)
<1>1. Entries(d) \subseteq Region /\ d.here \in CodeAddrs
  BY DEF DictInv, Shaped
<1>2. cf \in e + 1 .. d.here - 1 /\ \A f \in Entries(d) : e < f => cf < f
  BY DEF DictInv, Placed
<1>3. dict_get_param_field(d, e) = cf + 1
  BY DEF dict_get_param_field
<1> HIDE DEF cf
<1>4. cf \in Region /\ cf < d.here /\ e < d.here /\ e < cf /\ cf \in Int /\ e \in Int /\ cf + 1 \in CodeAddrs
  BY <1>1, <1>2, RegionAssumption DEF Region, CodeAddrs
<1>5. cf \notin Entries(d)
  BY <1>2, <1>4
<1> QED BY <1>3, <1>4, <1>5 DEF cf

LEMMA NoCode ==
  ASSUME NEW d, NEW e, CodeIn(d, e) = 0
  PROVE  SimpleOps(d, e) = Other
<1>1. 0 \notin NativeCode
  <2>1. \A i \in DOMAIN Native : Native[i] # 0
    BY PrimitivesAssumption DEF Native
  <2> QED BY <2>1 DEF NativeCode
<1> QED BY <1>1 DEF SimpleOps, do_variable, do_constant

LEMMA FirmSimple ==
  ASSUME NEW d, NEW c, DictInv(d), DictInv(c), Firm(d, c), Filled(d), NEW e \in Entries(d),
         CodeIn(d, e) # 0
  PROVE  /\ CodeIn(c, e) = CodeIn(d, e)
         /\ dict_get_param_field(c, e) = dict_get_param_field(d, e)
         /\ SimpleOps(c, e) = SimpleOps(d, e)
<1> DEFINE cf == dict_get_code_field(d, e)
           pf == dict_get_param_field(d, e)
<1>1. cf \in Region /\ cf < d.here /\ cf \notin Entries(d) /\ pf = cf + 1
  BY CodePlace
<1>2. dict_get_code_field(c, e) = cf /\ dict_get_param_field(c, e) = pf
  BY DEF Firm, dict_get_param_field, dict_get_code_field
<1>3. d.mem[cf] # 0
  BY DEF CodeIn
<1>4. c.mem[cf] = d.mem[cf]
  BY <1>1, <1>3 DEF Firm
<1>5. CodeIn(c, e) = CodeIn(d, e)
  BY <1>2, <1>4 DEF CodeIn
<1>6. CASE CodeIn(d, e) = do_constant
  <2>1. pf < d.here /\ pf \notin Entries(d)
    BY <1>6 DEF Filled
  <2>2. d.mem[cf] = do_constant /\ d.here \in CodeAddrs
    BY <1>6 DEF CodeIn, DictInv, Shaped
  <2> HIDE DEF cf, pf
  <2>3. pf \in Region /\ pf - 1 = cf
    BY <1>1, <2>1, <2>2, RegionAssumption DEF Region, CodeAddrs
  <2>4. InRegion(cf)
    BY <1>1, RegionAssumption DEF Region, InRegion
  <2>5. FetchIn(d, pf - 1) = do_constant
    BY <1>1, <2>2, <2>3, <2>4 DEF FetchIn
  <2>6. c.mem[pf] = d.mem[pf]
    BY <2>1, <2>3, <2>5 DEF Firm, do_constant, rt_branch, rt_0branch
  <2>7. SimpleOps(c, e) = Lit(c.mem[pf])
    <3>1. CodeIn(c, e) = do_constant /\ do_constant # do_variable
      BY <1>5, <1>6 DEF do_constant, do_variable
    <3>2. do_constant \notin NativeCode
      BY PrimitivesAssumption DEF NativeCode, Native, do_constant
    <3> QED BY <1>2, <3>1, <3>2 DEF SimpleOps
  <2>8. SimpleOps(d, e) = Lit(d.mem[pf])
    <3>1. CodeIn(d, e) = do_constant /\ do_constant # do_variable
      BY <1>6 DEF do_constant, do_variable
    <3>2. do_constant \notin NativeCode
      BY PrimitivesAssumption DEF NativeCode, Native, do_constant
    <3> QED BY <3>1, <3>2 DEF SimpleOps, pf
  <2> QED BY <1>2, <1>5, <2>6, <2>7, <2>8 DEF pf
<1>7. CASE CodeIn(d, e) # do_constant
  <2>1. SimpleOps(c, e) = SimpleOps(d, e)
    BY <1>2, <1>5, <1>7 DEF SimpleOps
  <2> QED BY <1>2, <1>5, <2>1
<1> QED BY <1>6, <1>7

\* f finds nothing at HERE or above.
Below(d, f) == \A b \in Addrs : Defined(f[b]) => b < d.here

LEMMA OpsBelow ==
  ASSUME NEW d, NEW f, NEW a \in Addrs, DictInv(d), Blank(d), Defined(OpsAt(d, f, a))
  PROVE  a < d.here
<1>1. SUFFICES ASSUME ~(a < d.here) PROVE FALSE
  OBVIOUS
<1>2. d.here \in CodeAddrs /\ \A e \in Entries(d) : e < d.here /\ e \in Region
  BY CodePlace DEF DictInv, Shaped
<1>3. a \in Int /\ d.here \in Int /\ d.here <= a /\ d.here > 11
  BY <1>1, <1>2, Above, RegionAssumption DEF Addrs, CodeAddrs
<1>4. a \notin Entries(d) /\ d.here \notin Entries(d)
  BY <1>2, <1>3 
<1>5. FetchIn(d, a) = 0 \/ FetchIn(d, a) = d.here
  <2>1. CASE a \in Region
    <3>1. InRegion(a)
      BY <2>1, RegionAssumption DEF Region, InRegion
    <3>2. FetchIn(d, a) = d.mem[a]
      BY <1>4, <3>1 DEF FetchIn
    <3> QED BY <1>3, <2>1, <3>2 DEF Blank
  <2>2. CASE a \notin Region
    <3>1. ~InRegion(a)
      BY <1>3, <2>2, RegionAssumption DEF Region, InRegion
    <3> QED BY <1>4, <3>1 DEF FetchIn
  <2> QED BY <2>1, <2>2
<1>6. 0 \notin Entries(d)
  BY <1>2, Above, RegionAssumption DEF Region
<1>7. /\ FetchIn(d, a) # SENTINEL_EXIT /\ FetchIn(d, a) # do_literal
      /\ FetchIn(d, a) \notin Entries(d)
  BY <1>3, <1>4, <1>5, <1>6 DEF SENTINEL_EXIT, do_literal
<1>8. OpsCase(d, f, a)
  BY OpsCases
<1>9. OpsAt(d, f, a) = Other
  BY <1>7, <1>8 DEF OpsCase
<1> QED BY <1>9, BitsOfOps

LEMMA OpsStable ==
  ASSUME NEW d, NEW c, NEW f, NEW a \in Addrs, DictInv(d), DictInv(c), Blank(d), Filled(d), Firm(d, c),
         AllSeqs(f), Below(d, f), Defined(OpsAt(d, f, a))
  PROVE  OpsAt(c, f, a) = OpsAt(d, f, a)
<1> DEFINE x == FetchIn(d, a)
<1>1. a < d.here
  BY OpsBelow
<1>2. OpsCase(d, f, a) /\ OpsCase(c, f, a)
  BY OpsCases
<1>3. OpsAt(d, f, a) # Other
  BY BitsOfOps
<1>4. \A b \in Addrs : IsSeq(f[b]) /\ (Defined(f[b]) => b < d.here)
  BY DEF AllSeqs, Below
<1>5. a \in Region
  BY <1>2, <1>3 DEF OpsCase
<1>6. \A e \in Entries(d) \cup Entries(c) : e # 0 /\ e # SENTINEL_EXIT /\ e # do_literal
  <2>1. Entries(d) \subseteq Region /\ Entries(c) \subseteq Region
    BY DEF DictInv, Shaped
  <2> QED BY <2>1, Above, RegionAssumption DEF Region, SENTINEL_EXIT, do_literal
<1>7. SENTINEL_EXIT # do_literal /\ SENTINEL_EXIT # 0 /\ do_literal # 0
  BY DEF SENTINEL_EXIT, do_literal
<1>8. FetchIn(c, a) = x
  <2>1. x # 0
    BY <1>2, <1>3, <1>6, <1>7 DEF OpsCase
  <2> QED BY <1>1, <1>5, <2>1, FirmFetch
<1>9. CASE x = SENTINEL_EXIT
  <2>1. OpsAt(d, f, a) = <<>>
    BY <1>2, <1>6, <1>7, <1>9 DEF OpsCase
  <2>2. OpsAt(c, f, a) = <<>>
    BY <1>2, <1>6, <1>7, <1>8, <1>9 DEF OpsCase
  <2> QED BY <2>1, <2>2
<1>10. CASE x = do_literal
  <2> DEFINE l == Lit(FetchIn(d, a + 1))
  <2>1. a + 2 \in Addrs /\ OpsAt(d, f, a) = l \o f[a + 2]
    BY <1>2, <1>6, <1>7, <1>10 DEF OpsCase
  <2>2. OpsAt(c, f, a) = Lit(FetchIn(c, a + 1)) \o f[a + 2]
    BY <1>2, <1>6, <1>7, <1>8, <1>10 DEF OpsCase
  <2>3. IsSeq(l)
    BY BitsOfOps
  <2>4. Defined(f[a + 2])
    <3> HIDE DEF l
    <3>1. Defined(l \o f[a + 2])
      BY <2>1
    <3> QED BY <1>4, <2>1, <2>3, <3>1, JoinDefined
  <2>5. a + 2 < d.here /\ d.here \in CodeAddrs
    BY <1>4, <2>1, <2>4 DEF DictInv, Shaped
  <2>6. a + 1 \in Region /\ a + 1 < d.here /\ (a + 1) - 1 = a
    BY <1>5, <2>5, RegionAssumption DEF Region, CodeAddrs
  <2>7. FetchIn(c, a + 1) = FetchIn(d, a + 1)
    <3>1. FetchIn(d, (a + 1) - 1) \notin {rt_branch, rt_0branch}
      BY <1>10, <2>6 DEF do_literal, rt_branch, rt_0branch
    <3> QED BY <2>6, <3>1, FirmFetch
  <2> QED BY <2>1, <2>2, <2>7
<1>11. CASE x \in Entries(d)
  <2>1. x \in Entries(c)
    BY <1>11 DEF Firm
  <2>2. ASSUME CodeIn(d, x) # 0
        PROVE  OpsAt(c, f, a) = OpsAt(d, f, a)
    <3>1. /\ CodeIn(c, x) = CodeIn(d, x) /\ SimpleOps(c, x) = SimpleOps(d, x)
          /\ dict_get_param_field(c, x) = dict_get_param_field(d, x)
      BY <1>11, <2>2, FirmSimple
    <3>2. CASE CodeIn(d, x) = do_colon
      <4>1. OpsAt(d, f, a) = f[dict_get_param_field(d, x)] \o f[a + 1]
        BY <1>2, <1>6, <1>11, <3>2 DEF OpsCase
      <4>2. OpsAt(c, f, a) = f[dict_get_param_field(c, x)] \o f[a + 1]
        BY <1>2, <1>6, <1>8, <2>1, <3>1, <3>2 DEF OpsCase
      <4> QED BY <3>1, <4>1, <4>2
    <3>3. CASE CodeIn(d, x) # do_colon
      <4>1. OpsAt(d, f, a) = SimpleOps(d, x) \o f[a + 1]
        BY <1>2, <1>6, <1>11, <3>3 DEF OpsCase
      <4>2. OpsAt(c, f, a) = SimpleOps(c, x) \o f[a + 1]
        BY <1>2, <1>6, <1>8, <2>1, <3>1, <3>3 DEF OpsCase
      <4> QED BY <3>1, <4>1, <4>2
    <3> QED BY <3>2, <3>3
  <2>3. CodeIn(d, x) # 0
    <3>1. SUFFICES ASSUME CodeIn(d, x) = 0 PROVE FALSE
      OBVIOUS
    <3>2. SimpleOps(d, x) = Other
      BY <3>1, NoCode
    <3>3. a + 1 \in Addrs /\ OpsAt(d, f, a) = Other \o f[a + 1]
      <4>1. CodeIn(d, x) # do_colon
        BY <3>1 DEF do_colon
      <4>2. a + 1 \in Addrs /\ OpsAt(d, f, a) = SimpleOps(d, x) \o f[a + 1]
        BY <1>2, <1>6, <1>11, <4>1 DEF OpsCase
      <4> QED BY <3>2, <4>2
    <3>4. PICK o : o = Other
      OBVIOUS
    <3>5. IsSeq(o) /\ ~Defined(o) /\ Defined(o \o f[a + 1])
      BY <3>3, <3>4, BitsOfOps
    <3> QED BY <1>4, <3>3, <3>5, JoinDefined
  <2> QED BY <2>2, <2>3
<1> HIDE DEF x
<1>12. x = SENTINEL_EXIT \/ x = do_literal \/ x \in Entries(d)
  BY <1>2, <1>3 DEF OpsCase, x
<1> QED BY <1>9, <1>10, <1>11, <1>12

\* The rounds of the dictionary after a step find what those before it found.
LEMMA RoundsStable ==
  ASSUME NEW d, NEW c, NEW w, NEW v, DictInv(d), DictInv(c), Blank(d), Filled(d), Firm(d, c),
         Rounds(d, w), Rounds(c, v)
  PROVE  \A n \in 0 .. DICT_SIZE : Goes(w[n], v[n])
<1>1. DICT_SIZE \in Nat
  BY RegionAssumption
<1>2. \A n \in 0 .. DICT_SIZE : AllSeqs(w[n]) /\ AllSeqs(v[n])
  BY RoundSeqs
<1> DEFINE T == {n \in 0 .. DICT_SIZE : Goes(w[n], v[n]) /\ Below(d, w[n])}
<1>3. 0 \in T
  <2>1. \A a \in Addrs : ~Defined(w[0][a])
    BY BitsOfOps DEF Rounds
  <2> QED BY <1>1, <2>1 DEF Goes, Below
<1>4. ASSUME NEW n \in 0 .. DICT_SIZE, n # DICT_SIZE, n \in T PROVE n + 1 \in T
  <2>1. n + 1 \in 0 .. DICT_SIZE /\ n + 1 # 0 /\ (n + 1) - 1 = n
    BY <1>1, <1>4
  <2>2. \A a \in Addrs : w[n + 1][a] = OpsAt(d, w[n], a) /\ v[n + 1][a] = OpsAt(c, v[n], a)
    BY <2>1 DEF Rounds
  <2>3. Goes(w[n], v[n]) /\ Below(d, w[n]) /\ AllSeqs(w[n])
    BY <1>2, <1>4
  <2>4. ASSUME NEW a \in Addrs, Defined(w[n + 1][a])
        PROVE  v[n + 1][a] = w[n + 1][a] /\ a < d.here
    <3>1. Defined(OpsAt(d, w[n], a))
      BY <2>2, <2>4
    <3>2. OpsAt(c, w[n], a) = OpsAt(d, w[n], a)
      BY <2>3, <3>1, OpsStable
    <3>3. OpsAt(c, v[n], a) = OpsAt(c, w[n], a)
      <4>1. Defined(OpsAt(c, w[n], a))
        BY <3>1, <3>2
      <4> QED BY <2>3, <4>1, OpsAgree
    <3>4. a < d.here
      BY <3>1, OpsBelow
    <3> QED BY <2>2, <3>2, <3>3, <3>4
  <2>5. Goes(w[n + 1], v[n + 1]) /\ Below(d, w[n + 1])
    BY <2>4 DEF Goes, Below
  <2> QED BY <2>1, <2>5
<1>5. \A n \in 0 .. DICT_SIZE : n # DICT_SIZE /\ n \in T => n + 1 \in T
  BY <1>4
<1>6. \A n \in 0 .. DICT_SIZE : n \in T
  <2> HIDE DEF T
  <2> QED BY <1>1, <1>3, <1>5, Counting
<1> QED BY <1>6

LEMMA OpsFromStable ==
  ASSUME NEW d, NEW c, NEW a, DictInv(d), DictInv(c), Blank(d), Filled(d), Firm(d, c),
         InRegion(a) => a \in Addrs, Defined(OpsFrom(d, a))
  PROVE  OpsFrom(c, a) = OpsFrom(d, a)
<1>1. CASE ~InRegion(a)
  BY <1>1 DEF OpsFrom
<1>2. CASE InRegion(a)
  <2>1. PICK w : Rounds(d, w)
    BY RoundsAre
  <2>2. PICK v : Rounds(c, v)
    BY RoundsAre
  <2>3. DICT_SIZE \in 0 .. DICT_SIZE
    BY RegionAssumption
  <2>4. Goes(w[DICT_SIZE], v[DICT_SIZE])
    BY <2>1, <2>2, <2>3, RoundsStable
  <2>5. Ops(d) = w[DICT_SIZE] /\ Ops(c) = v[DICT_SIZE]
    BY <2>1, <2>2 DEF Rounds
  <2> QED BY <1>2, <2>4, <2>5 DEF OpsFrom, Goes
<1> QED BY <1>1, <1>2

\* Binding is static, for every text and every dictionary: once dict_find can
\* return a colon word, no definition, redefinition or compilation (dict_create,
\* dict_comma, the patches of the branch words) changes the operations that
\* forth_inner runs through for it.
THEOREM MeaningsStay == Spec => MeaningStable
<1> DEFINE Stays == \A e \in Own :
         LET ops == OpsFrom(dict, dict_get_param_field(dict, e))
         IN  (VisibleColon(e) /\ Defined(ops)) =>
                 OpsFrom(dict, dict_get_param_field(dict, e))' = ops
<1>1. ASSUME IInv, [Next]_vars, ~misused' PROVE Stays
  <2>1. DictInv(dict) /\ misused \in BOOLEAN /\ (~misused => Sound(dict))
    BY <1>1 DEF IInv, Flags
  <2>2. DictStep
    BY <1>1, <2>1, DictNext
  <2>3. IInv'
    BY <1>1, Stepped
  <2>4. DictInv(dict')
    BY <2>3 DEF IInv
  <2>5. ~misused
    BY <1>1, <2>1, DictNext
  <2>6. Firm(dict, dict') /\ Blank(dict) /\ Filled(dict)
    BY <1>1, <2>1, <2>2, <2>5, FirmStep DEF Sound
  <2>7. ASSUME NEW e \in Own, Defined(OpsFrom(dict, dict_get_param_field(dict, e)))
        PROVE  OpsFrom(dict', dict_get_param_field(dict', e)) = OpsFrom(dict, dict_get_param_field(dict, e))
    <3> DEFINE p == dict_get_param_field(dict, e)
    <3>1. e \in Entries(dict)
      BY DEF Own
    <3>2. dict_get_param_field(dict', e) = p
      BY <2>6, <3>1 DEF Firm, dict_get_param_field, dict_get_code_field
    <3>3. p \in CodeAddrs
      BY <2>1, <3>1, CodePlace
    <3>4. p \in Addrs
      BY <3>3, RegionAssumption DEF CodeAddrs, Addrs
    <3> HIDE DEF p
    <3>5. OpsFrom(dict', p) = OpsFrom(dict, p)
      BY <2>1, <2>4, <2>6, <2>7, <3>4, OpsFromStable DEF p
    <3> QED BY <3>2, <3>5 DEF p
  <2> QED BY <2>7
<1> HIDE DEF Stays
<1>2. ASSUME IInv, [Next]_vars PROVE (dict' # dict /\ ~misused') => Stays
  BY <1>1, <1>2
<1> QED BY <1>2, Invariance, PTL DEF Spec, MeaningStable, Stays

----------------------------------------------------------------------------
(* The invariant of the meaning.                                          *)

\* A call and a thread frame are the innermost ones.
Tidy(f) == \A i \in DOMAIN f : f[i].kind \in {"call", "thread"} => i = Len(f)
TidyInv == /\ Tidy(frames)
           /\ \A t \in DOMAIN tasks : Tidy(tasks[t])
           /\ Top("thread") => ~expect.known

\* What is left to do from ip and the return stack.
Rest  == OpsFrom(dict, ip) \o CallerOps(dict, rs, borrowed)
Meant == (expect.known /\ ~lost /\ ~wild) =>
             Defined(Pending \o Rest) /\ Run(Pending \o Rest, ds) = expect.ds

MInv == TidyInv /\ Meant

----------------------------------------------------------------------------
(* Running a sequence of operations.                                       *)

Turn(ops, s, f, i)   == IF i = 0 THEN s ELSE Perform(f[i - 1], ops[i])
IsRun(ops, s, f, k)  == f = [i \in 0 .. k |-> Turn(ops, s, f, i)]

LEMMA RunTurns ==
  ASSUME NEW ops, NEW s
  PROVE  Run(ops, s) = (CHOOSE f : IsRun(ops, s, f, Len(ops)))[Len(ops)]
  BY DEF Run, IsRun, Turn

LEMMA RunExists ==
  ASSUME NEW ops, NEW s, NEW N \in Nat
  PROVE  \E f : IsRun(ops, s, f, N)
<1> DEFINE T == {k \in Nat : \E f : IsRun(ops, s, f, k)}
<1>1. 0 \in T
  <2> DEFINE f == [n \in 0 .. 0 |-> s]
  <2>1. IsRun(ops, s, f, 0)
    BY DEF IsRun, Turn
  <2> QED BY <2>1
<1>2. ASSUME NEW k \in 0 .. N, k \in T PROVE k + 1 \in T
  <2>1. PICK g : IsRun(ops, s, g, k)
    BY <1>2
  <2> DEFINE f == [n \in 0 .. k + 1 |-> Turn(ops, s, g, n)]
  <2>2. \A n \in 0 .. k : g[n] = Turn(ops, s, g, n)
    BY <2>1 DEF IsRun
  <2>3. \A n \in 0 .. k : f[n] = g[n]
    BY <2>2
  <2>4. \A n \in 0 .. k + 1 : n # 0 => n - 1 \in 0 .. k
    OBVIOUS
  <2>5. \A n \in 0 .. k + 1 : Turn(ops, s, f, n) = Turn(ops, s, g, n)
    <3> HIDE DEF f
    <3> QED BY <2>3, <2>4 DEF Turn
  <2>6. f = [n \in 0 .. k + 1 |-> Turn(ops, s, f, n)]
    BY <2>5
  <2> HIDE DEF f
  <2>7. IsRun(ops, s, f, k + 1)
    BY <2>6 DEF IsRun
  <2> QED BY <2>7
<1>3. \A k \in 0 .. N : k # N /\ k \in T => k + 1 \in T
  BY <1>2
<1> HIDE DEF T
<1>4. N \in T
  BY <1>1, <1>3, Counting
<1> QED BY <1>4 DEF T

Runs(ops, s, f) == /\ f[0] = s /\ Run(ops, s) = f[Len(ops)]
                   /\ \A i \in 0 .. Len(ops) : i # 0 => f[i] = Perform(f[i - 1], ops[i])

LEMMA RunsAre == ASSUME NEW ops, NEW s, IsSeq(ops) PROVE \E f : Runs(ops, s, f)
<1>1. Len(ops) \in Nat
  BY SeqIs
<1>2. \E f : IsRun(ops, s, f, Len(ops))
  BY <1>1, RunExists
<1> DEFINE f == CHOOSE x : IsRun(ops, s, x, Len(ops))
<1>3. IsRun(ops, s, f, Len(ops))
  BY <1>2
<1>4. Run(ops, s) = f[Len(ops)]
  BY RunTurns
<1> HIDE DEF f
<1>5. \A i \in 0 .. Len(ops) : f[i] = Turn(ops, s, f, i)
  BY <1>3 DEF IsRun
<1>6. 0 \in 0 .. Len(ops)
  BY <1>1
<1>7. Runs(ops, s, f)
  BY <1>4, <1>5, <1>6 DEF Runs, Turn
<1> QED BY <1>7

\* The first operation is performed first.
LEMMA RunStep ==
  ASSUME NEW o, NEW t, NEW s, IsSeq(t)
  PROVE  Run(<<o>> \o t, s) = Run(t, Perform(s, o))
<1>1. PICK h : h = <<o>>
  OBVIOUS
<1>2. IsSeq(h) /\ Len(h) = 1 /\ h[1] = o
  BY <1>1, OneIs
<1>3. PICK u : u = h \o t
  OBVIOUS
<1>4. /\ IsSeq(u) /\ Len(u) = 1 + Len(t) /\ Len(t) \in Nat /\ u[1] = o
      /\ \A i \in 1 .. Len(t) : u[1 + i] = t[i]
  <2>1. /\ IsSeq(h \o t) /\ Len(h \o t) = Len(h) + Len(t) /\ Len(t) \in Nat
        /\ \A i \in 1 .. Len(h) : (h \o t)[i] = h[i]
        /\ \A i \in 1 .. Len(t) : (h \o t)[Len(h) + i] = t[i]
    BY <1>2, JoinIs
  <2> QED BY <1>2, <1>3, <2>1
<1>5. PICK q : q = Perform(s, o)
  OBVIOUS
<1>6. PICK f : Runs(u, s, f)
  BY <1>4, RunsAre
<1>7. PICK g : Runs(t, q, g)
  BY RunsAre
<1> DEFINE T == {i \in 0 .. Len(t) : f[i + 1] = g[i]}
<1>8. 0 \in T
  <2>1. 1 \in 0 .. Len(u) /\ 1 - 1 = 0
    BY <1>4
  <2>2. f[1] = Perform(f[0], u[1])
    BY <1>6, <2>1 DEF Runs
  <2>3. f[1] = g[0]
    BY <1>4, <1>5, <1>6, <1>7, <2>2 DEF Runs
  <2> QED BY <1>4, <2>3
<1>9. ASSUME NEW i \in 0 .. Len(t), i # Len(t), i \in T PROVE i + 1 \in T
  <2>1. /\ i + 1 \in 0 .. Len(t) /\ i + 1 # 0 /\ (i + 1) - 1 = i /\ i + 1 \in 1 .. Len(t)
        /\ 1 + (i + 1) \in 0 .. Len(u) /\ 1 + (i + 1) # 0 /\ (1 + (i + 1)) - 1 = i + 1
        /\ (i + 1) + 1 = 1 + (i + 1)
    BY <1>4, <1>9
  <2>2. g[i + 1] = Perform(g[i], t[i + 1])
    BY <1>7, <2>1 DEF Runs
  <2>3. f[1 + (i + 1)] = Perform(f[i + 1], u[1 + (i + 1)])
    BY <1>6, <2>1 DEF Runs
  <2>4. u[1 + (i + 1)] = t[i + 1] /\ f[i + 1] = g[i]
    BY <1>4, <1>9, <2>1
  <2>5. f[(i + 1) + 1] = g[i + 1]
    BY <2>1, <2>2, <2>3, <2>4
  <2> QED BY <2>1, <2>5
<1>10. \A i \in 0 .. Len(t) : i # Len(t) /\ i \in T => i + 1 \in T
  BY <1>9
<1>11. \A i \in 0 .. Len(t) : i \in T
  <2> HIDE DEF T
  <2> QED BY <1>4, <1>8, <1>10, Counting
<1>12. f[Len(t) + 1] = g[Len(t)] /\ Len(t) + 1 = Len(u)
  BY <1>4, <1>11
<1>13. Run(u, s) = Run(t, q)
  BY <1>6, <1>7, <1>12 DEF Runs
<1> QED BY <1>1, <1>3, <1>5, <1>13

LEMMA RunNone == ASSUME NEW s PROVE Run(<<>>, s) = s
<1>1. PICK e : e = <<>>
  OBVIOUS
<1>2. IsSeq(e) /\ Len(e) = 0
  BY <1>1, EmptyIs
<1>3. PICK f : Runs(e, s, f)
  BY <1>2, RunsAre
<1> QED BY <1>1, <1>2, <1>3 DEF Runs

LEMMA RunLit ==
  ASSUME NEW v, NEW t, NEW s, IsSeq(t)
  PROVE  Run(Lit(v) \o t, s) = Run(t, ds_push(s, v))
<1>1. PICK o : o = [op |-> "literal", value |-> v]
  OBVIOUS
<1>2. Run(<<o>> \o t, s) = Run(t, Perform(s, o))
  BY RunStep
<1>3. Perform(s, o) = ds_push(s, v)
  BY <1>1 DEF Perform
<1> QED BY <1>1, <1>2, <1>3 DEF Lit

LEMMA RunPrim ==
  ASSUME NEW w, NEW t, NEW s, IsSeq(t)
  PROVE  Run(Prim(w) \o t, s) = Run(t, Effect(w, s))
<1>1. PICK o : o = [op |-> "primitive", word |-> w]
  OBVIOUS
<1>2. Run(<<o>> \o t, s) = Run(t, Perform(s, o))
  BY RunStep
<1>3. Perform(s, o) = Effect(w, s)
  BY <1>1 DEF Perform
<1> QED BY <1>1, <1>2, <1>3 DEF Prim

----------------------------------------------------------------------------
(* What the callers on the return stack have left to do.                   *)

Caller(d, r, b, n)      == IF b[n] THEN <<>> ELSE OpsFrom(d, r[n])
Level(d, r, b, f, n)    == IF n = 0 THEN <<>> ELSE Caller(d, r, b, n) \o f[n - 1]
IsBelow(d, r, b, f, k)  == f = [n \in 0 .. k |-> Level(d, r, b, f, n)]

LEMMA CallerLevels ==
  ASSUME NEW d, NEW r, NEW b
  PROVE  CallerOps(d, r, b) = (CHOOSE f : IsBelow(d, r, b, f, Len(r)))[Len(r)]
  BY DEF CallerOps, IsBelow, Level, Caller

LEMMA LevelsExist ==
  ASSUME NEW d, NEW r, NEW b, NEW N \in Nat
  PROVE  \E f : IsBelow(d, r, b, f, N)
<1> DEFINE T == {k \in Nat : \E f : IsBelow(d, r, b, f, k)}
<1>1. 0 \in T
  <2> DEFINE f == [n \in 0 .. 0 |-> <<>>]
  <2>1. IsBelow(d, r, b, f, 0)
    BY DEF IsBelow, Level
  <2> QED BY <2>1
<1>2. ASSUME NEW k \in 0 .. N, k \in T PROVE k + 1 \in T
  <2>1. PICK g : IsBelow(d, r, b, g, k)
    BY <1>2
  <2> DEFINE f == [n \in 0 .. k + 1 |-> Level(d, r, b, g, n)]
  <2>2. \A n \in 0 .. k : g[n] = Level(d, r, b, g, n)
    BY <2>1 DEF IsBelow
  <2>3. \A n \in 0 .. k : f[n] = g[n]
    BY <2>2
  <2>4. \A n \in 0 .. k + 1 : n # 0 => n - 1 \in 0 .. k
    OBVIOUS
  <2>5. \A n \in 0 .. k + 1 : Level(d, r, b, f, n) = Level(d, r, b, g, n)
    <3> HIDE DEF f
    <3> QED BY <2>3, <2>4 DEF Level
  <2>6. f = [n \in 0 .. k + 1 |-> Level(d, r, b, f, n)]
    BY <2>5
  <2> HIDE DEF f
  <2>7. IsBelow(d, r, b, f, k + 1)
    BY <2>6 DEF IsBelow
  <2> QED BY <2>7
<1>3. \A k \in 0 .. N : k # N /\ k \in T => k + 1 \in T
  BY <1>2
<1> HIDE DEF T
<1>4. N \in T
  BY <1>1, <1>3, Counting
<1> QED BY <1>4 DEF T

Levels(d, r, b, f) == /\ f[0] = <<>> /\ CallerOps(d, r, b) = f[Len(r)]
                      /\ \A n \in 0 .. Len(r) : n # 0 => f[n] = Caller(d, r, b, n) \o f[n - 1]

LEMMA LevelsAre == ASSUME NEW d, NEW r, NEW b, IsSeq(r) PROVE \E f : Levels(d, r, b, f)
<1>1. Len(r) \in Nat
  BY SeqIs
<1>2. \E f : IsBelow(d, r, b, f, Len(r))
  BY <1>1, LevelsExist
<1> DEFINE f == CHOOSE x : IsBelow(d, r, b, x, Len(r))
<1>3. IsBelow(d, r, b, f, Len(r))
  BY <1>2
<1>4. CallerOps(d, r, b) = f[Len(r)]
  BY CallerLevels
<1> HIDE DEF f
<1>5. \A i \in 0 .. Len(r) : f[i] = Level(d, r, b, f, i)
  BY <1>3 DEF IsBelow
<1>6. 0 \in 0 .. Len(r)
  BY <1>1
<1>7. Levels(d, r, b, f)
  BY <1>4, <1>5, <1>6 DEF Levels, Level
<1> QED BY <1>7

\* r, with marks b, is s, with marks c, and one more cell.
OneMore(r, b, s, c) == /\ IsSeq(r) /\ IsSeq(s) /\ Len(r) = Len(s) + 1
                       /\ \A i \in 1 .. Len(s) : r[i] = s[i] /\ b[i] = c[i]

\* The return address on top comes first.
LEMMA CallerTop ==
  ASSUME NEW d, NEW r, NEW b, NEW s, NEW c, OneMore(r, b, s, c)
  PROVE  CallerOps(d, r, b) = Caller(d, r, b, Len(r)) \o CallerOps(d, s, c)
<1>0. /\ IsSeq(r) /\ IsSeq(s) /\ Len(r) = Len(s) + 1
      /\ \A i \in 1 .. Len(s) : r[i] = s[i] /\ b[i] = c[i]
  BY DEF OneMore
<1>1. Len(s) \in Nat
  BY <1>0, SeqIs
<1>2. PICK f : Levels(d, r, b, f)
  BY <1>0, LevelsAre
<1>3. PICK g : Levels(d, s, c, g)
  BY <1>0, LevelsAre
<1> DEFINE T == {n \in 0 .. Len(s) : f[n] = g[n]}
<1>4. 0 \in T
  BY <1>1, <1>2, <1>3 DEF Levels
<1>5. ASSUME NEW n \in 0 .. Len(s), n # Len(s), n \in T PROVE n + 1 \in T
  <2>1. /\ n + 1 \in 0 .. Len(s) /\ n + 1 # 0 /\ (n + 1) - 1 = n /\ n + 1 \in 1 .. Len(s)
        /\ n + 1 \in 0 .. Len(r)
    BY <1>0, <1>1, <1>5
  <2>2. f[n + 1] = Caller(d, r, b, n + 1) \o f[n]
    BY <1>2, <2>1 DEF Levels
  <2>3. g[n + 1] = Caller(d, s, c, n + 1) \o g[n]
    BY <1>3, <2>1 DEF Levels
  <2>4. Caller(d, r, b, n + 1) = Caller(d, s, c, n + 1) /\ f[n] = g[n]
    BY <1>0, <1>5, <2>1 DEF Caller
  <2> QED BY <2>1, <2>2, <2>3, <2>4
<1>6. \A n \in 0 .. Len(s) : n # Len(s) /\ n \in T => n + 1 \in T
  BY <1>5
<1>7. \A n \in 0 .. Len(s) : n \in T
  <2> HIDE DEF T
  <2> QED BY <1>1, <1>4, <1>6, Counting
<1>8. Len(r) \in 0 .. Len(r) /\ Len(r) # 0 /\ Len(r) - 1 = Len(s) /\ Len(s) \in 0 .. Len(s)
  BY <1>0, <1>1
<1>9. f[Len(r)] = Caller(d, r, b, Len(r)) \o f[Len(s)]
  BY <1>2, <1>8 DEF Levels
<1>10. f[Len(s)] = g[Len(s)]
  BY <1>7, <1>8
<1> QED BY <1>2, <1>3, <1>9, <1>10 DEF Levels

LEMMA CallerSeq ==
  ASSUME NEW d, NEW r, NEW b, IsSeq(r), \A n \in 1 .. Len(r) : IsSeq(Caller(d, r, b, n))
  PROVE  IsSeq(CallerOps(d, r, b))
<1>1. Len(r) \in Nat
  BY SeqIs
<1>2. PICK f : Levels(d, r, b, f)
  BY LevelsAre
<1> DEFINE T == {n \in 0 .. Len(r) : IsSeq(f[n])}
<1>3. 0 \in T
  BY <1>1, <1>2, EmptyIs DEF Levels
<1>4. ASSUME NEW n \in 0 .. Len(r), n # Len(r), n \in T PROVE n + 1 \in T
  <2>1. n + 1 \in 0 .. Len(r) /\ n + 1 # 0 /\ (n + 1) - 1 = n /\ n + 1 \in 1 .. Len(r)
    BY <1>1, <1>4
  <2>2. f[n + 1] = Caller(d, r, b, n + 1) \o f[n]
    BY <1>2, <2>1 DEF Levels
  <2>3. IsSeq(Caller(d, r, b, n + 1)) /\ IsSeq(f[n])
    BY <1>4, <2>1
  <2>4. IsSeq(f[n + 1])
    BY <2>2, <2>3, JoinIs
  <2> QED BY <2>1, <2>4
<1>5. \A n \in 0 .. Len(r) : n # Len(r) /\ n \in T => n + 1 \in T
  BY <1>4
<1>6. \A n \in 0 .. Len(r) : n \in T
  <2> HIDE DEF T
  <2> QED BY <1>1, <1>3, <1>5, Counting
<1>7. Len(r) \in 0 .. Len(r)
  BY <1>1
<1> QED BY <1>2, <1>6, <1>7 DEF Levels

LEMMA CallerNone ==
  ASSUME NEW d, NEW r, NEW b, IsSeq(r), \A n \in 1 .. Len(r) : b[n]
  PROVE  CallerOps(d, r, b) = <<>>
<1>1. Len(r) \in Nat
  BY SeqIs
<1>2. PICK f : Levels(d, r, b, f)
  BY LevelsAre
<1> DEFINE T == {n \in 0 .. Len(r) : f[n] = <<>>}
<1>3. 0 \in T
  BY <1>1, <1>2 DEF Levels
<1>4. ASSUME NEW n \in 0 .. Len(r), n # Len(r), n \in T PROVE n + 1 \in T
  <2>1. n + 1 \in 0 .. Len(r) /\ n + 1 # 0 /\ (n + 1) - 1 = n /\ n + 1 \in 1 .. Len(r)
    BY <1>1, <1>4
  <2>2. f[n + 1] = Caller(d, r, b, n + 1) \o f[n]
    BY <1>2, <2>1 DEF Levels
  <2>3. Caller(d, r, b, n + 1) = <<>> /\ f[n] = <<>>
    BY <1>4, <2>1 DEF Caller
  <2>4. f[n + 1] = <<>>
    <3>1. <<>> \o <<>> = <<>>
      BY JoinEmpty, EmptyIs
    <3> QED BY <2>2, <2>3, <3>1
  <2> QED BY <2>1, <2>4
<1>5. \A n \in 0 .. Len(r) : n # Len(r) /\ n \in T => n + 1 \in T
  BY <1>4
<1>6. \A n \in 0 .. Len(r) : n \in T
  <2> HIDE DEF T
  <2> QED BY <1>1, <1>3, <1>5, Counting
<1>7. Len(r) \in 0 .. Len(r)
  BY <1>1
<1> QED BY <1>2, <1>6, <1>7 DEF Levels

----------------------------------------------------------------------------
(* Calls and thread frames are innermost.                                  *)

\* f has no call and no thread frame.
Plain(f) == \A i \in DOMAIN f : f[i].kind \notin {"call", "thread"}
Ends(f, kind) == f # <<>> /\ Last(f).kind = kind

LEMMA PlainTidy == ASSUME NEW f, Plain(f) PROVE Tidy(f)
  BY DEF Plain, Tidy

LEMMA PlainEnds ==
  ASSUME NEW f, IsSeq(f), Plain(f)
  PROVE  ~Ends(f, "call") /\ ~Ends(f, "thread")
<1>1. SUFFICES ASSUME f # <<>> PROVE Last(f).kind \notin {"call", "thread"}
  BY DEF Ends
<1>2. Len(f) \in DOMAIN f /\ Last(f) = f[Len(f)]
  BY <1>1, FrontIs, SeqIs DEF Last
<1> QED BY <1>2 DEF Plain

LEMMA TidyPlain ==
  ASSUME NEW f, IsSeq(f), Tidy(f), ~Ends(f, "call"), ~Ends(f, "thread")
  PROVE  Plain(f)
<1>1. CASE f = <<>>
  BY <1>1, EmptyIs DEF Plain
<1>2. CASE f # <<>>
  <2>1. Last(f) = f[Len(f)]
    BY DEF Last
  <2>2. ~(Last(f).kind = "call") /\ ~(Last(f).kind = "thread")
    BY <1>2 DEF Ends
  <2>3. f[Len(f)].kind \notin {"call", "thread"}
    BY <2>1, <2>2
  <2> QED BY <2>3, Zenon DEF Plain, Tidy
<1> QED BY <1>1, <1>2

LEMMA TidyFront ==
  ASSUME NEW f, IsSeq(f), Tidy(f), f # <<>>
  PROVE  Plain(Front(f)) /\ IsSeq(Front(f))
<1>1. /\ IsSeq(Front(f)) /\ Len(f) \in Nat \ {0}
      /\ DOMAIN Front(f) = 1 .. Len(f) - 1 /\ DOMAIN f = 1 .. Len(f)
      /\ \A i \in 1 .. Len(f) - 1 : Front(f)[i] = f[i]
  BY FrontIs, SeqIs
<1>2. SUFFICES ASSUME NEW i \in DOMAIN Front(f) PROVE Front(f)[i].kind \notin {"call", "thread"}
  BY <1>1 DEF Plain
<1>3. i \in DOMAIN f /\ i # Len(f) /\ Front(f)[i] = f[i]
  BY <1>1
<1> QED BY <1>3, Zenon DEF Tidy

LEMMA TidyPush ==
  ASSUME NEW f, NEW x, IsSeq(f), Plain(f)
  PROVE  /\ Tidy(Append(f, x)) /\ Append(f, x) # <<>> /\ Last(Append(f, x)) = x
<1> DEFINE g == Append(f, x)
<1>1. /\ IsSeq(g) /\ Len(g) = Len(f) + 1 /\ DOMAIN g = 1 .. Len(f) + 1
      /\ \A i \in 1 .. Len(f) : g[i] = f[i]
      /\ g[Len(f) + 1] = x
      /\ Len(f) \in Nat /\ DOMAIN f = 1 .. Len(f)
  BY AppendIs, SeqIs
<1> HIDE DEF g
<1>2. \A i \in 1 .. Len(f) + 1 : i \in 1 .. Len(f) \/ i = Len(f) + 1
  BY <1>1
<1>3. Tidy(g)
  BY <1>1, <1>2 DEF Tidy, Plain
<1>4. g # <<>> /\ Last(g) = x
  BY <1>1, EmptyIs DEF Last
<1> QED BY <1>3, <1>4 DEF g

LEMMA TidyOne == ASSUME NEW x PROVE Tidy(<<x>>) /\ <<x>> # <<>> /\ Last(<<x>>) = x
<1>1. PICK g : g = <<x>>
  OBVIOUS
<1>2. IsSeq(g) /\ Len(g) = 1 /\ g[1] = x /\ DOMAIN g = {1}
  BY <1>1, OneIs
<1> QED BY <1>1, <1>2, EmptyIs DEF Tidy, Last

LEMMA TidyNone == Tidy(<<>>) /\ Plain(<<>>)
  BY EmptyIs DEF Tidy, Plain

\* The running task's call stack changes.
LEMMA TidyLocal ==
  ASSUME TidyInv, tasks' = tasks, Tidy(frames'), ~Ends(frames', "thread") \/ ~expect'.known
  PROVE  TidyInv'
<1>1. (Top("thread") => ~expect.known)'
  BY DEF Top, Ends
<1> QED BY <1>1 DEF TidyInv

LEMMA TidySwitch ==
  ASSUME TidyInv, TasksInv, NEW f, Tidy(f), ~Ends(f, "thread"), Switch(f)
  PROVE  TidyInv' /\ (expect' = Unknown \/ (expect' = expect /\ frames' = f))
<1>1. CASE NextTask = cur
  <2>1. frames' = f /\ tasks' = tasks /\ expect' = expect
    BY <1>1 DEF Switch
  <2> QED BY <2>1, TidyLocal
<1>2. CASE NextTask # cur
  <2>1. PICK m : m = NextTask
    OBVIOUS
  <2>2. /\ frames' = tasks[m] /\ tasks' = [tasks EXCEPT ![cur] = f, ![m] = <<>>]
        /\ expect' = Unknown
    BY <1>2, <2>1 DEF Switch
  <2>3. m \in DOMAIN tasks /\ m # cur
    BY <1>2, <2>1, NextLives DEF Alive
  <2>4. Tidy(frames')
    BY <2>2, <2>3 DEF TidyInv
  <2>5. DOMAIN tasks' = DOMAIN tasks
        /\ \A t \in DOMAIN tasks : tasks'[t] = tasks[t] \/ tasks'[t] = f \/ tasks'[t] = <<>>
    BY <2>2
  <2>6. \A t \in DOMAIN tasks' : Tidy(tasks'[t])
    BY <2>5, TidyNone DEF TidyInv
  <2>7. (Top("thread") => ~expect.known)'
    BY <2>2 DEF Unknown
  <2> QED BY <2>2, <2>4, <2>6, <2>7 DEF TidyInv
<1> QED BY <1>1, <1>2

LEMMA TidyFork ==
  ASSUME TidyInv, TasksInv, Tidy(frames'), ~Ends(frames', "thread"), tasks' = Append(tasks, <<ThreadFrame>>)
  PROVE  TidyInv'
<1>1. IsSeq(tasks) /\ Len(tasks) \in Nat /\ DOMAIN tasks = 1 .. Len(tasks)
  BY SeqIs DEF TasksInv
<1>2. PICK g : g = <<ThreadFrame>>
  OBVIOUS
<1>3. Tidy(g)
  BY <1>2, TidyOne
<1>4. /\ DOMAIN tasks' = 1 .. Len(tasks) + 1
      /\ \A t \in 1 .. Len(tasks) : tasks'[t] = tasks[t]
      /\ tasks'[Len(tasks) + 1] = g
  BY <1>1, <1>2, AppendIs
<1>5. \A t \in 1 .. Len(tasks) + 1 : t \in 1 .. Len(tasks) \/ t = Len(tasks) + 1
  BY <1>1
<1>6. \A t \in DOMAIN tasks' : Tidy(tasks'[t])
  BY <1>1, <1>3, <1>4, <1>5 DEF TidyInv
<1>7. (Top("thread") => ~expect.known)'
  BY DEF Top, Ends
<1> QED BY <1>6, <1>7 DEF TidyInv

\* forth_execute has returned.
LEMMA TidyReturn ==
  ASSUME TidyInv, TasksInv, frames # <<>>
  PROVE  /\ Plain(Return(frames)) /\ IsSeq(Return(frames)) /\ Tidy(Return(frames))
         /\ ~Ends(Return(frames), "call") /\ ~Ends(Return(frames), "thread")
<1>1. IsSeq(frames) /\ Tidy(frames)
  BY DEF TasksInv, IsStack, TidyInv
<1>2. Plain(Return(frames)) /\ IsSeq(Return(frames))
  BY <1>1, TidyFront DEF Return
<1> QED BY <1>2, PlainTidy, PlainEnds

LEMMA TidyNative ==
  ASSUME TidyInv, TasksInv, Top("call"), NEW w, native(w)
  PROVE  TidyInv' /\ (expect' = expect \/ expect' = Unknown)
<1>0. /\ Plain(Return(frames)) /\ IsSeq(Return(frames)) /\ Tidy(Return(frames))
      /\ ~Ends(Return(frames), "thread")
  BY TidyReturn DEF Top
<1>1. ASSUME frames' = Return(frames), tasks' = tasks, expect' = expect
      PROVE  TidyInv' /\ (expect' = expect \/ expect' = Unknown)
  BY <1>0, <1>1, TidyLocal
<1>2. CASE compute(w) \/ w_here \/ w_comma \/ w_base \/ w_r_fetch \/ w_immediate \/ w_if \/ w_while
           \/ w_begin \/ w_until \/ w_again \/ w_do \/ w_loop
  <2>1. Quiet
    BY <1>2 DEF compute, w_here, w_comma, w_base, w_r_fetch, w_immediate, w_if, w_while, w_begin,
                w_until, w_again, w_do, w_loop
  <2>2. frames' = Return(frames) /\ tasks' = tasks /\ expect' = expect
    BY <2>1 DEF Quiet, sched, hist
  <2> QED BY <1>1, <2>2
<1>3. CASE runaway(w)
  <2>1. frames' = frames /\ tasks' = tasks /\ expect' = expect
    BY <1>3 DEF runaway, Fault, sched, hist
  <2>2. ~Ends(frames, "thread") /\ Tidy(frames)
    BY DEF Top, Ends, TidyInv
  <2> QED BY <2>1, <2>2, TidyLocal
<1>4. CASE parsing(w)
  <2>1. PICK p \in parse_word : Parsing(p)
    BY <1>4 DEF parsing
  <2>2. frames' = Return(frames) /\ tasks' = tasks /\ expect' = expect
    BY <2>1 DEF Parsing, sched, hist
  <2> QED BY <1>1, <2>2
<1>5. CASE w_semicolon \/ SetBase(16) \/ SetBase(10)
  <2>1. frames' = Return(frames) /\ tasks' = tasks /\ expect' = expect
    BY <1>5 DEF w_semicolon, SetBase, sched, hist
  <2> QED BY <1>1, <2>1
<1>6. CASE w_else \/ w_then \/ w_repeat
  <2>1. PICK cells, a : Store(cells, a)
    BY <1>6 DEF w_else, w_then, w_repeat
  <2>2. frames' = Return(frames) /\ tasks' = tasks /\ expect' = expect
    BY <2>1 DEF Store, EmitPatch, EmitLow, Quiet, sched, hist
  <2> QED BY <1>1, <2>2
<1>7. CASE w_execute \/ w_load
  <2>1. PICK x : frames' = Append(Return(frames), x) /\ x.kind \in {"call", "load"}
    BY <1>7 DEF w_execute, w_load, Call, LoadFrame
  <2>2. Tidy(frames') /\ ~Ends(frames', "thread")
    BY <1>0, <2>1, TidyPush DEF Ends
  <2>3. tasks' = tasks /\ expect' = expect
    BY <1>7 DEF w_execute, w_load, sched, hist
  <2> QED BY <2>2, <2>3, TidyLocal
<1>8. CASE w_fork
  <2>1. frames' = Return(frames) /\ tasks' = Append(tasks, <<ThreadFrame>>) /\ expect' = expect
    BY <1>8 DEF w_fork, hist
  <2> QED BY <1>0, <2>1, TidyFork
<1>9. CASE w_yield
  <2>1. Switch(Return(frames))
    BY <1>9 DEF w_yield
  <2>2. PICK f : f = Return(frames)
    OBVIOUS
  <2> QED BY <1>0, <2>1, <2>2, TidySwitch
<1>10. CASE w_to_r \/ w_from_r
  <2>1. frames' = Return(frames) /\ tasks' = tasks /\ expect' = expect
    BY <1>10 DEF w_to_r, w_from_r, sched
  <2> QED BY <1>1, <2>1
<1> QED BY <1>2, <1>3, <1>4, <1>5, <1>6, <1>7, <1>8, <1>9, <1>10 DEF native

----------------------------------------------------------------------------
(* What is left to do.                                                     *)

LEMMA InsideIs == ASSUME NEW a \in Int PROVE /\ InRegion(a) <=> a \in Region
                                             /\ a \in Region => a \in Addrs
  BY RegionAssumption DEF InRegion, Region, Addrs

LEMMA OpsFromSeq ==
  ASSUME NEW d, DictInv(d), NEW a \in Int
  PROVE  IsSeq(OpsFrom(d, a))
<1>1. CASE InRegion(a)
  <2>1. a \in Addrs
    BY <1>1, InsideIs
  <2>2. IsSeq(Ops(d)[a])
    BY <2>1, OpsEquation DEF AllSeqs
  <2> QED BY <1>1, <2>2 DEF OpsFrom
<1>2. CASE ~InRegion(a)
  BY <1>2, EmptyIs DEF OpsFrom
<1> QED BY <1>1, <1>2

LEMMA OpsFromAt ==
  ASSUME NEW d, DictInv(d), NEW a \in Addrs, Defined(Ops(d)[a])
  PROVE  OpsFrom(d, a) = Ops(d)[a]
<1>1. PICK f : f = Ops(d)
  OBVIOUS
<1>2. OpsCase(d, f, a)
  BY OpsCases
<1>3. f[a] = OpsAt(d, f, a)
  BY <1>1, OpsEquation
<1>4. OpsAt(d, f, a) # Other
  BY <1>1, <1>3, BitsOfOps
<1>5. a \in Region
  BY <1>2, <1>4 DEF OpsCase
<1>6. a \in Int
  BY RegionAssumption DEF Addrs
<1> QED BY <1>1, <1>5, <1>6, InsideIs DEF OpsFrom

\* One turn of forth_inner, as the meaning sees it.
Unfolded(d, a) ==
    LET c == FetchIn(d, a)
    IN  \/ c = SENTINEL_EXIT /\ OpsFrom(d, a) = <<>>
        \/ c = do_literal /\ OpsFrom(d, a) = Lit(FetchIn(d, a + 1)) \o OpsFrom(d, a + 2)
        \/ /\ c \in Entries(d) /\ CodeIn(d, c) = do_colon
           /\ OpsFrom(d, a) = OpsFrom(d, dict_get_param_field(d, c)) \o OpsFrom(d, a + 1)
        \/ /\ c \in Entries(d) /\ CodeIn(d, c) # do_colon
           /\ OpsFrom(d, a) = SimpleOps(d, c) \o OpsFrom(d, a + 1)

LEMMA OpsUnfold ==
  ASSUME NEW d, DictInv(d), NEW a \in Int, InRegion(a), Defined(OpsFrom(d, a))
  PROVE  Unfolded(d, a)
<1> DEFINE c == FetchIn(d, a)
           p == dict_get_param_field(d, c)
           l == Lit(FetchIn(d, a + 1))
           s == SimpleOps(d, c)
<1>1. a \in Addrs
  BY InsideIs
<1>2. PICK f : f = Ops(d)
  OBVIOUS
<1>3. OpsFrom(d, a) = f[a] /\ f[a] = OpsAt(d, f, a) /\ \A b \in Addrs : IsSeq(f[b])
  BY <1>1, <1>2, OpsEquation DEF OpsFrom, AllSeqs
<1>4. OpsAt(d, f, a) # Other /\ Defined(OpsAt(d, f, a))
  BY <1>3, BitsOfOps
<1>5. OpsCase(d, f, a)
  BY <1>1, OpsCases
<1>6. \/ c = SENTINEL_EXIT /\ f[a] = <<>>
      \/ c = do_literal /\ a + 2 \in Addrs /\ f[a] = l \o f[a + 2]
      \/ /\ c \in Entries(d) /\ CodeIn(d, c) = do_colon
         /\ p \in Addrs /\ a + 1 \in Addrs /\ f[a] = f[p] \o f[a + 1]
      \/ /\ c \in Entries(d) /\ CodeIn(d, c) # do_colon
         /\ a + 1 \in Addrs /\ f[a] = s \o f[a + 1]
  BY <1>3, <1>4, <1>5 DEF OpsCase
<1>7. IsSeq(l) /\ IsSeq(s)
  BY BitsOfOps, SimpleSeq
<1> HIDE DEF c, p, l, s
<1>8. CASE c = SENTINEL_EXIT /\ f[a] = <<>>
  BY <1>3, <1>8 DEF Unfolded, c
<1>9. CASE c = do_literal /\ a + 2 \in Addrs /\ f[a] = l \o f[a + 2]
  <2>1. Defined(l \o f[a + 2])
    BY <1>3, <1>4, <1>9
  <2>2. Defined(f[a + 2])
    BY <1>3, <1>7, <1>9, <2>1, JoinDefined
  <2>3. OpsFrom(d, a + 2) = f[a + 2]
    BY <1>2, <1>9, <2>2, OpsFromAt
  <2> QED BY <1>3, <1>9, <2>3 DEF Unfolded, c, l
<1>10. CASE /\ c \in Entries(d) /\ CodeIn(d, c) = do_colon
            /\ p \in Addrs /\ a + 1 \in Addrs /\ f[a] = f[p] \o f[a + 1]
  <2>1. Defined(f[p] \o f[a + 1])
    BY <1>3, <1>4, <1>10
  <2>2. Defined(f[p]) /\ Defined(f[a + 1])
    BY <1>3, <1>10, <2>1, JoinDefined
  <2>3. OpsFrom(d, a + 1) = f[a + 1] /\ OpsFrom(d, p) = f[p]
    BY <1>2, <1>10, <2>2, OpsFromAt
  <2> QED BY <1>3, <1>10, <2>3 DEF Unfolded, c, p
<1>11. CASE /\ c \in Entries(d) /\ CodeIn(d, c) # do_colon
            /\ a + 1 \in Addrs /\ f[a] = s \o f[a + 1]
  <2>1. Defined(s \o f[a + 1])
    BY <1>3, <1>4, <1>11
  <2>2. Defined(f[a + 1])
    BY <1>3, <1>7, <1>11, <2>1, JoinDefined
  <2>3. OpsFrom(d, a + 1) = f[a + 1]
    BY <1>2, <1>11, <2>2, OpsFromAt
  <2> QED BY <1>3, <1>11, <2>3 DEF Unfolded, c, s
<1> QED BY <1>6, <1>8, <1>9, <1>10, <1>11

\* While no return address is lost.
LEMMA RestSeq ==
  ASSUME DictInv(dict), Flags, ReturnInv, ~lost, ~wild
  PROVE  /\ ip \in Int /\ IsSeq(OpsFrom(dict, ip))
         /\ IsSeq(CallerOps(dict, rs, borrowed))
         /\ IsSeq(Rest) /\ IsSeq(Pending)
<1>1. Threaded /\ IsSeq(rs)
  BY DEF ReturnInv, Flags
<1>2. ip \in Int /\ \A i \in Returns : rs[i] \in Int
  BY <1>1 DEF Threaded
<1>3. IsSeq(OpsFrom(dict, ip))
  BY <1>2, OpsFromSeq
<1>4. ASSUME NEW n \in 1 .. Len(rs) PROVE IsSeq(Caller(dict, rs, borrowed, n))
  <2>1. CASE borrowed[n]
    BY <2>1, EmptyIs DEF Caller
  <2>2. CASE ~borrowed[n]
    <3>1. n \in Returns
      BY <1>1, <2>2, SeqIs DEF Returns
    <3> QED BY <1>2, <2>2, <3>1, OpsFromSeq DEF Caller
  <2> QED BY <2>1, <2>2
<1>5. IsSeq(CallerOps(dict, rs, borrowed))
  BY <1>1, <1>4, CallerSeq
<1>6. IsSeq(Rest)
  BY <1>3, <1>5, JoinIs DEF Rest
<1>7. IsSeq(Pending)
  BY SimpleSeq, EmptyIs DEF Pending
<1> QED BY <1>2, <1>3, <1>5, <1>6, <1>7

\* No activation of forth_inner: nothing is left.
LEMMA RestNone ==
  ASSUME DictInv(dict), Flags, ReturnInv, ~lost, ~wild, Inners = {}
  PROVE  Rest = <<>> /\ OpsFrom(dict, ip) = <<>> /\ CallerOps(dict, rs, borrowed) = <<>>
<1>1. Threaded /\ IsSeq(rs)
  BY DEF ReturnInv, Flags
<1>2. ~InRegion(ip) /\ Returns = {}
  BY <1>1 DEF Threaded
<1>3. OpsFrom(dict, ip) = <<>>
  BY <1>2 DEF OpsFrom
<1>4. \A n \in 1 .. Len(rs) : borrowed[n]
  BY <1>1, <1>2, SeqIs DEF Returns
<1>5. CallerOps(dict, rs, borrowed) = <<>>
  BY <1>1, <1>4, CallerNone
<1>6. <<>> \o <<>> = <<>>
  BY JoinEmpty, EmptyIs
<1> QED BY <1>3, <1>5, <1>6 DEF Rest

----------------------------------------------------------------------------
(* Each step leads from what is left to do to what is left after it.       *)

LEMMA NoPending ==
  ASSUME ~Ends(frames', "call")
  PROVE  Pending' = <<>>
<1>1. ~Top("call")'
  BY DEF Top, Ends
<1> QED BY <1>1 DEF Pending

LEMMA SameRest ==
  ASSUME UNCHANGED <<dict, rs, ip, borrowed>>
  PROVE  Rest' = Rest
  BY DEF Rest

\* A call that the meaning does not follow: no meaning was known.
LEMMA OtherMeans ==
  ASSUME DictInv(dict), Flags, ReturnInv, Meant, ~wild, Top("call"), SimpleOps(dict, Last(frames).xt) = Other,
         expect' = expect \/ expect' = Unknown, lost => lost'
  PROVE  Meant'
<1>1. SUFFICES ASSUME expect'.known, ~lost', ~wild' PROVE FALSE
  BY DEF Meant
<1>2. expect.known /\ ~lost
  BY <1>1 DEF Unknown
<1>3. Defined(Pending \o Rest) /\ IsSeq(Pending) /\ IsSeq(Rest)
  BY <1>2, RestSeq DEF Meant
<1>4. Defined(Pending)
  BY <1>3, JoinDefined
<1> QED BY <1>4, BitsOfOps DEF Pending

\* A word that is no colon word returns.
LEMMA ValueMeans ==
  ASSUME DictInv(dict), TasksInv, Flags, ReturnInv, TidyInv, Meant, Top("call"), frames' = Return(frames),
         UNCHANGED <<dict, rs, ip, borrowed, lost, wild, expect>>,
         \A t : IsSeq(t) => Run(SimpleOps(dict, Last(frames).xt) \o t, ds) = Run(t, ds')
  PROVE  Meant'
<1>1. SUFFICES ASSUME expect.known, ~lost, ~wild
               PROVE  Defined(Pending' \o Rest') /\ Run(Pending' \o Rest', ds') = expect.ds
  BY DEF Meant
<1>2. /\ Defined(Pending \o Rest) /\ IsSeq(Pending) /\ IsSeq(Rest)
      /\ Run(Pending \o Rest, ds) = expect.ds
  BY <1>1, RestSeq DEF Meant
<1>3. Pending = SimpleOps(dict, Last(frames).xt)
  BY DEF Pending
<1>4. Pending' = <<>>
  BY TidyReturn, NoPending DEF Top
<1>5. Pending' \o Rest' = Rest
  BY <1>2, <1>4, SameRest, JoinEmpty
<1>6. Defined(Rest)
  BY <1>2, JoinDefined
<1>7. Run(Rest, ds') = expect.ds
  BY <1>2, <1>3
<1> QED BY <1>5, <1>6, <1>7

\* What the codes of the words are.
LEMMA CodesDiffer ==
  /\ do_colon \notin NativeCode /\ do_variable \notin NativeCode /\ do_constant \notin NativeCode
  /\ do_colon # do_variable /\ do_colon # do_constant /\ do_variable # do_constant
<1>1. \A i \in DOMAIN Native : Native[i] > 10
  BY PrimitivesAssumption DEF Native
<1>2. \A c \in NativeCode : c > 10
  BY <1>1 DEF NativeCode
<1> QED BY <1>2 DEF do_colon, do_variable, do_constant

LEMMA NativeOther ==
  ASSUME NEW w, native(w), w \in Computing
  PROVE  compute(w) \/ runaway(w)
  BY ZenonT(60) DEF native, parsing, Computing

LEMMA NativeLost ==
  ASSUME NEW w, native(w), Flags
  PROVE  lost => lost'
<1>1. CASE compute(w) \/ w_here \/ w_comma \/ w_base \/ w_r_fetch \/ w_immediate \/ w_if \/ w_while
           \/ w_begin \/ w_until \/ w_again \/ w_do \/ w_loop
  <2>1. Quiet
    BY <1>1 DEF compute, w_here, w_comma, w_base, w_r_fetch, w_immediate, w_if, w_while, w_begin,
                w_until, w_again, w_do, w_loop
  <2> QED BY <2>1 DEF Quiet, hist
<1>2. CASE runaway(w) \/ parsing(w)
  BY <1>2 DEF runaway, Fault, parsing, Parsing, hist
<1>3. CASE w_semicolon \/ SetBase(16) \/ SetBase(10) \/ w_execute \/ w_load \/ w_fork
  BY <1>3 DEF w_semicolon, SetBase, w_execute, w_load, w_fork, hist
<1>4. CASE w_else \/ w_then \/ w_repeat
  <2>1. PICK cells, a : Store(cells, a)
    BY <1>4 DEF w_else, w_then, w_repeat
  <2> QED BY <2>1 DEF Store, EmitPatch, EmitLow, Quiet, hist
<1>5. CASE w_yield \/ w_to_r \/ w_from_r
  BY <1>5 DEF w_yield, w_to_r, w_from_r
<1> QED BY <1>1, <1>2, <1>3, <1>4, <1>5 DEF native

LEMMA NativeMeans ==
  ASSUME DictInv(dict), TasksInv, Flags, ReturnInv, TidyInv, Meant, ~wild, Top("call"),
         CodeOf(Last(frames).xt) \in NativeCode, native(PrimitiveOf(CodeOf(Last(frames).xt)))
  PROVE  Meant'
<1> DEFINE e == Last(frames).xt
<1>1. PICK w : w = PrimitiveOf(CodeOf(e))
  OBVIOUS
<1>2. CodeIn(dict, e) \in NativeCode /\ w = PrimitiveOf(CodeIn(dict, e)) /\ native(w)
  BY <1>1 DEF CodeOf
<1>3. CodeIn(dict, e) # do_variable /\ CodeIn(dict, e) # do_constant
  BY <1>2, CodesDiffer
<1> HIDE DEF e
<1>4. CASE w \in Computing
  <2>1. SimpleOps(dict, e) = Prim(w)
    BY <1>2, <1>3, <1>4 DEF SimpleOps
  <2>2. compute(w) \/ runaway(w)
    BY <1>2, <1>4, NativeOther
  <2>3. CASE runaway(w)
    BY <2>3 DEF runaway, Fault, Meant
  <2>4. CASE compute(w)
    <3>1. ds' = Effect(w, ds) /\ dict' = dict /\ Quiet
      BY <2>4 DEF compute
    <3>2. frames' = Return(frames) /\ UNCHANGED <<dict, rs, ip, borrowed, lost, wild, expect>>
      BY <3>1 DEF Quiet, hist
    <3>3. \A t : IsSeq(t) => Run(SimpleOps(dict, Last(frames).xt) \o t, ds) = Run(t, ds')
      BY <2>1, <3>1, RunPrim DEF e
    <3> QED BY <3>2, <3>3, ValueMeans
  <2> QED BY <2>2, <2>3, <2>4
<1>5. CASE w \notin Computing
  <2>1. SimpleOps(dict, e) = Other
    BY <1>2, <1>3, <1>5 DEF SimpleOps
  <2>2. expect' = expect \/ expect' = Unknown
    BY <1>2, TidyNative
  <2>3. lost => lost'
    BY <1>2, NativeLost
  <2> QED BY <2>1, <2>2, <2>3, OtherMeans DEF e
<1> QED BY <1>4, <1>5

\* DOCOL and EXIT on the return stack.
LEMMA CallerPush ==
  ASSUME Flags, NEW d, NEW r, ~(Len(rs) >= RETURN_STACK_SIZE), rs' = rs_push(rs, r), borrowed' = Pushed(FALSE)
  PROVE  CallerOps(d, rs', borrowed') = OpsFrom(d, r) \o CallerOps(d, rs, borrowed)
<1>1. IsSeq(rs) /\ borrowed \in Seq(BOOLEAN) /\ Len(rs) = Len(borrowed)
  BY DEF Flags
<1>2. PICK q : q = Append(rs, r)
  OBVIOUS
<1>3. PICK c : c = Append(borrowed, FALSE)
  OBVIOUS
<1>4. rs' = q /\ borrowed' = c
  BY <1>2, <1>3 DEF rs_push, Pushed
<1>5. /\ IsSeq(q) /\ Len(q) = Len(rs) + 1 /\ \A i \in 1 .. Len(rs) : q[i] = rs[i]
      /\ q[Len(rs) + 1] = r
  BY <1>1, <1>2, AppendIs
<1>6. (\A i \in 1 .. Len(rs) : c[i] = borrowed[i]) /\ c[Len(rs) + 1] = FALSE
  BY <1>1, <1>3
<1>7. CallerOps(d, q, c) = Caller(d, q, c, Len(q)) \o CallerOps(d, rs, borrowed)
  <2>1. OneMore(q, c, rs, borrowed)
    BY <1>1, <1>5, <1>6 DEF OneMore
  <2> QED BY <2>1, CallerTop
<1>8. Caller(d, q, c, Len(q)) = OpsFrom(d, r)
  BY <1>5, <1>6 DEF Caller
<1> QED BY <1>4, <1>7, <1>8

LEMMA CallerPop ==
  ASSUME Flags, NEW d, rs # <<>>, ~Last(borrowed), rs' = rs_rest(rs), borrowed' = Popped
  PROVE  CallerOps(d, rs, borrowed) = OpsFrom(d, rs_peek(rs)) \o CallerOps(d, rs', borrowed')
<1>1. IsSeq(rs) /\ borrowed \in Seq(BOOLEAN) /\ Len(rs) = Len(borrowed)
  BY DEF Flags
<1>2. PICK q : q = Front(rs)
  OBVIOUS
<1>3. PICK c : c = Front(borrowed)
  OBVIOUS
<1>4. rs' = q /\ borrowed' = c
  BY <1>2, <1>3 DEF rs_rest, Popped, Front
<1>5. /\ IsSeq(q) /\ Len(q) = Len(rs) - 1 /\ \A i \in 1 .. Len(rs) - 1 : q[i] = rs[i]
      /\ Len(rs) \in Nat \ {0}
  BY <1>1, <1>2, FrontIs
<1>6. \A i \in 1 .. Len(rs) - 1 : c[i] = borrowed[i]
  BY <1>1, <1>3, <1>5 DEF Front
<1>7. Len(rs) = Len(q) + 1 /\ \A i \in 1 .. Len(q) : rs[i] = q[i] /\ borrowed[i] = c[i]
  BY <1>5, <1>6
<1>8. CallerOps(d, rs, borrowed) = Caller(d, rs, borrowed, Len(rs)) \o CallerOps(d, q, c)
  <2>1. OneMore(rs, borrowed, q, c)
    BY <1>1, <1>5, <1>7 DEF OneMore
  <2> QED BY <2>1, CallerTop
<1>9. Last(borrowed) = borrowed[Len(rs)] /\ rs_peek(rs) = rs[Len(rs)]
  BY <1>1 DEF Last, rs_peek
<1>10. Caller(d, rs, borrowed, Len(rs)) = OpsFrom(d, rs_peek(rs))
  BY <1>9 DEF Caller
<1> QED BY <1>4, <1>8, <1>10

\* forth_execute enters a colon word.
LEMMA ColonMeans ==
  ASSUME DictInv(dict), TasksInv, Flags, ReturnInv, TidyInv, Meant, ~wild, Top("call"),
         NEW e, e = Last(frames).xt, CodeOf(e) = do_colon, Executable(e),
         Docol(e, ip), frames' = Append(Return(frames), InnerFrame),
         expect' = IF InInner THEN expect ELSE Meaning(dict_get_param_field(dict, e)),
         UNCHANGED <<dict, ds, wild>>
  PROVE  Meant'
<1> DEFINE p == dict_get_param_field(dict, e)
<1>1. /\ rs' = rs_push(rs, ip) /\ ip' = p /\ borrowed' = Pushed(FALSE)
      /\ lost' = (lost \/ Len(rs) >= RETURN_STACK_SIZE)
  BY DEF Docol
<1>2. CASE InInner
  <2>1. SimpleOps(dict, e) = Other
    BY CodesDiffer DEF SimpleOps, CodeOf
  <2>2. expect' = expect /\ (lost => lost')
    BY <1>1, <1>2
  <2> QED BY <2>1, <2>2, OtherMeans
<1>3. CASE ~InInner
  <2>1. SUFFICES ASSUME expect'.known, ~lost', ~wild'
                 PROVE  Defined(Pending' \o Rest') /\ Run(Pending' \o Rest', ds) = expect'.ds
    BY DEF Meant
  <2>2. ~lost /\ ~(Len(rs) >= RETURN_STACK_SIZE)
    BY <1>1, <2>1
  <2>3. Inners = {}
    BY <1>3, InnersSeen
  <2>4. OpsFrom(dict, ip) = <<>> /\ CallerOps(dict, rs, borrowed) = <<>>
    BY <2>2, <2>3, RestNone
  <2>5. CallerOps(dict, rs', borrowed') = OpsFrom(dict, ip) \o CallerOps(dict, rs, borrowed)
    BY <1>1, <2>2, CallerPush
  <2>6. CallerOps(dict, rs', borrowed') = <<>>
    <3>1. <<>> \o <<>> = <<>>
      BY JoinEmpty, EmptyIs
    <3> QED BY <2>4, <2>5, <3>1
  <2>7. IsSeq(OpsFrom(dict, p))
    <3>1. p \in CodeAddrs
      BY ParamPlace DEF Executable
    <3>2. p \in Int
      BY <3>1, RegionAssumption DEF CodeAddrs
    <3> QED BY <3>2, OpsFromSeq
  <2> HIDE DEF p
  <2>8. Rest' = OpsFrom(dict, p)
    <3>1. Rest' = OpsFrom(dict, p) \o CallerOps(dict, rs', borrowed')
      BY <1>1 DEF Rest
    <3> QED BY <2>6, <2>7, <3>1, JoinEmpty
  <2>9. Pending' = <<>>
    <3>1. InnerFrame.kind = "inner"
      BY DEF InnerFrame
    <3>2. ~Ends(frames', "call")
      <4>1. IsSeq(Return(frames)) /\ Plain(Return(frames))
        BY TidyReturn DEF Top
      <4> QED BY <3>1, <4>1, TidyPush DEF Ends
    <3> QED BY <3>2, NoPending
  <2>10. Pending' \o Rest' = OpsFrom(dict, p)
    BY <2>7, <2>8, <2>9, JoinEmpty
  <2>11. expect' = Meaning(p)
    BY <1>3 DEF p
  <2>12. Defined(OpsFrom(dict, p)) /\ expect'.ds = Run(OpsFrom(dict, p), ds)
    BY <2>1, <2>11 DEF Meaning, Unknown
  <2> QED BY <2>10, <2>12
<1> QED BY <1>2, <1>3

LEMMA ExecuteMeans ==
  ASSUME DictInv(dict), TasksInv, Flags, ReturnInv, TidyInv, Meant, ~wild, forth_execute
  PROVE  Meant'
<1> DEFINE e == Last(frames).xt
           pf == dict_get_param_field(dict, e)
<1>1. Top("call")
  BY DEF forth_execute
<1>2. CASE Fault
  BY <1>2 DEF Fault, Meant
<1>3. CASE /\ Executable(e) /\ CodeOf(e) = do_colon /\ Docol(e, ip)
           /\ frames' = Append(Return(frames), InnerFrame)
           /\ expect' = IF InInner THEN expect ELSE Meaning(pf)
           /\ UNCHANGED <<dict, ds, wild>>
  <2>1. PICK x : x = e
    OBVIOUS
  <2> QED BY <1>1, <1>3, <2>1, ColonMeans
<1>4. ASSUME NEW v, SimpleOps(dict, e) = Lit(v), ds' = ds_push(ds, v), UNCHANGED dict, Quiet
      PROVE  Meant'
  <2>1. frames' = Return(frames) /\ UNCHANGED <<dict, rs, ip, borrowed, lost, wild, expect>>
    BY <1>4 DEF Quiet, hist
  <2>2. \A t : IsSeq(t) => Run(SimpleOps(dict, Last(frames).xt) \o t, ds) = Run(t, ds')
    BY <1>4, RunLit
  <2> QED BY <1>1, <2>1, <2>2, ValueMeans
<1>5. CASE CodeOf(e) = do_variable /\ ds' = ds_push(ds, pf) /\ UNCHANGED dict /\ Quiet
  <2>1. SimpleOps(dict, e) = Lit(pf)
    BY <1>5, CodesDiffer DEF SimpleOps, CodeOf
  <2>2. PICK v : v = pf
    OBVIOUS
  <2> QED BY <1>4, <1>5, <2>1, <2>2
<1>6. CASE CodeOf(e) = do_constant /\ ds' = ds_push(ds, dict.mem[pf]) /\ UNCHANGED dict /\ Quiet
  <2>1. SimpleOps(dict, e) = Lit(dict.mem[pf])
    BY <1>6, CodesDiffer DEF SimpleOps, CodeOf
  <2>2. PICK v : v = dict.mem[pf]
    OBVIOUS
  <2> QED BY <1>4, <1>6, <2>1, <2>2
<1>7. CASE CodeOf(e) \in NativeCode /\ native(PrimitiveOf(CodeOf(e)))
  BY <1>1, <1>7, NativeMeans
<1>8. \/ Fault
      \/ /\ Executable(e) /\ CodeOf(e) = do_colon /\ Docol(e, ip)
         /\ frames' = Append(Return(frames), InnerFrame)
         /\ expect' = IF InInner THEN expect ELSE Meaning(pf)
         /\ UNCHANGED <<dict, ds, wild>>
      \/ CodeOf(e) = do_variable /\ ds' = ds_push(ds, pf) /\ UNCHANGED dict /\ Quiet
      \/ CodeOf(e) = do_constant /\ ds' = ds_push(ds, dict.mem[pf]) /\ UNCHANGED dict /\ Quiet
      \/ CodeOf(e) \in NativeCode /\ native(PrimitiveOf(CodeOf(e)))
  BY ZenonT(60) DEF forth_execute
<1> QED BY <1>2, <1>3, <1>5, <1>6, <1>7, <1>8

\* Nothing is pending while forth_inner runs.
LEMMA InnerNow ==
  ASSUME DictInv(dict), Flags, ReturnInv, Meant, Top("inner"), expect.known, ~lost, ~wild
  PROVE  /\ Defined(Rest) /\ Run(Rest, ds) = expect.ds
         /\ Defined(OpsFrom(dict, ip)) /\ Defined(CallerOps(dict, rs, borrowed))
<1>1. ~Top("call")
  BY DEF Top
<1>2. Pending = <<>>
  BY <1>1 DEF Pending
<1>3. /\ Defined(Pending \o Rest) /\ Run(Pending \o Rest, ds) = expect.ds /\ IsSeq(Rest)
      /\ IsSeq(OpsFrom(dict, ip)) /\ IsSeq(CallerOps(dict, rs, borrowed))
  BY RestSeq DEF Meant
<1>4. Pending \o Rest = Rest
  BY <1>2, <1>3, JoinEmpty
<1>5. Defined(Rest)
  BY <1>3, <1>4
<1> QED BY <1>3, <1>4, <1>5, JoinDefined DEF Rest

\* The frames end in the loop of forth_inner or in the text below it.
LEMMA InnerFrames ==
  ASSUME TasksInv, TidyInv, Top("inner")
  PROVE  /\ frames' = frames \/ frames' = Return(frames) => ~Ends(frames', "call") /\ ~Ends(frames', "thread")
         /\ Plain(frames) /\ IsSeq(frames)
<1>1. IsSeq(frames) /\ Tidy(frames) /\ ~Ends(frames, "call") /\ ~Ends(frames, "thread")
  BY DEF TasksInv, IsStack, TidyInv, Top, Ends
<1>2. ~Ends(Return(frames), "call") /\ ~Ends(Return(frames), "thread")
  BY TidyReturn DEF Top
<1> QED BY <1>1, <1>2, TidyPlain

\* The rest of a turn, once what is left is known.
LEMMA TurnMeans ==
  ASSUME Meant, NEW t, IsSeq(t), ~Ends(frames', "call"), Rest' = t, Defined(t), Run(t, ds') = expect.ds,
         expect' = expect
  PROVE  Meant'
<1>1. Pending' = <<>>
  BY NoPending
<1>2. Pending' \o Rest' = t
  BY <1>1, JoinEmpty
<1> QED BY <1>2 DEF Meant

LEMMA ExitMeans ==
  ASSUME DictInv(dict), TasksInv, Flags, ReturnInv, TidyInv, Meant, ~wild, Top("inner"), InnerExit
  PROVE  Meant'
<1>1. /\ Fetch(ip) = SENTINEL_EXIT /\ rs' = rs_rest(rs) /\ borrowed' = Popped
      /\ lost' = (lost \/ OnTop(TRUE)) /\ ip' = rs_peek(rs)
      /\ frames' = frames \/ frames' = Return(frames)
      /\ UNCHANGED <<dict, ds, wild, expect>>
  BY DEF InnerExit
<1>2. SUFFICES ASSUME expect.known, ~lost' PROVE Meant'
  BY <1>1 DEF Meant
<1>3. ~lost /\ ~OnTop(TRUE)
  BY <1>1, <1>2
<1>4. /\ Run(Rest, ds) = expect.ds /\ Defined(OpsFrom(dict, ip))
      /\ Defined(CallerOps(dict, rs, borrowed))
  BY <1>2, <1>3, InnerNow
<1>5. ip \in Int /\ IsSeq(CallerOps(dict, rs, borrowed))
  BY <1>3, RestSeq
<1>6. OpsFrom(dict, ip) = <<>>
  <2>1. InRegion(ip)
    BY <1>1, FetchInside DEF SENTINEL_EXIT
  <2>2. Unfolded(dict, ip)
    BY <1>4, <1>5, <2>1, OpsUnfold
  <2>3. \A e \in Entries(dict) : e # SENTINEL_EXIT
    <3>1. Entries(dict) \subseteq Region
      BY DEF DictInv, Shaped
    <3> QED BY <3>1, RegionAssumption DEF Region, SENTINEL_EXIT
  <2> QED BY <1>1, <2>2, <2>3 DEF Unfolded, Fetch, SENTINEL_EXIT, do_literal
<1> DEFINE C == CallerOps(dict, rs, borrowed)
<1>7. Rest = C
  BY <1>5, <1>6, JoinEmpty DEF Rest
<1>8. Rest' = C
  <2>1. CASE rs = <<>>
    <3>1. rs' = rs /\ borrowed' = borrowed /\ ip' = 0
      BY <1>1, <2>1 DEF rs_rest, Popped, rs_peek
    <3>2. OpsFrom(dict, 0) = <<>>
      BY LowOutside DEF OpsFrom
    <3>3. Rest' = <<>> \o C
      BY <1>1, <3>1, <3>2 DEF Rest
    <3> QED BY <1>5, <3>3, JoinEmpty
  <2>2. CASE rs # <<>>
    <3>1. ~Last(borrowed)
      <4>1. Last(borrowed) \in BOOLEAN
        BY <1>1, <2>2, PopIs
      <4> QED BY <1>3, <2>2, <4>1 DEF OnTop
    <3>2. C = OpsFrom(dict, rs_peek(rs)) \o CallerOps(dict, rs', borrowed')
      BY <1>1, <2>2, <3>1, CallerPop
    <3> QED BY <1>1, <3>2 DEF Rest
  <2> QED BY <2>1, <2>2
<1> HIDE DEF C
<1>9. IsSeq(C) /\ Defined(C)
  BY <1>4, <1>5 DEF C
<1>10. ~Ends(frames', "call")
  BY <1>1, InnerFrames
<1>11. Run(C, ds') = expect.ds
  BY <1>1, <1>4, <1>7
<1> QED BY <1>1, <1>8, <1>9, <1>10, <1>11, TurnMeans

LEMMA LiteralMeans ==
  ASSUME DictInv(dict), TasksInv, Flags, ReturnInv, TidyInv, Meant, ~wild, Top("inner"), InnerLiteral
  PROVE  Meant'
<1>1. /\ Fetch(ip) = do_literal /\ Mapped(Advance(ip)) /\ ds' = ds_push(ds, Fetch(Advance(ip)))
      /\ ip' = Advance(Advance(ip)) /\ frames' = frames
      /\ UNCHANGED <<dict, rs, borrowed, lost, wild, expect>>
  BY DEF InnerLiteral, hist
<1>2. SUFFICES ASSUME expect.known, ~lost PROVE Meant'
  BY <1>1 DEF Meant
<1>3. /\ Run(Rest, ds) = expect.ds /\ Defined(OpsFrom(dict, ip))
      /\ Defined(CallerOps(dict, rs, borrowed))
  BY <1>2, InnerNow
<1>4. ip \in Int /\ IsSeq(CallerOps(dict, rs, borrowed))
  BY <1>2, RestSeq
<1>5. InRegion(ip)
  BY <1>1, FetchInside DEF do_literal
<1>6. Advance(ip) = ip + 1 /\ ip' = ip + 2
  <2>1. Advance(ip) = ip + 1 /\ Advance(ip) \in CodeAddrs
    BY <1>4, <1>5, AdvanceInside
  <2>2. InRegion(ip + 1)
    BY <1>1, <1>4, <2>1, RegionAssumption DEF Mapped, InRegion, CodeAddrs
  <2>3. Advance(ip + 1) = (ip + 1) + 1
    BY <1>4, <2>2, AdvanceInside
  <2> QED BY <1>1, <1>4, <2>1, <2>3
<1> DEFINE v == FetchIn(dict, ip + 1)
           m == OpsFrom(dict, ip + 2)
           C == CallerOps(dict, rs, borrowed)
<1>7. OpsFrom(dict, ip) = Lit(v) \o m
  <2>1. Unfolded(dict, ip)
    BY <1>3, <1>4, <1>5, OpsUnfold
  <2>2. \A e \in Entries(dict) : e # do_literal
    <3>1. Entries(dict) \subseteq Region
      BY DEF DictInv, Shaped
    <3> QED BY <3>1, Above, RegionAssumption DEF Region, do_literal
  <2> QED BY <1>1, <2>1, <2>2 DEF Unfolded, Fetch, SENTINEL_EXIT, do_literal
<1>8. ds' = ds_push(ds, v)
  BY <1>1, <1>6 DEF Fetch
<1>9. Rest' = m \o C
  BY <1>1, <1>6 DEF Rest
<1>10. IsSeq(m) /\ IsSeq(C) /\ IsSeq(Lit(v)) /\ Defined(C)
  BY <1>3, <1>4, OpsFromSeq, BitsOfOps
<1>11. Rest = (Lit(v) \o m) \o C
  BY <1>7 DEF Rest
<1> HIDE DEF m, C, v
<1>12. PICK l : l = Lit(v)
  OBVIOUS
<1>13. Defined(m) /\ Rest = l \o (m \o C) /\ IsSeq(m \o C)
  <2>1. Defined(l \o m) /\ IsSeq(l)
    BY <1>3, <1>7, <1>10, <1>12
  <2>2. Defined(m)
    BY <1>10, <2>1, JoinDefined
  <2>3. (l \o m) \o C = l \o (m \o C)
    BY <1>10, <2>1, JoinJoin
  <2>4. IsSeq(m \o C)
    BY <1>10, JoinIs
  <2> QED BY <1>11, <1>12, <2>2, <2>3, <2>4
<1>14. PICK t : t = m \o C
  OBVIOUS
<1>15. Run(t, ds') = expect.ds
  <2>1. Run(Lit(v) \o t, ds) = Run(t, ds_push(ds, v))
    BY <1>13, <1>14, RunLit
  <2> QED BY <1>3, <1>8, <1>12, <1>13, <1>14, <2>1
<1>16. Defined(t) /\ IsSeq(t)
  BY <1>10, <1>13, <1>14, JoinDefined
<1>17. ~Ends(frames', "call")
  BY <1>1, InnerFrames
<1> QED BY <1>1, <1>9, <1>14, <1>15, <1>16, <1>17, TurnMeans

LEMMA InvalidMeans ==
  ASSUME DictInv(dict), TasksInv, Flags, ReturnInv, TidyInv, Meant, ~wild, Top("inner"), InnerInvalid
  PROVE  Meant'
<1>1. /\ ip' = Advance(ip) /\ frames' = Return(frames) /\ lost' = (lost \/ InRegion(ip))
      /\ UNCHANGED <<dict, ds, rs, borrowed, wild, expect>>
  BY DEF InnerInvalid
<1>2. SUFFICES ASSUME expect.known, ~lost' PROVE Meant'
  BY <1>1 DEF Meant
<1>3. ~lost /\ ~InRegion(ip)
  BY <1>1, <1>2
<1>4. ip' = 1
  BY <1>1, <1>3 DEF Advance
<1>5. Rest' = Rest
  BY <1>1, <1>3, <1>4, LowOutside DEF Rest, OpsFrom
<1>6. Defined(Rest) /\ Run(Rest, ds) = expect.ds
  BY <1>2, <1>3, InnerNow
<1>7. IsSeq(Rest)
  BY <1>3, RestSeq
<1>8. ~Ends(frames', "call")
  BY <1>1, InnerFrames
<1>9. PICK t : t = Rest
  OBVIOUS
<1> QED BY <1>1, <1>5, <1>6, <1>7, <1>8, <1>9, TurnMeans

LEMMA WordMeans ==
  ASSUME DictInv(dict), TasksInv, Flags, ReturnInv, TidyInv, Meant, ~wild, Top("inner"), InnerWord
  PROVE  Meant'
<1> DEFINE e == Fetch(ip)
<1>1. InRegion(e) /\ UNCHANGED <<dict, ds, wild, expect>>
  BY DEF InnerWord
<1>2. \/ /\ Executable(e) /\ CodeOf(e) = do_colon
         /\ Docol(e, Advance(ip)) /\ frames' = frames
      \/ /\ ~(Executable(e) /\ CodeOf(e) = do_colon)
         /\ frames' = Append(frames, Call(e)) /\ ip' = Advance(ip) /\ UNCHANGED <<rs, lost, borrowed>>
  BY DEF InnerWord
<1>3. lost => lost'
  BY <1>2 DEF Docol
<1>4. SUFFICES ASSUME expect.known, ~lost' PROVE Meant'
  BY <1>1 DEF Meant
<1>5. ~lost
  BY <1>3, <1>4
<1>6. /\ Run(Rest, ds) = expect.ds /\ Defined(OpsFrom(dict, ip))
      /\ Defined(CallerOps(dict, rs, borrowed)) /\ Defined(Rest)
  BY <1>4, <1>5, InnerNow
<1>7. ip \in Int /\ IsSeq(CallerOps(dict, rs, borrowed))
  BY <1>5, RestSeq
<1>8. e # 0 /\ e # SENTINEL_EXIT /\ e # do_literal
  BY <1>1, Above, RegionAssumption DEF InRegion, SENTINEL_EXIT, do_literal
<1>9. InRegion(ip)
  BY <1>8, FetchInside
<1>10. Advance(ip) = ip + 1
  BY <1>7, <1>9, AdvanceInside
<1> DEFINE C == CallerOps(dict, rs, borrowed)
           n == OpsFrom(dict, ip + 1)
           p == dict_get_param_field(dict, e)
<1>11. \/ /\ e \in Entries(dict) /\ CodeOf(e) = do_colon
          /\ OpsFrom(dict, ip) = OpsFrom(dict, p) \o n
       \/ /\ e \in Entries(dict) /\ CodeOf(e) # do_colon
          /\ OpsFrom(dict, ip) = SimpleOps(dict, e) \o n
  <2>1. Unfolded(dict, ip)
    BY <1>6, <1>7, <1>9, OpsUnfold
  <2> QED BY <1>8, <2>1 DEF Unfolded, Fetch, CodeOf
<1>12. IsSeq(n) /\ IsSeq(C)
  BY <1>7, OpsFromSeq
<1>13. Rest = OpsFrom(dict, ip) \o C
  BY DEF Rest
<1> HIDE DEF e, n, C, p
<1>14. CASE Executable(e) /\ CodeOf(e) = do_colon /\ Docol(e, Advance(ip)) /\ frames' = frames
  <2>1. OpsFrom(dict, ip) = OpsFrom(dict, p) \o n /\ e \in Entries(dict)
    BY <1>11, <1>14
  <2>2. PICK m : m = OpsFrom(dict, p)
    OBVIOUS
  <2>3. IsSeq(m)
    <3>1. p \in CodeAddrs
      BY <2>1, ParamPlace DEF p
    <3>2. p \in Int
      BY <3>1, RegionAssumption DEF CodeAddrs
    <3> QED BY <2>2, <3>2, OpsFromSeq
  <2>4. /\ rs' = rs_push(rs, ip + 1) /\ ip' = p /\ borrowed' = Pushed(FALSE)
        /\ ~(Len(rs) >= RETURN_STACK_SIZE)
    BY <1>4, <1>10, <1>14 DEF Docol, p
  <2>5. CallerOps(dict, rs', borrowed') = n \o C
    BY <2>4, CallerPush DEF n, C
  <2>6. Rest' = m \o (n \o C)
    BY <1>1, <2>2, <2>4, <2>5 DEF Rest
  <2>7. Rest = (m \o n) \o C
    BY <1>13, <2>1, <2>2
  <2>8. (m \o n) \o C = m \o (n \o C)
    BY <1>12, <2>3, JoinJoin
  <2>9. Rest' = Rest
    BY <2>6, <2>7, <2>8
  <2>10. IsSeq(Rest)
    BY <1>5, RestSeq
  <2>11. PICK t : t = Rest
    OBVIOUS
  <2>12. ~Ends(frames', "call")
    BY <1>14, InnerFrames
  <2> QED BY <1>1, <1>6, <2>9, <2>10, <2>11, <2>12, TurnMeans
<1>15. CASE /\ ~(Executable(e) /\ CodeOf(e) = do_colon)
            /\ frames' = Append(frames, Call(e)) /\ ip' = Advance(ip) /\ UNCHANGED <<rs, lost, borrowed>>
  <2>1. e \in Entries(dict) => ~(CodeOf(e) = do_colon)
    BY <1>15 DEF Executable
  <2>2. OpsFrom(dict, ip) = SimpleOps(dict, e) \o n
    BY <1>11, <2>1
  <2>3. PICK s : s = SimpleOps(dict, e)
    OBVIOUS
  <2>4. IsSeq(s)
    BY <2>3, SimpleSeq
  <2>5. Rest' = n \o C
    BY <1>1, <1>10, <1>15 DEF Rest, n, C
  <2>6. Pending' = s
    <3>1. frames' # <<>> /\ Last(frames') = Call(e)
      BY <1>15, InnerFrames, TidyPush
    <3>2. Top("call")'
      BY <3>1 DEF Top, Call
    <3>3. Pending' = SimpleOps(dict', Last(frames').xt)
      BY <3>2 DEF Pending
    <3> QED BY <1>1, <2>3, <3>1, <3>3 DEF Call
  <2>7. Rest = s \o (n \o C)
    BY <1>12, <1>13, <2>2, <2>3, <2>4, JoinJoin
  <2>8. Pending' \o Rest' = Rest
    BY <2>5, <2>6, <2>7
  <2> QED BY <1>1, <1>6, <2>8 DEF Meant
<1> QED BY <1>2, <1>14, <1>15 DEF e

LEMMA InnerMeans ==
  ASSUME DictInv(dict), TasksInv, Flags, ReturnInv, TidyInv, Meant, ~wild, forth_inner
  PROVE  Meant'
<1>1. Top("inner") /\ (InnerExit \/ InnerLiteral \/ InnerInvalid \/ InnerWord \/ Fault)
  BY DEF forth_inner, InnerFault
<1>2. CASE Fault
  BY <1>2 DEF Fault, Meant
<1> QED BY <1>1, <1>2, ExitMeans, LiteralMeans, InvalidMeans, WordMeans

\* The running task's frames change between texts and calls that no meaning follows.
LEMMA ExecuteTidy ==
  ASSUME TidyInv, TasksInv, forth_execute
  PROVE  TidyInv'
<1> DEFINE e == Last(frames).xt
<1>1. Top("call")
  BY DEF forth_execute
<1>2. CASE Fault
  BY <1>2 DEF Fault, TidyInv, Top, sched, hist
<1>3. CASE native(PrimitiveOf(CodeOf(e)))
  BY <1>1, <1>3, TidyNative
<1>4. CASE Quiet
  <2>1. frames' = Return(frames) /\ tasks' = tasks
    BY <1>4 DEF Quiet, sched
  <2>2. Tidy(Return(frames)) /\ ~Ends(Return(frames), "thread")
    BY <1>1, TidyReturn DEF Top
  <2> QED BY <2>1, <2>2, TidyLocal
<1>5. CASE frames' = Append(Return(frames), InnerFrame) /\ UNCHANGED sched
  <2>1. IsSeq(Return(frames)) /\ Plain(Return(frames)) /\ tasks' = tasks
    BY <1>1, <1>5, TidyReturn DEF Top, sched
  <2>2. PICK x : x = InnerFrame
    OBVIOUS
  <2>3. x.kind = "inner"
    BY <2>2 DEF InnerFrame
  <2>4. Tidy(frames') /\ ~Ends(frames', "thread")
    BY <1>5, <2>1, <2>2, <2>3, TidyPush DEF Ends
  <2> QED BY <2>1, <2>4, TidyLocal
<1>6. \/ Fault \/ native(PrimitiveOf(CodeOf(e))) \/ Quiet
      \/ frames' = Append(Return(frames), InnerFrame) /\ UNCHANGED sched
  BY ZenonT(30) DEF forth_execute
<1> QED BY <1>2, <1>3, <1>4, <1>5, <1>6

LEMMA InnerTidy ==
  ASSUME TidyInv, TasksInv, forth_inner
  PROVE  TidyInv'
<1>1. Top("inner") /\ (InnerExit \/ InnerLiteral \/ InnerInvalid \/ InnerWord \/ Fault)
  BY DEF forth_inner, InnerFault
<1>2. tasks' = tasks
  BY <1>1 DEF InnerExit, InnerLiteral, InnerInvalid, InnerWord, Fault, sched
<1>3. frames' = frames \/ frames' = Return(frames) \/ \E e : frames' = Append(frames, Call(e))
  BY <1>1 DEF InnerExit, InnerLiteral, InnerInvalid, InnerWord, Fault
<1>4. CASE frames' = frames \/ frames' = Return(frames)
  <2>1. ~Ends(frames', "thread")
    BY <1>1, <1>4, InnerFrames
  <2>2. Tidy(frames')
    BY <1>1, <1>4, TidyReturn DEF Top, TidyInv
  <2> QED BY <1>2, <2>1, <2>2, TidyLocal
<1>5. CASE \E e : frames' = Append(frames, Call(e))
  <2>1. PICK e : frames' = Append(frames, Call(e))
    BY <1>5
  <2>2. IsSeq(frames) /\ Plain(frames) /\ Call(e).kind = "call"
    BY <1>1, InnerFrames DEF Call
  <2>3. Tidy(frames') /\ ~Ends(frames', "thread")
    BY <2>1, <2>2, TidyPush DEF Ends
  <2> QED BY <1>2, <2>3, TidyLocal
<1> QED BY <1>3, <1>4, <1>5

LEMMA EvalMeans ==
  ASSUME TidyInv, TasksInv, forth_eval
  PROVE  TidyInv' /\ Meant'
<1>1. (Top("line") \/ Top("load")) /\ tasks' = tasks /\ expect' = Unknown
  BY DEF forth_eval, sched
<1>2. \/ frames' = frames
      \/ \E e : frames' = Append(frames, Call(e))
      \/ frames' = Return(frames)
  BY ZenonT(30) DEF forth_eval, EvalReturn
<1>3. ~expect'.known
  BY <1>1 DEF Unknown
<1>4. IsSeq(frames) /\ Tidy(frames) /\ ~Ends(frames, "call") /\ ~Ends(frames, "thread") /\ frames # <<>>
  BY <1>1 DEF TasksInv, IsStack, TidyInv, Top, Ends
<1>5. Tidy(frames')
  BY <1>2, <1>4, TidyPlain, TidyPush, TidyReturn
<1>6. TidyInv'
  BY <1>1, <1>3, <1>5, TidyLocal
<1> QED BY <1>3, <1>6 DEF Meant

\* Only the frames change, and no call is on top before or after.
LEMMA FramesMean ==
  ASSUME Meant, ~Ends(frames, "call"), ~Ends(frames', "call"),
         UNCHANGED <<dict, ds, rs, ip, wild, lost, borrowed>>, expect' = expect \/ expect' = Unknown
  PROVE  Meant'
<1>1. Pending' = <<>>
  BY NoPending
<1>2. Pending = <<>>
  <2>1. ~Top("call")
    BY DEF Top, Ends
  <2> QED BY <2>1 DEF Pending
<1>3. Rest' = Rest
  BY SameRest
<1>4. CASE expect' = Unknown
  BY <1>4 DEF Unknown, Meant
<1>5. CASE expect' = expect
  BY <1>1, <1>2, <1>3, <1>5 DEF Meant
<1> QED BY <1>4, <1>5

LEMMA UnknownMeans == ASSUME ~expect'.known PROVE Meant'
  BY DEF Meant

LEMMA RunMeans ==
  ASSUME TidyInv, TasksInv, Meant, forth_run
  PROVE  TidyInv' /\ Meant'
<1>1. /\ frames = <<>> /\ UNCHANGED <<dict, ds, rs, ip, wild, lost, borrowed>>
      /\ \/ frames' = <<LineFrame>> /\ tasks' = tasks /\ expect' = expect
         \/ Switch(<<>>)
  BY DEF forth_run, sched
<1>2. ~Ends(frames, "call") /\ ~Ends(<<>>, "call") /\ ~Ends(<<>>, "thread")
  BY <1>1 DEF Ends
<1>3. CASE frames' = <<LineFrame>> /\ tasks' = tasks /\ expect' = expect
  <2>1. PICK x : x = LineFrame
    OBVIOUS
  <2>2. x.kind = "line"
    BY <2>1 DEF LineFrame
  <2>3. Tidy(<<x>>) /\ <<x>> # <<>> /\ Last(<<x>>) = x
    BY TidyOne
  <2>4. Tidy(frames') /\ ~Ends(frames', "call") /\ ~Ends(frames', "thread")
    BY <1>3, <2>1, <2>2, <2>3 DEF Ends
  <2>5. TidyInv'
    BY <1>3, <2>4, TidyLocal
  <2> QED BY <1>1, <1>2, <1>3, <2>4, <2>5, FramesMean
<1>4. CASE Switch(<<>>)
  <2>1. PICK f : f = <<>>
    OBVIOUS
  <2>2. TidyInv' /\ (expect' = Unknown \/ (expect' = expect /\ frames' = f))
    BY <1>2, <1>4, <2>1, TidyNone, TidySwitch
  <2>3. CASE expect' = Unknown
    <3>1. ~expect'.known
      BY <2>3 DEF Unknown
    <3> QED BY <2>2, <3>1, UnknownMeans
  <2>4. CASE expect' = expect /\ frames' = f
    BY <1>1, <1>2, <2>1, <2>2, <2>4, FramesMean
  <2> QED BY <2>2, <2>3, <2>4
<1> QED BY <1>1, <1>3, <1>4

LEMMA ThreadMeans ==
  ASSUME TidyInv, TasksInv, Meant, forth_thread_wrapper
  PROVE  TidyInv' /\ Meant'
<1>1. /\ Top("thread") /\ tasks' = tasks /\ expect' = expect
      /\ frames' = <<>> \/ frames' = <<Call(fork_target_xt)>>
  BY DEF forth_thread_wrapper, sched, hist
<1>2. ~expect'.known
  BY <1>1 DEF TidyInv
<1>3. Tidy(frames')
  BY <1>1, TidyNone, TidyOne
<1>4. TidyInv'
  BY <1>1, <1>2, <1>3, TidyLocal
<1> QED BY <1>2, <1>4, UnknownMeans

LEMMA ExitTaskMeans ==
  ASSUME TidyInv, TasksInv, Meant, task_exit
  PROVE  TidyInv' /\ Meant'
<1>1. /\ frames = <<>> /\ UNCHANGED <<dict, ds, rs, ip, wild, lost, borrowed>> /\ Switch(Dead)
  BY DEF task_exit
<1>2. PICK x : x = [kind |-> "dead"]
  OBVIOUS
<1>3. PICK f : f = Dead
  OBVIOUS
<1>4. Tidy(<<x>>) /\ <<x>> # <<>> /\ Last(<<x>>) = x /\ f = <<x>>
  BY <1>2, <1>3, TidyOne DEF Dead
<1>5. Tidy(f) /\ ~Ends(f, "call") /\ ~Ends(f, "thread")
  BY <1>2, <1>4 DEF Ends
<1>6. TidyInv' /\ (expect' = Unknown \/ (expect' = expect /\ frames' = f))
  BY <1>1, <1>3, <1>5, TidySwitch
<1>7. CASE expect' = Unknown
  <2>1. ~expect'.known
    BY <1>7 DEF Unknown
  <2> QED BY <1>6, <2>1, UnknownMeans
<1>8. CASE expect' = expect /\ frames' = f
  <2>1. ~Ends(frames, "call")
    BY <1>1 DEF Ends
  <2> QED BY <1>1, <1>5, <1>6, <1>8, <2>1, FramesMean
<1> QED BY <1>6, <1>7, <1>8

\* What holds of the meaning at the start, and after each step.
LEMMA StartedMeant == Init => MInv
<1>1. SUFFICES ASSUME Init PROVE MInv
  OBVIOUS
<1>2. frames = <<>> /\ tasks = <<<<>>>> /\ ~expect.known
  BY <1>1 DEF Init, Unknown
<1>3. TidyInv
  <2>1. DOMAIN tasks = {1} /\ tasks[1] = <<>>
    BY <1>2, OneIs
  <2> QED BY <1>2, <2>1, TidyNone DEF TidyInv
<1> QED BY <1>2, <1>3 DEF MInv, Meant

LEMMA SteppedMeant == IInv /\ MInv /\ [Next]_vars => MInv'
<1>1. SUFFICES ASSUME IInv, MInv, [Next]_vars PROVE MInv'
  OBVIOUS
<1>2. DictInv(dict) /\ TasksInv /\ Flags /\ ReturnInv /\ TidyInv /\ Meant
  BY <1>1 DEF IInv, MInv
<1>3. CASE UNCHANGED vars
  <2>1. UNCHANGED <<dict, ds, rs, ip, frames, tasks, wild, lost, borrowed, expect>>
    BY <1>3 DEF vars, sched, hist
  <2>2. TidyInv'
    BY <1>2, <2>1 DEF TidyInv, Top
  <2>3. Meant'
    BY <1>2, <2>1 DEF Meant, Pending, Rest, Top
  <2> QED BY <2>2, <2>3 DEF MInv
<1>4. CASE Next
  <2>1. ~wild /\ (forth_execute \/ forth_inner \/ forth_eval
                  \/ forth_run \/ forth_thread_wrapper \/ task_exit)
    BY <1>4 DEF Next
  <2>2. TidyInv' /\ Meant'
    BY <1>2, <2>1, ExecuteTidy, ExecuteMeans, InnerTidy, InnerMeans, EvalMeans, RunMeans, ThreadMeans,
       ExitTaskMeans
  <2> QED BY <2>2 DEF MInv
<1> QED BY <1>1, <1>3, <1>4

\* forth_inner computes what the definition says, for every dictionary, stack
\* size, nesting of calls and text: whenever a word's meaning is defined, what
\* is left to do from ip and the return addresses leads from the data stack to
\* the one the word's operations give, up to the EXIT that ends it or the first
\* switch of tasks, unless a return address was lost.
THEOREM ThreadedCodeMeans == Spec => []ThreadedMeaning
<1>1. Init => MInv
  BY StartedMeant
<1>2. IInv /\ MInv /\ [Next]_vars => MInv'
  BY SteppedMeant
<1>3. ASSUME IInv, MInv PROVE ThreadedMeaning
  <2>1. SUFFICES ASSUME expect.known, ~lost, ~wild
                 PROVE  Run(Pending \o Remaining, ds) = expect.ds
    BY DEF ThreadedMeaning
  <2>2. DictInv(dict) /\ TasksInv /\ Flags /\ ReturnInv /\ Meant
    BY <1>3 DEF IInv, MInv
  <2>3. Run(Pending \o Rest, ds) = expect.ds
    BY <2>1, <2>2 DEF Meant
  <2>4. CASE InInner
    BY <2>3, <2>4 DEF Remaining, Rest
  <2>5. CASE ~InInner
    <3>1. Rest = <<>>
      BY <2>1, <2>2, <2>5, InnersSeen, RestNone
    <3> QED BY <2>3, <2>5, <3>1 DEF Remaining
  <2> QED BY <2>4, <2>5
<1> QED BY <1>1, <1>2, <1>3, Invariance, PTL DEF Spec

LEMMA AllFaithful == FaithfulBases = Bases
<1>1. ASSUME NEW b \in Bases, NEW v \in Cells
      PROVE  Same(ltoa(v, b), b, v) /\ Same(ultoa(v, b), b, v)
  BY <1>1, LongReads
<1>2. ASSUME NEW b \in Bases, NEW v \in Ints
      PROVE  /\ b = 10 => Same(itoa(v, b), b, v)
             /\ b = 16 => Same(utoa(v, b), b, v % TwoTo(IntWidth))
  BY <1>2, IntReads
<1> QED BY <1>1, <1>2 DEF FaithfulBases

\* Only HEX and DECIMAL write the base.
LEMMA NativeBase ==
  ASSUME NEW w, native(w)
  PROVE  forth_base' = forth_base \/ forth_base' \in {10, 16}
<1>1. CASE compute(w) \/ runaway(w)
  BY <1>1 DEF compute, runaway, Fault, Quiet, mode
<1>2. CASE parsing(w)
  BY <1>2 DEF parsing, Parsing
<1>3. CASE w_semicolon \/ w_immediate \/ w_execute \/ w_load \/ w_fork \/ w_yield
  BY <1>3 DEF w_semicolon, w_immediate, w_execute, w_load, w_fork, w_yield, Quiet, mode
<1>4. CASE w_here \/ w_comma \/ w_base \/ w_to_r \/ w_from_r \/ w_r_fetch
  BY <1>4 DEF w_here, w_comma, w_base, w_to_r, w_from_r, w_r_fetch, Quiet, mode
<1>5. CASE SetBase(16) \/ SetBase(10)
  BY <1>5 DEF SetBase
<1>6. CASE w_if \/ w_begin \/ w_until \/ w_again \/ w_while \/ w_do \/ w_loop
  BY <1>6 DEF w_if, w_begin, w_until, w_again, w_while, w_do, w_loop, Quiet, mode
<1>7. CASE w_else \/ w_then \/ w_repeat
  BY <1>7 DEF w_else, w_then, w_repeat, Store, EmitPatch, EmitLow, Quiet, mode
<1> QED BY <1>1, <1>2, <1>3, <1>4, <1>5, <1>6, <1>7 DEF native

LEMMA NextBase ==
  ASSUME [Next]_vars
  PROVE  forth_base' = forth_base \/ forth_base' \in {10, 16}
<1>1. CASE UNCHANGED vars
  BY <1>1 DEF vars, mode
<1>2. CASE forth_execute
  <2>1. CASE Fault
    BY <2>1 DEF Fault, mode
  <2>2. CASE native(PrimitiveOf(CodeOf(Last(frames).xt)))
    BY <2>2, NativeBase
  <2>3. Fault \/ native(PrimitiveOf(CodeOf(Last(frames).xt))) \/ UNCHANGED mode
    BY <1>2, ZenonT(30) DEF forth_execute, Quiet
  <2> QED BY <2>1, <2>2, <2>3 DEF mode
<1>3. CASE forth_inner
  BY <1>3 DEF forth_inner, InnerExit, InnerLiteral, InnerInvalid, InnerWord, InnerFault, Fault, mode
<1>4. CASE forth_eval
  BY <1>4 DEF forth_eval
<1>5. CASE forth_run \/ forth_thread_wrapper \/ task_exit
  BY <1>5 DEF forth_run, forth_thread_wrapper, task_exit, mode
<1> QED BY <1>1, <1>2, <1>3, <1>4, <1>5 DEF Next

\* Whatever HEX and DECIMAL did, try_parse_number reads each number that . and
\* U. print in the base of the moment as the same number, and so it does what
\* STATUS and LOAD print when that base is 10 and DUMP when it is 16: through
\* the minus sign in base 10, and in base 16 through the unsigned digits that
\* wrap in strtol's result.  For every width of a cell.
THEOREM NumbersReadBack == Spec => []PrintedReadsBack
<1>1. Init => forth_base \in Bases
  BY DEF Init, Bases
<1>2. forth_base \in Bases /\ [Next]_vars => (forth_base \in Bases)'
  BY NextBase DEF Bases
<1>3. forth_base \in Bases => PrintedReadsBack
  BY AllFaithful DEF PrintedReadsBack
<1> QED BY <1>1, <1>2, <1>3, PTL DEF Spec
----------------------------------------------------------------------------
(* Numbers that fit into cells.                                            *)

LEMMA SmallCell == ASSUME NEW v \in -1000 .. 999 PROVE v \in Cells
<1>1. v \in Int /\ -1000 <= v /\ v <= 999
  OBVIOUS
<1>2. Half >= 1000
  BY CellIs, CellsAssumption DEF SENTINEL_EXIT
<1> QED BY <1>1, <1>2, CellIs

\* A number read is a cell.
LEMMA NumberFits ==
  ASSUME NEW w \in DOMAIN Numerals, NEW b \in Bases
  PROVE  try_parse_number(Numerals[w], b).value \in Cells
<1>1. PICK t : t = Numerals[w] /\ t.digits \in Seq(0 .. 35)
  BY WordsAssumption
<1>2. PICK s : s = t.digits
  OBVIOUS
<1>3. PICK c \in Int : c = PrefixBase(t, b)
  BY DEF PrefixBase, Bases
<1>4. s \in Seq(Int)
  <2>1. s \in Seq(0 .. 35)
    BY <1>1, <1>2
  <2>2. PICK S : S = 0 .. 35
    OBVIOUS
  <2>3. S \subseteq Int /\ s \in Seq(S)
    BY <2>1, <2>2
  <2> QED BY <2>3, SeqWider
<1>5. Len(s) \in Nat /\ DOMAIN s = 1 .. Len(s)
  BY <1>4
<1> DEFINE stop == {i \in DOMAIN s : s[i] >= c}
<1>6. PICK r \in Seq(Int) : r = IF stop = {} THEN s ELSE SubSeq(s, 1, Min(stop) - 1)
  <2>1. CASE stop = {}
    BY <1>4, <2>1
  <2>2. CASE stop # {}
    <3>1. stop \in SUBSET Nat /\ stop \subseteq 1 .. Len(s)
      BY <1>5
    <3>2. Min(stop) \in 1 .. Len(s)
      <4> HIDE DEF stop
      <4> QED BY <2>2, <3>1, MinIs
    <3>3. PICK m \in 1 .. Len(s) : m = Min(stop)
      BY <3>2
    <3>4. SubSeq(s, 1, m - 1) \in Seq(Int)
      BY <1>4, SeqCut
    <3> QED BY <2>2, <3>3, <3>4
  <2> QED BY <2>1, <2>2
<1>7. PICK h \in Cells : h = Horner(r, c)
  BY HornerFits
<1>8. strtol(t.sign, s, c).value = IF t.sign = "-" THEN Wrap(-h) ELSE h
  BY <1>6, <1>7 DEF strtol
<1>9. Wrap(-h) \in Cells
  BY WrapFits, CellsAreInts
<1>10. try_parse_number(t, b).value = strtol(t.sign, s, c).value
  BY <1>2, <1>3 DEF try_parse_number
<1> QED BY <1>1, <1>7, <1>8, <1>9, <1>10

----------------------------------------------------------------------------
(* Dictionaries of cells.                                                  *)

Celled(d) == \A a \in Region : d.mem[a] \in Cells
\* What was there stays, except where THEN, ELSE or REPEAT store an address.
Patched(d, c) == \A a \in Region : a < d.here => c.mem[a] = d.mem[a] \/ c.mem[a] \in CodeAddrs
Fits(d, c) == Celled(c) /\ Patched(d, c)
\* A constant has the cell that holds its value.
Held(d) == \A e \in Entries(d) : CodeIn(d, e) = do_constant => dict_get_param_field(d, e) \in Region
CellDict(d) == Celled(d) /\ Held(d) /\ Entries(d) # {}

LEMMA AddrFits == CodeAddrs \subseteq Cells /\ Region \subseteq CodeAddrs
<1>1. DICT_VIRT_BASE \in Nat /\ DICT_SIZE \in Nat /\ DICT_VIRT_BASE + DICT_SIZE \in Cells
  BY RegionAssumption, CellsAssumption
<1>2. Region \subseteq CodeAddrs
  BY <1>1 DEF Region, CodeAddrs
<1>3. ASSUME NEW a \in CodeAddrs PROVE a \in Cells
  BY <1>1, CellIs DEF CodeAddrs
<1> QED BY <1>2, <1>3

LEMMA SameFits == ASSUME NEW d, Celled(d) PROVE Fits(d, d)
  BY DEF Fits, Patched

LEMMA CommasFit ==
  ASSUME NEW d, NEW cells \in Seq(Cells), NEW c, c = dict_commas(d, cells), Shaped(d), Celled(d),
         d.here + Len(cells) <= DICT_VIRT_BASE + DICT_SIZE
  PROVE  Fits(d, c)
<1>1. d = [hdr |-> d.hdr, mem |-> d.mem, here |-> d.here, latest |-> d.latest] /\ d.here \in Int
  BY RegionAssumption DEF Shaped, CodeAddrs
<1>2. PICK m : m = [a \in DOMAIN d.mem |-> IF a \in d.here .. d.here + Len(cells) - 1
                                           THEN cells[a - d.here + 1] ELSE d.mem[a]]
  OBVIOUS
<1>3. c = [hdr |-> d.hdr, mem |-> m, here |-> d.here + Len(cells), latest |-> d.latest]
  BY <1>1, <1>2 DEF dict_commas
<1>4. c.mem = m
  BY <1>3
<1>5. DOMAIN d.mem = Region /\ Len(cells) \in Nat
  BY DEF Shaped
<1>6. ASSUME NEW a \in Region PROVE m[a] \in Cells /\ (a < d.here => m[a] = d.mem[a])
  <2>0. a \in Int
    BY RegionAssumption DEF Region
  <2>1. CASE a \in d.here .. d.here + Len(cells) - 1
    <3>1. PICK i \in 1 .. Len(cells) : i = a - d.here + 1
      BY <1>1, <1>5, <2>0, <2>1
    <3>2. m[a] = cells[i] /\ ~(a < d.here)
      BY <1>1, <1>2, <1>5, <2>0, <2>1, <3>1
    <3>3. cells[i] \in Cells
      BY ElementOfSeq
    <3> QED BY <3>2, <3>3
  <2>2. CASE a \notin d.here .. d.here + Len(cells) - 1
    <3>1. m[a] = d.mem[a]
      BY <1>2, <1>5, <2>2
    <3> QED BY <3>1 DEF Celled
  <2> QED BY <2>1, <2>2
<1> QED BY <1>4, <1>6 DEF Fits, Celled, Patched

LEMMA CommaFits ==
  ASSUME NEW d, NEW v \in Cells, NEW c, c = dict_comma(d, v), Shaped(d), Celled(d), d.here \in Region
  PROVE  Fits(d, c) /\ Shaped(c) /\ c.here = d.here + 1
<1>1. /\ Shaped(c) /\ c.here = d.here + 1
      /\ c.mem[d.here] = v
      /\ \A a \in Region : a # d.here => c.mem[a] = d.mem[a]
  BY CommaIs
<1>2. \A a \in Region : a < d.here => a # d.here
  BY RegionAssumption DEF Region
<1> QED BY <1>1, <1>2 DEF Fits, Celled, Patched

LEMMA CreateFits ==
  ASSUME NEW d, NEW n \in ToSet(Primitives) \cup Names, NEW i, NEW h \in BOOLEAN, NEW v \in Cells, NEW c,
         c = dict_set_code(dict_create(d, n, i, h), v), Shaped(d), Celled(d),
         d.here + HeaderCells(n) + 1 <= DICT_VIRT_BASE + DICT_SIZE
  PROVE  Fits(d, c) /\ Shaped(c) /\ c.here = d.here + HeaderCells(n) + 1
<1>1. HeaderCells(n) \in Nat /\ d.here \in Int /\ d.here >= DICT_VIRT_BASE
  BY HeaderSize, RegionAssumption DEF Shaped, CodeAddrs
<1> DEFINE b == dict_create(d, n, i, h)
<1>3. d.here + HeaderCells(n) <= DICT_VIRT_BASE + DICT_SIZE
  BY <1>1, RegionAssumption
<1>4. Shaped(b) /\ b.mem = d.mem /\ b.here = d.here + HeaderCells(n)
  <2>1. /\ Shaped(b)
        /\ Entries(b) = Entries(d) \cup {d.here} /\ b.latest = d.here
        /\ b.hdr[d.here] = [link |-> d.latest, name |-> Stored(n), as |-> n,
                            immediate |-> i, hidden |-> h]
        /\ \A e \in Entries(d) : e # d.here => b.hdr[e] = d.hdr[e]
        /\ b.mem = d.mem
        /\ b.here = d.here + HeaderCells(n)
    BY <1>3, CreateIs
  <2> QED BY <2>1
<1>5. Celled(b) /\ b.here \in Region
  BY <1>1, <1>3, <1>4, RegionAssumption DEF Celled, Region
<1>6. c = dict_comma(b, v)
  BY DEF dict_set_code
<1> HIDE DEF b
<1>7. Fits(b, c) /\ Shaped(c) /\ c.here = b.here + 1
  BY <1>4, <1>5, <1>6, CommaFits
<1>8. \A a \in Region : a < d.here => a < b.here
  BY <1>1, <1>4, RegionAssumption DEF Region
<1> QED BY <1>1, <1>4, <1>7, <1>8 DEF Fits, Patched

LEMMA FitsThen ==
  ASSUME NEW d, NEW b, NEW c, Fits(d, b), Fits(b, c), d.here <= b.here, d.here \in Int, b.here \in Int
  PROVE  Fits(d, c)
<1>1. \A a \in Region : a < d.here => a < b.here
  BY RegionAssumption DEF Region
<1> QED BY <1>1 DEF Fits, Patched

LEMMA HeldKept ==
  ASSUME DictInv(dict), DictStep, DictInv(dict'), Fits(dict, dict'), CellDict(dict)
  PROVE  CellDict(dict')
<1>1. Celled(dict') /\ Patched(dict, dict')
  BY DEF Fits
<1>2. 11 < DICT_VIRT_BASE
  BY Above
<1>3. \A a \in CodeAddrs : a # do_constant
  BY <1>2, RegionAssumption DEF CodeAddrs, do_constant
<1>4. ASSUME NEW e \in Entries(dict), dict'.hdr[e].name = dict.hdr[e].name,
             CodeIn(dict', e) = do_constant
      PROVE  dict_get_param_field(dict', e) \in Region
  <2>1. /\ dict_get_code_field(dict', e) = dict_get_code_field(dict, e)
        /\ dict_get_param_field(dict', e) = dict_get_param_field(dict, e)
    BY <1>4 DEF dict_get_code_field, dict_get_param_field
  <2>2. dict_get_code_field(dict, e) \in Region /\ dict_get_code_field(dict, e) < dict.here
    BY CodePlace
  <2>3. CodeIn(dict, e) = do_constant
    BY <1>1, <1>3, <1>4, <2>1, <2>2 DEF Patched, CodeIn
  <2> QED BY <2>1, <2>3 DEF CellDict, Held
<1>5. CASE dict' = dict
  BY <1>5
<1>6. CASE Extends(dict, dict')
  <2>1. Entries(dict') = Entries(dict) /\ \A e \in Entries(dict) : dict'.hdr[e].name = dict.hdr[e].name
    BY <1>6 DEF Extends
  <2> QED BY <1>1, <1>4, <2>1 DEF CellDict, Held
<1>7. CASE Fills(dict, dict') /\ \E n : Adds(dict, dict', n)
  <2>1. PICK n : Adds(dict, dict', n)
    BY <1>7
  <2>2. /\ Entries(dict') = Entries(dict) \cup {dict.here}
        /\ \A e \in Entries(dict) : e # dict.here => dict'.hdr[e] = dict.hdr[e]
    BY <2>1 DEF Adds
  <2>3. \A e \in Entries(dict) : e < dict.here
    BY CodePlace
  <2>4. \A e \in Entries(dict) : e # dict.here
    <3>1. dict.here \in Int
      BY RegionAssumption DEF DictInv, Shaped, CodeAddrs
    <3> QED BY <2>3, <3>1
  <2>5. ASSUME CodeIn(dict', dict.here) = do_constant
        PROVE  dict_get_param_field(dict', dict.here) \in Region
    <3>1. dict_get_param_field(dict', dict.here) < dict'.here
      BY <1>7, <2>5 DEF Fills
    <3>2. dict.here \in Entries(dict')
      BY <2>2
    <3>3. dict_get_param_field(dict', dict.here) \in CodeAddrs
      BY <3>2, CodePlace
    <3>4. dict'.here \in CodeAddrs
      BY DEF DictInv, Shaped
    <3> QED BY <3>1, <3>3, <3>4, RegionAssumption DEF CodeAddrs, Region
  <2> QED BY <1>1, <1>4, <2>2, <2>4, <2>5 DEF CellDict, Held
<1> QED BY <1>5, <1>6, <1>7 DEF DictStep

\* The dictionary that init_dictionary makes.
LEMMA RegisterFits == CellDict(register_primitives)
<1> DEFINE N == Len(Primitives)
<1>1. N \in Nat /\ N # 0
  BY PrimitivesAssumption, EmptySeq
<1>2. PICK w : Registers(w)
  BY Registered
<1>3. \A n \in 0 .. N : DictInv(w[n]) /\ Sound(w[n])
  BY <1>2 DEF Registers
<1> DEFINE G == {n \in 0 .. N : Celled(w[n]) /\ (n # 0 => Entries(w[n]) # {})}
<1> HIDE DEF N
<1>4. 0 \in G
  <2>1. dict_init.mem = [a \in Region |-> 0]
    BY DEF dict_init, Region
  <2>2. Celled(dict_init)
    BY <2>1, SmallCell DEF Celled
  <2>3. w[0] = dict_init
    BY <1>2 DEF Registers
  <2> QED BY <1>1, <2>2, <2>3
<1>5. ASSUME NEW n \in 0 .. N, n # N, n \in G PROVE n + 1 \in G
  <2> DEFINE d == w[n]
             c == w[n + 1]
  <2>1. DictInv(d) /\ Shaped(d) /\ Celled(d) /\ n + 1 \in 0 .. N
    BY <1>1, <1>3, <1>5 DEF DictInv
  <2>2. PICK p \in ToSet(Primitives), i \in BOOLEAN, f \in BOOLEAN, v \in 10 + 1 .. 10 + N :
          /\ v \in NativeCode
          /\ c = dict_set_code(dict_create(d, p, i, f), v)
          /\ d.here + HeaderCells(p) + 1 <= DICT_VIRT_BASE + DICT_SIZE
    BY <1>2, <1>5 DEF Registers, Registering, N
  <2> HIDE DEF d, c
  <2>3. v \in Cells /\ v # do_colon
    <3>1. v < DICT_VIRT_BASE
      BY <2>2, PrimitivesAssumption DEF NativeCode
    <3>2. DICT_VIRT_BASE + DICT_SIZE \in Cells
      BY CellsAssumption
    <3> QED BY <1>1, <3>1, <3>2, CellIs, RegionAssumption DEF do_colon
  <2>4. Celled(c)
    BY <2>1, <2>2, <2>3, CreateFits DEF Fits
  <2>5. Adds(d, c, p)
    BY <2>1, <2>2, <2>3, CreateAdds
  <2>6. Entries(c) # {}
    BY <2>5 DEF Adds
  <2> QED BY <2>1, <2>4, <2>6 DEF c
<1>6. \A n \in 0 .. N : n # N /\ n \in G => n + 1 \in G
  BY <1>5
<1>7. \A n \in 0 .. N : n \in G
  <2> HIDE DEF G
  <2> QED BY <1>1, <1>4, <1>6, Counting
<1>8. PICK d : d = register_primitives
  OBVIOUS
<1>9. d = w[N] /\ N \in 0 .. N
  BY <1>1, <1>2, <1>8 DEF Registers, N
<1>10. Celled(d) /\ Entries(d) # {} /\ DictInv(d) /\ Sound(d)
  BY <1>1, <1>3, <1>7, <1>9
<1>11. ASSUME NEW e \in Entries(d), CodeIn(d, e) = do_constant
       PROVE  dict_get_param_field(d, e) \in Region
  <2>1. dict_get_param_field(d, e) \in CodeAddrs
    BY <1>10, CodePlace
  <2>2. dict_get_param_field(d, e) < d.here
    BY <1>10, <1>11 DEF Sound, Filled
  <2>3. d.here \in CodeAddrs
    BY <1>10 DEF DictInv, Shaped
  <2> QED BY <2>1, <2>2, <2>3, RegionAssumption DEF CodeAddrs, Region
<1> QED BY <1>8, <1>10, <1>11 DEF CellDict, Held

\* What a step emits and patches.
LEMMA EmitFits ==
  ASSUME DictInv(dict), Celled(dict), NEW cells \in Seq(Cells), Emit(cells)
  PROVE  Fits(dict, dict')
<1>1. /\ dict' = dict_commas(dict, cells) /\ dict.here + Len(cells) <= DICT_VIRT_BASE + DICT_SIZE
      /\ Shaped(dict)
  BY DEF Emit, Room, DictInv
<1> QED BY <1>1, CommasFit

LEMMA EmitPatchFits ==
  ASSUME DictInv(dict), Celled(dict), NEW cells \in Seq(Cells), NEW a, EmitPatch(cells, a)
  PROVE  Fits(dict, dict')
<1>1. Shaped(dict) /\ dict.here \in CodeAddrs /\ Len(cells) \in Nat
  BY DEF DictInv, Shaped
<1> DEFINE b == dict_commas(dict, cells)
           v == dict.here + Len(cells)
<1>2. dict' = [b EXCEPT !.mem[a] = v] /\ v <= DICT_VIRT_BASE + DICT_SIZE
  BY DEF EmitPatch, Room
<1>3. v \in CodeAddrs
  BY <1>1, <1>2, RegionAssumption DEF CodeAddrs
<1>4. Shaped(b) /\ Fits(dict, b)
  BY <1>1, <1>2, CommasIs, CommasFit
<1> HIDE DEF b, v
<1>5. /\ a \in Region => dict'.mem[a] = v
      /\ \A x \in Region : x # a => dict'.mem[x] = b.mem[x]
  <2>1. Stores(b, dict', a, v)
    BY <1>2, <1>4, StoreIs
  <2> QED BY <2>1 DEF Stores
<1>6. v \in Cells
  BY <1>3, AddrFits
<1> QED BY <1>3, <1>4, <1>5, <1>6 DEF Fits, Celled, Patched

LEMMA SemicolonFits ==
  ASSUME DictInv(dict), Celled(dict), w_semicolon
  PROVE  Fits(dict, dict')
<1>1. Shaped(dict) /\ dict.here \in CodeAddrs /\ dict.here + 1 <= DICT_VIRT_BASE + DICT_SIZE
  BY DEF DictInv, Shaped, w_semicolon, Room
<1>2. PICK x \in Cells : x = SENTINEL_EXIT
  BY CellsAssumption
<1>3. PICK b : b = dict_comma(dict, x)
  OBVIOUS
<1>4. PICK h : h = FALSE
  OBVIOUS
<1>5. dict' = [b EXCEPT !.hdr[dict.latest].hidden = h]
  BY <1>2, <1>3, <1>4 DEF w_semicolon
<1>6. dict.here \in Region
  BY <1>1, RegionAssumption DEF CodeAddrs, Region
<1>7. Fits(dict, b) /\ Shaped(b)
  BY <1>1, <1>3, <1>6, CommaFits
<1>8. dict'.mem = b.mem
  <2>1. Flagged(b, dict', dict.latest)
    BY <1>5, <1>7, HideIs
  <2> QED BY <2>1 DEF Flagged
<1> QED BY <1>7, <1>8 DEF Fits, Celled, Patched

LEMMA ImmediateFits ==
  ASSUME DictInv(dict), Celled(dict), w_immediate
  PROVE  Fits(dict, dict')
<1>1. Shaped(dict)
  BY DEF DictInv
<1>2. PICK v : dict' = [dict EXCEPT !.hdr[dict.latest].immediate = v]
  <2>1. dict' = [dict EXCEPT !.hdr[dict.latest].immediate = ~@]
    BY DEF w_immediate
  <2> QED BY <2>1
<1>3. dict'.mem = dict.mem
  <2>1. Flagged(dict, dict', dict.latest)
    BY <1>1, <1>2, ImmediateIs
  <2> QED BY <2>1 DEF Flagged
<1> QED BY <1>3 DEF Fits, Celled, Patched

LEMMA FindFits == ASSUME NEW d, NEW n, DictInv(d) PROVE dict_find(d, n) \in Entries(d) \cup {NULL}
<1> DEFINE T == Matching(d, n)
<1>1. dict_find(d, n) = Newest(T) /\ T \subseteq Entries(d)
  BY FindIs DEF Matching
<1>2. \A e \in Entries(d) : e \in Nat /\ e <= d.latest /\ d.latest \in Int
  <2>1. /\ Entries(d) \subseteq Region /\ d.latest \in Entries(d) \cup {NULL}
        /\ \A e \in Entries(d) : e <= d.latest
    BY DEF DictInv, Shaped, Linked
  <2> QED BY <2>1, RegionAssumption DEF Region, NULL
<1> HIDE DEF T
<1>3. CASE T = {}
  BY <1>1, <1>3 DEF Newest
<1>4. CASE T # {}
  <2> DEFINE U == {d.latest - e : e \in T}
  <2>1. U \subseteq Nat /\ U # {}
    BY <1>1, <1>2, <1>4
  <2>2. PICK x \in U : \A y \in U : x <= y
    <3> HIDE DEF U
    <3> QED BY <2>1, Smallest
  <2>3. PICK m \in T : x = d.latest - m
    BY <2>2
  <2>4. \A e \in T : e <= m
    <3>1. \A e \in T : x <= d.latest - e
      BY <2>2
    <3> QED BY <1>1, <1>2, <2>3, <3>1
  <2>5. T \in SUBSET Int
    BY <1>1, <1>2
  <2>6. Newest(T) = m
    BY <1>4, <2>4, <2>5, MaxIs DEF Newest
  <2> QED BY <1>1, <2>6
<1> QED BY <1>3, <1>4

LEMMA FindCell == ASSUME NEW d, NEW n, DictInv(d) PROVE dict_find(d, n) \in Cells
<1>1. Entries(d) \subseteq Cells
  BY AddrFits DEF DictInv, Shaped
<1>2. NULL \in Cells
  BY SmallCell DEF NULL
<1> QED BY <1>1, <1>2, FindFits

LEMMA ParseFits ==
  ASSUME typed \in 0 .. MaxTyped, NEW p \in parse_word
  PROVE  p.typed \in 0 .. MaxTyped
<1>1. \A w \in Words : Cost[w] \in Nat
  BY WordsAssumption
<1>2. p.typed = typed \/ \E w \in Words : p.typed = typed + Cost[w] /\ typed + Cost[w] <= MaxTyped
  BY DEF parse_word
<1> QED BY <1>1, <1>2, BoundsAssumption

LEMMA FetchFits ==
  ASSUME NEW d, NEW a \in Int, DictInv(d), Celled(d)
  PROVE  FetchIn(d, a) \in Cells
<1>1. CASE ~InRegion(a)
  <2>1. 0 \in Cells
    BY CellIs
  <2>2. FetchIn(d, a) = 0
    <3>1. a \notin Entries(d)
      BY <1>1, RegionAssumption DEF DictInv, Shaped, Region, InRegion
    <3> QED BY <1>1, <3>1 DEF FetchIn
  <2> QED BY <2>1, <2>2
<1>2. CASE InRegion(a) /\ a \in Entries(d)
  <2>1. d.hdr[a].link \in Entries(d) \cup {NULL} /\ Entries(d) \subseteq Region
    BY <1>2 DEF DictInv, Shaped, Linked
  <2>2. d.hdr[a].link \in Cells
    BY <2>1, AddrFits, SmallCell DEF NULL
  <2> QED BY <1>2, <2>2 DEF FetchIn
<1>3. CASE InRegion(a) /\ a \notin Entries(d)
  <2>1. a \in Region
    BY <1>3, RegionAssumption DEF InRegion, Region
  <2> QED BY <1>3, <2>1 DEF FetchIn, Celled
<1> QED BY <1>1, <1>2, <1>3

LEMMA AdvanceFits == ASSUME NEW a \in Int PROVE Advance(a) \in Cells
<1>1. CASE InRegion(a)
  BY <1>1, AdvanceInside, AddrFits
<1>2. CASE ~InRegion(a)
  BY <1>2, SmallCell DEF Advance
<1> QED BY <1>1, <1>2

----------------------------------------------------------------------------
(* Every cell of the stacks and of the dictionary is one, and nothing grows *)
(* past its size.                                                          *)

Values == /\ ds \in Stacks(DATA_STACK_SIZE) /\ rs \in Stacks(RETURN_STACK_SIZE)
          /\ ip \in Cells
Modes  == forth_state \in {"INTERPRET", "COMPILE"} /\ typed \in 0 .. MaxTyped
CellsInv == Values /\ Modes /\ CellDict(dict)
CellsStep == Values' /\ Modes' /\ Fits(dict, dict')

LEMMA StartedCells == Init => CellsInv
<1>1. SUFFICES ASSUME Init PROVE CellsInv
  OBVIOUS
<1>2. CellDict(dict)
  BY <1>1, RegisterFits DEF Init
<1>3. <<>> \in Stacks(DATA_STACK_SIZE) /\ <<>> \in Stacks(RETURN_STACK_SIZE)
  <2>1. <<>> \in Seq(Cells) /\ Len(<<>>) = 0
    OBVIOUS
  <2> QED BY <2>1, SizesAssumption DEF Stacks
<1>4. NULL \in Cells
  BY SmallCell DEF NULL
<1> QED BY <1>1, <1>2, <1>3, <1>4, BoundsAssumption DEF Init, CellsInv, Values, Modes

LEMMA NewFits ==
  ASSUME DictInv(dict), Celled(dict), NEW n \in Names, NEW v \in Cells,
         NEW i \in BOOLEAN, NEW h \in BOOLEAN, NEW b,
         b = dict_set_code(dict_create(dict, n, i, h), v), Room(HeaderCells(n) + 2)
  PROVE  /\ Fits(dict, b)
         /\ \A u \in Cells : \A c : c = dict_comma(b, u) => Fits(dict, c)
<1>1. Shaped(dict) /\ dict.here \in Int /\ HeaderCells(n) \in Nat
  BY HeaderSize, RegionAssumption DEF DictInv, Shaped, CodeAddrs
<1>2. /\ dict.here + HeaderCells(n) + 1 <= DICT_VIRT_BASE + DICT_SIZE
      /\ dict.here + HeaderCells(n) + 1 < DICT_VIRT_BASE + DICT_SIZE
  BY <1>1, RegionAssumption DEF Room
<1>3. n \in ToSet(Primitives) \cup Names
  OBVIOUS
<1>4. dict.here >= DICT_VIRT_BASE
  BY RegionAssumption DEF DictInv, Shaped, CodeAddrs
<1>5. Fits(dict, b) /\ Shaped(b) /\ b.here = dict.here + HeaderCells(n) + 1
  BY <1>1, <1>2, <1>3, CreateFits
<1>6. b.here \in Region /\ Celled(b) /\ b.here \in Int /\ dict.here <= b.here
  <2>1. Celled(b)
    BY <1>5 DEF Fits
  <2> QED BY <1>1, <1>2, <1>4, <1>5, <2>1, RegionAssumption DEF Region
<1>7. ASSUME NEW u \in Cells, NEW c, c = dict_comma(b, u) PROVE Fits(dict, c)
  <2>1. Fits(b, c)
    BY <1>5, <1>6, <1>7, CommaFits
  <2> QED BY <1>1, <1>5, <1>6, <2>1, FitsThen
<1> QED BY <1>5, <1>7

LEMMA ParsingFits ==
  ASSUME DictInv(dict), CellsInv, NEW w, parsing(w)
  PROVE  CellsStep
<1>0. PICK p \in parse_word :
        /\ Parsing(p)
        /\ \/ w_colon(p) \/ NoName(p) \/ w_create(p) \/ w_constant(p)
           \/ w_variable(p) \/ w_tick(p)
  BY DEF parsing
<1>1. Values /\ Modes /\ Celled(dict) /\ Fits(dict, dict)
  BY SameFits DEF CellsInv, CellDict
<1>2. rs' = rs /\ ip' = ip /\ typed' \in 0 .. MaxTyped
  BY <1>0, <1>1, ParseFits DEF Parsing, Modes
<1>3. PICK f \in BOOLEAN, t \in BOOLEAN : f = FALSE /\ t = TRUE
  OBVIOUS
<1>4. PICK one, two, three, zero \in Cells : /\ one = do_colon /\ two = do_variable
                                             /\ three = do_constant /\ zero = 0
  BY SmallCell DEF do_colon, do_variable, do_constant
<1>5. ds_rest(ds) \in Stacks(DATA_STACK_SIZE) /\ ds_peek(ds) \in Cells
  BY <1>1, StackPop DEF Values
<1>6. PICK top \in Cells : top = ds_peek(ds)
  BY <1>5
<1>7. CASE NoName(p)
  BY <1>1, <1>2, <1>7 DEF NoName, CellsStep, Values, Modes
<1>8. CASE w_tick(p)
  <2>1. dict_find(dict, p.word) \in Cells
    BY FindCell
  <2>2. ds' = ds \/ \E v \in Cells : ds' = ds_push(ds, v)
    BY <1>8, <2>1 DEF w_tick
  <2>3. ds' \in Stacks(DATA_STACK_SIZE)
    BY <1>1, <2>2, StackPush DEF Values
  <2> QED BY <1>1, <1>2, <1>8, <2>3 DEF w_tick, CellsStep, Values, Modes
<1>9. CASE w_colon(p)
  <2>1. /\ p.word \in Names /\ Room(HeaderCells(p.word) + 2)
        /\ dict' = dict_set_code(dict_create(dict, p.word, f, t), one)
    BY <1>3, <1>4, <1>9 DEF w_colon, Named
  <2>2. Fits(dict, dict')
    BY <1>1, <2>1, NewFits
  <2> QED BY <1>1, <1>2, <1>9, <2>2 DEF w_colon, CellsStep, Values, Modes
<1>10. CASE w_create(p)
  <2>1. /\ p.word \in Names /\ Room(HeaderCells(p.word) + 2)
        /\ dict' = dict_set_code(dict_create(dict, p.word, f, f), two)
    BY <1>3, <1>4, <1>10 DEF w_create, Named
  <2>2. Fits(dict, dict')
    BY <1>1, <2>1, NewFits
  <2> QED BY <1>1, <1>2, <1>10, <2>2 DEF w_create, CellsStep, Values, Modes
<1>11. CASE w_constant(p)
  <2>1. PICK b : b = dict_set_code(dict_create(dict, p.word, f, f), three)
    OBVIOUS
  <2>2. p.word \in Names /\ Room(HeaderCells(p.word) + 2) /\ dict' = dict_comma(b, top)
    BY <1>3, <1>4, <1>6, <1>11, <2>1 DEF w_constant, Named
  <2>3. Fits(dict, dict')
    BY <1>1, <2>1, <2>2, NewFits
  <2> QED BY <1>1, <1>2, <1>5, <1>11, <2>3 DEF w_constant, CellsStep, Values, Modes
<1>12. CASE w_variable(p) /\ p.word # NoWord
  <2>1. PICK b : b = dict_set_code(dict_create(dict, p.word, f, f), two)
    OBVIOUS
  <2>2. p.word \in Names /\ Room(HeaderCells(p.word) + 2) /\ dict' = dict_comma(b, zero)
    BY <1>3, <1>4, <1>12, <2>1 DEF w_variable, Named
  <2>3. Fits(dict, dict')
    BY <1>1, <2>1, <2>2, NewFits
  <2> QED BY <1>1, <1>2, <1>12, <2>3 DEF w_variable, CellsStep, Values, Modes
<1>13. CASE w_variable(p) /\ p.word = NoWord
  <2>1. dict' = dict_comma(dict, zero) /\ dict.here + 1 <= DICT_VIRT_BASE + DICT_SIZE
    BY <1>4, <1>13 DEF w_variable, Room
  <2>2. Shaped(dict) /\ dict.here \in Region
    BY <2>1, RegionAssumption DEF DictInv, Shaped, CodeAddrs, Region
  <2>3. Fits(dict, dict')
    BY <1>1, <2>1, <2>2, CommaFits
  <2> QED BY <1>1, <1>2, <1>13, <2>3 DEF w_variable, CellsStep, Values, Modes
<1> QED BY <1>0, <1>7, <1>8, <1>9, <1>10, <1>11, <1>12, <1>13

\* A word that pushes, pops and emits.
LEMMA QuietFits ==
  ASSUME CellsInv, rs' = rs, ip' = ip, forth_state' = forth_state, typed' = typed,
         ds' \in Stacks(DATA_STACK_SIZE), Fits(dict, dict')
  PROVE  CellsStep
  BY DEF CellsInv, CellsStep, Values, Modes

LEMMA NativeFits ==
  ASSUME DictInv(dict), TasksInv, CellsInv, forth_base \in Bases, NEW w, native(w)
  PROVE  CellsStep
<1>0. Values /\ Modes /\ Celled(dict) /\ Fits(dict, dict)
  BY SameFits DEF CellsInv, CellDict
<1>1. PICK top, zero, second, rtop, b \in Cells :
        top = ds_peek(ds) /\ rtop = rs_peek(rs) /\ second = ds_pick(ds, 1) /\ b = forth_base /\ zero = 0
  <2>1. ds_peek(ds) \in Cells /\ rs_peek(rs) \in Cells
    BY <1>0, StackPop, ReturnPop DEF Values
  <2>2. ds_pick(ds, 1) \in Cells
    <3>1. PICK n \in Nat : n = 1
      OBVIOUS
    <3>2. ds_pick(ds, n) \in Cells
      BY <1>0, StackPick DEF Values
    <3> QED BY <3>1, <3>2
  <2>3. forth_base \in Cells
    BY SmallCell DEF Bases
  <2>4. 0 \in Cells
    BY CellIs
  <2> QED BY <2>1, <2>2, <2>3, <2>4
<1>2. PICK left \in Stacks(DATA_STACK_SIZE) : left = ds_rest(ds)
  BY <1>0, StackPop DEF Values
<1>3. dict.here \in Int /\ dict.here \in CodeAddrs /\ dict.here \in Cells
  BY AddrFits, RegionAssumption DEF DictInv, Shaped, CodeAddrs
<1>4. \A n \in 1 .. 2 : Room(n) => dict.here + 1 \in Cells
  <2>1. SUFFICES ASSUME NEW n \in 1 .. 2, Room(n) PROVE dict.here + 1 \in CodeAddrs
    BY AddrFits
  <2> QED BY <1>3, <2>1, RegionAssumption DEF Room, CodeAddrs
<1>5. \A v, x : Len(<<v>>) = 1 /\ Len(<<v, x>>) = 2 /\ Len(<<>>) = 0
  OBVIOUS
<1>6. \A v, x \in Cells : <<v>> \in Seq(Cells) /\ <<v, x>> \in Seq(Cells) /\ <<>> \in Seq(Cells)
  OBVIOUS
<1>7. PICK br, zbr, do, loop \in Cells : br = rt_branch /\ zbr = rt_0branch /\ do = rt_do /\ loop = rt_loop
  BY SmallCell DEF rt_branch, rt_0branch, rt_do, rt_loop
<1>8. \A v \in Cells : /\ ds_push(ds, v) \in Stacks(DATA_STACK_SIZE)
                       /\ ds_push(left, v) \in Stacks(DATA_STACK_SIZE)
  BY <1>0, StackPush DEF Values
<1>9. CASE compute(w)
  <2>1. ds' \in Stacks(DATA_STACK_SIZE)
    BY <1>0, <1>9, EffectFits DEF compute, Values
  <2> QED BY <1>0, <1>9, <2>1, QuietFits DEF compute, Quiet, mode, text
<1>10. CASE runaway(w)
  BY <1>0, <1>10, QuietFits DEF runaway, Fault, mode, text, Values
<1>11. CASE parsing(w)
  BY <1>11, ParsingFits
<1>12. CASE w_semicolon
  <2>1. Fits(dict, dict')
    BY <1>0, <1>12, SemicolonFits
  <2> QED BY <1>0, <1>12, <2>1 DEF w_semicolon, text, CellsStep, Values, Modes
<1>13. CASE w_immediate
  <2>1. Fits(dict, dict')
    BY <1>0, <1>13, ImmediateFits
  <2> QED BY <1>0, <1>13, <2>1, QuietFits DEF w_immediate, Quiet, mode, text, Values
<1>14. CASE w_execute \/ w_yield
  <2>1. ds' \in Stacks(DATA_STACK_SIZE)
    BY <1>0, <1>2, <1>14 DEF w_execute, w_yield, Values
  <2> QED BY <1>0, <1>14, <2>1, QuietFits DEF w_execute, w_yield, mode, text
<1>15. CASE w_load
  <2>1. ds' \in Stacks(DATA_STACK_SIZE)
    BY <1>2, <1>15 DEF w_load
  <2> QED BY <1>0, <1>15, <2>1, QuietFits DEF w_load, mode
<1>16. CASE w_fork
  <2>1. Len(tasks) \in Nat /\ Len(tasks) < MaxTasks
    BY <1>16, SeqIs DEF w_fork, TasksInv
  <2>2. Len(tasks) + 1 \in Cells
    <3>1. MaxTasks \in Cells
      BY CellsAssumption
    <3> QED BY <2>1, <3>1, CellIs, BoundsAssumption
  <2>3. ds' = ds_push(left, Len(tasks) + 1)
    BY <1>2, <1>16 DEF w_fork
  <2>4. ds' \in Stacks(DATA_STACK_SIZE)
    BY <1>8, <2>2, <2>3
  <2> QED BY <1>0, <1>16, <2>4, QuietFits DEF w_fork, mode, text
<1>17. CASE w_here \/ w_base \/ w_r_fetch \/ w_begin
  <2>1. \E v \in Cells : ds' = ds_push(ds, v)
    BY <1>1, <1>3, <1>17 DEF w_here, w_base, w_r_fetch, w_begin
  <2>2. ds' \in Stacks(DATA_STACK_SIZE)
    BY <1>8, <2>1
  <2> QED BY <1>0, <1>17, <2>2, QuietFits DEF w_here, w_base, w_r_fetch, w_begin, Quiet, mode, text
<1>18. CASE SetBase(16) \/ SetBase(10)
  BY <1>0, <1>18, QuietFits DEF SetBase, text, Values
<1>19. CASE w_to_r
  <2>1. rs' = rs_push(rs, top) /\ ds' = left
    BY <1>1, <1>2, <1>19 DEF w_to_r
  <2>2. rs' \in Stacks(RETURN_STACK_SIZE)
    BY <1>0, <2>1, ReturnPush DEF Values
  <2> QED BY <1>0, <1>2, <1>19, <2>1, <2>2 DEF w_to_r, mode, text, CellsStep, Values, Modes
<1>20. CASE w_from_r
  <2>1. rs' = rs_rest(rs) /\ ds' = ds_push(ds, rtop)
    BY <1>1, <1>20 DEF w_from_r
  <2>2. rs' \in Stacks(RETURN_STACK_SIZE) /\ ds' \in Stacks(DATA_STACK_SIZE)
    BY <1>0, <1>8, <2>1, ReturnPop DEF Values
  <2> QED BY <1>0, <1>20, <2>1, <2>2 DEF w_from_r, mode, text, CellsStep, Values, Modes
<1>21. CASE w_comma \/ w_if \/ w_while \/ w_until \/ w_again \/ w_do \/ w_loop
  <2>1. Quiet
    BY <1>21 DEF w_comma, w_if, w_while, w_until, w_again, w_do, w_loop
  <2>2. PICK cells \in Seq(Cells) : Emit(cells)
    <3>1. CASE w_comma
      BY <1>1, <1>6, <3>1 DEF w_comma
    <3>2. CASE w_if \/ w_while
      BY <1>1, <1>6, <1>7, <3>2 DEF w_if, w_while
    <3>3. CASE w_until
      BY <1>1, <1>6, <1>7, <3>3 DEF w_until
    <3>4. CASE w_again
      BY <1>1, <1>6, <1>7, <3>4 DEF w_again
    <3>5. CASE w_do
      BY <1>1, <1>6, <1>7, <3>5 DEF w_do
    <3>6. CASE w_loop
      BY <1>1, <1>6, <1>7, <3>6 DEF w_loop
    <3> QED BY <1>21, <3>1, <3>2, <3>3, <3>4, <3>5, <3>6
  <2>3. ds' \in Stacks(DATA_STACK_SIZE)
    <3>1. CASE w_comma \/ w_until \/ w_again \/ w_loop
      BY <1>2, <3>1 DEF w_comma, w_until, w_again, w_loop
    <3>2. CASE w_if \/ w_while \/ w_do
      <4>1. Room(1) \/ Room(2)
        BY <1>5, <3>2 DEF w_if, w_while, w_do, Emit
      <4>2. dict.here + 1 \in Cells
        BY <1>4, <4>1
      <4>3. ds' = ds_push(ds, dict.here + 1)
        BY <3>2 DEF w_if, w_while, w_do
      <4> QED BY <1>8, <4>2, <4>3
    <3> QED BY <1>21, <3>1, <3>2
  <2>4. Fits(dict, dict')
    BY <1>0, <2>2, EmitFits
  <2> QED BY <1>0, <2>1, <2>3, <2>4, QuietFits DEF Quiet, mode, text
<1>22. CASE w_else \/ w_then \/ w_repeat
  <2>1. PICK cells, a : cells \in Seq(Cells) /\ Store(cells, a)
    <3>1. CASE w_else
      BY <1>1, <1>6, <1>7, <3>1 DEF w_else
    <3>2. CASE w_then
      BY <1>1, <1>6, <3>2 DEF w_then
    <3>3. CASE w_repeat
      BY <1>1, <1>6, <1>7, <3>3 DEF w_repeat
    <3> QED BY <1>22, <3>1, <3>2, <3>3
  <2>2. ds' \in Stacks(DATA_STACK_SIZE)
    <3>1. CASE w_then
      BY <1>2, <3>1 DEF w_then
    <3>2. CASE w_else
      <4>1. Room(2)
        BY <1>5, <3>2 DEF w_else, Store, EmitPatch, EmitLow, Emit
      <4>2. dict.here + 1 \in Cells
        BY <1>4, <4>1
      <4>3. ds' = ds_push(left, dict.here + 1)
        BY <1>2, <3>2 DEF w_else
      <4> QED BY <1>8, <4>2, <4>3
    <3>3. CASE w_repeat
      <4>1. PICK n \in Nat : n = 2
        OBVIOUS
      <4>2. ds' = Drops(ds, n)
        BY <3>3, <4>1 DEF w_repeat
      <4> QED BY <1>0, <4>2, StackDrops DEF Values
    <3> QED BY <1>22, <3>1, <3>2, <3>3
  <2>3. CASE EmitPatch(cells, a)
    <3>1. Fits(dict, dict')
      BY <1>0, <2>1, <2>3, EmitPatchFits
    <3> QED BY <1>0, <2>2, <2>3, <3>1, QuietFits DEF EmitPatch, mode, text
  <2>4. CASE EmitLow(cells, a)
    <3>1. Emit(cells) /\ Quiet
      BY <2>4 DEF EmitLow
    <3>2. Fits(dict, dict')
      BY <1>0, <2>1, <3>1, EmitFits
    <3> QED BY <1>0, <2>2, <3>1, <3>2, QuietFits DEF Quiet, mode, text
  <2> QED BY <2>1, <2>3, <2>4 DEF Store
<1> QED BY <1>9, <1>10, <1>11, <1>12, <1>13, <1>14, <1>15, <1>16, <1>17, <1>18, <1>19, <1>20,
           <1>21, <1>22 DEF native

LEMMA DocolFits ==
  ASSUME DictInv(dict), CellsInv, NEW e \in Entries(dict), NEW r \in Cells, Docol(e, r),
         UNCHANGED <<dict, ds, mode, text>>
  PROVE  CellsStep
<1>1. Values /\ Modes /\ Fits(dict, dict)
  BY SameFits DEF CellsInv, CellDict
<1>2. ip' \in Cells
  BY ParamPlace, AddrFits DEF Docol
<1>3. rs' \in Stacks(RETURN_STACK_SIZE)
  BY <1>1, ReturnPush DEF Docol, Values
<1> QED BY <1>1, <1>2, <1>3 DEF mode, text, CellsStep, Values, Modes

LEMMA FaultFits == ASSUME CellsInv, Fault PROVE CellsStep
<1>1. Values /\ Fits(dict, dict)
  BY SameFits DEF CellsInv, CellDict
<1> QED BY <1>1, QuietFits DEF Fault, mode, text, Values

LEMMA ExecuteFits ==
  ASSUME DictInv(dict), TasksInv, CellsInv, forth_base \in Bases, forth_execute
  PROVE  CellsStep
<1> DEFINE e == Last(frames).xt
<1>0. Values /\ Held(dict) /\ Celled(dict) /\ Fits(dict, dict)
  BY SameFits DEF CellsInv, CellDict
<1>1. CASE Fault
  BY <1>1, FaultFits
<1>2. CASE native(PrimitiveOf(CodeOf(e)))
  BY <1>2, NativeFits
<1>3. CASE Executable(e) /\ Docol(e, ip) /\ UNCHANGED <<dict, ds, mode, text>>
  <2>1. e \in Entries(dict) /\ ip \in Cells
    BY <1>0, <1>3 DEF Executable, Values
  <2> QED BY <1>3, <2>1, DocolFits
<1>4. CASE /\ Executable(e) /\ CodeOf(e) = do_variable
           /\ ds' = ds_push(ds, dict_get_param_field(dict, e)) /\ UNCHANGED dict /\ Quiet
  <2>1. dict_get_param_field(dict, e) \in Cells
    BY <1>4, ParamPlace, AddrFits DEF Executable
  <2>2. ds' \in Stacks(DATA_STACK_SIZE)
    BY <1>0, <1>4, <2>1, StackPush DEF Values
  <2> QED BY <1>0, <1>4, <2>2, QuietFits DEF Quiet, mode, text
<1>5. CASE /\ Executable(e) /\ CodeOf(e) = do_constant
           /\ ds' = ds_push(ds, dict.mem[dict_get_param_field(dict, e)]) /\ UNCHANGED dict /\ Quiet
  <2>1. dict.mem[dict_get_param_field(dict, e)] \in Cells
    BY <1>0, <1>5 DEF Executable, Held, Celled, CodeOf
  <2>2. ds' \in Stacks(DATA_STACK_SIZE)
    BY <1>0, <1>5, <2>1, StackPush DEF Values
  <2> QED BY <1>0, <1>5, <2>2, QuietFits DEF Quiet, mode, text
<1>6. \/ Fault \/ native(PrimitiveOf(CodeOf(e)))
      \/ Executable(e) /\ Docol(e, ip) /\ UNCHANGED <<dict, ds, mode, text>>
      \/ /\ Executable(e) /\ CodeOf(e) = do_variable
         /\ ds' = ds_push(ds, dict_get_param_field(dict, e)) /\ UNCHANGED dict /\ Quiet
      \/ /\ Executable(e) /\ CodeOf(e) = do_constant
         /\ ds' = ds_push(ds, dict.mem[dict_get_param_field(dict, e)]) /\ UNCHANGED dict /\ Quiet
  BY ZenonT(30) DEF forth_execute
<1> HIDE DEF e
<1> QED BY <1>1, <1>2, <1>3, <1>4, <1>5, <1>6

LEMMA InnerFits ==
  ASSUME DictInv(dict), CellsInv, forth_inner
  PROVE  CellsStep
<1>1. Values /\ Modes /\ Celled(dict) /\ Fits(dict, dict) /\ ip \in Int
  BY SameFits, CellsAreInts DEF CellsInv, CellDict, Values
<1>2. PICK r \in Cells : r = Advance(ip)
  BY <1>1, AdvanceFits
<1>3. r \in Int
  BY <1>2, CellsAreInts
<1>4. Fetch(r) \in Cells
  BY <1>1, <1>3, FetchFits DEF Fetch
<1>5. CASE InnerExit
  <2>1. rs' \in Stacks(RETURN_STACK_SIZE) /\ ip' \in Cells
    BY <1>1, <1>5, ReturnPop DEF InnerExit, Values
  <2> QED BY <1>1, <1>5, <2>1 DEF InnerExit, mode, text, CellsStep, Values, Modes
<1>6. CASE InnerLiteral
  <2>1. ds' = ds_push(ds, Fetch(r)) /\ ip' = Advance(r)
    BY <1>2, <1>6 DEF InnerLiteral
  <2>2. ds' \in Stacks(DATA_STACK_SIZE) /\ ip' \in Cells
    BY <1>1, <1>3, <1>4, <2>1, StackPush, AdvanceFits DEF Values
  <2> QED BY <1>1, <1>6, <2>2 DEF InnerLiteral, mode, text, CellsStep, Values, Modes
<1>7. CASE InnerInvalid
  BY <1>1, <1>2, <1>7 DEF InnerInvalid, mode, text, CellsStep, Values, Modes
<1>8. CASE InnerWord
  <2> DEFINE e == Fetch(ip)
  <2>1. \/ Executable(e) /\ Docol(e, r)
        \/ ip' = r /\ rs' = rs
    BY <1>2, <1>8 DEF InnerWord
  <2>2. UNCHANGED <<dict, ds, mode, text>>
    BY <1>8 DEF InnerWord
  <2> HIDE DEF e
  <2>3. CASE Executable(e) /\ Docol(e, r)
    BY <2>2, <2>3, DocolFits DEF Executable
  <2>4. CASE ip' = r /\ rs' = rs
    BY <1>1, <2>2, <2>4 DEF mode, text, CellsStep, Values, Modes
  <2> QED BY <2>1, <2>3, <2>4
<1>9. CASE InnerFault
  BY <1>9, FaultFits DEF InnerFault
<1> QED BY <1>5, <1>6, <1>7, <1>8, <1>9 DEF forth_inner

LEMMA EvalFits ==
  ASSUME DictInv(dict), CellsInv, forth_base \in Bases, forth_eval
  PROVE  CellsStep
<1> DEFINE number(p) == IF p.word \in DOMAIN Numerals
                        THEN try_parse_number(Numerals[p.word], forth_base)
                        ELSE [ok |-> FALSE]
<1>1. Values /\ Modes /\ Celled(dict) /\ Fits(dict, dict)
  BY SameFits DEF CellsInv, CellDict
<1>2. PICK p \in parse_word :
        /\ typed' = p.typed
        /\ \/ dict' = dict /\ ds' = ds
           \/ Emit(<<dict_find(dict, p.word)>>) /\ ds' = ds
           \/ number(p).ok /\ Emit(<<do_literal, number(p).value>>) /\ ds' = ds
           \/ number(p).ok /\ ds' = ds_push(ds, number(p).value) /\ dict' = dict
  BY ZenonT(30) DEF forth_eval
<1>3. rs' = rs /\ ip' = ip
  BY DEF forth_eval
<1>4. forth_state' \in {"INTERPRET", "COMPILE"}
  <2>1. forth_state' = forth_state \/ forth_state' = "INTERPRET"
    BY ZenonT(30) DEF forth_eval
  <2> QED BY <1>1, <2>1 DEF Modes
<1>5. typed' \in 0 .. MaxTyped
  BY <1>1, <1>2, ParseFits DEF Modes
<1>6. dict_find(dict, p.word) \in Cells
  BY FindCell
<1>7. number(p).ok => number(p).value \in Cells
  <2>1. CASE p.word \in DOMAIN Numerals
    BY <2>1, NumberFits
  <2>2. CASE p.word \notin DOMAIN Numerals
    <3>1. number(p) = [ok |-> FALSE]
      BY <2>2
    <3>2. ~number(p).ok
      BY <3>1
    <3> QED BY <3>2
  <2> QED BY <2>1, <2>2
<1>8. do_literal \in Cells
  BY SmallCell DEF do_literal
<1> HIDE DEF number
<1>9. \A v, x \in Cells : <<v>> \in Seq(Cells) /\ <<v, x>> \in Seq(Cells)
  OBVIOUS
<1>10. Fits(dict, dict')
  <2>1. dict' = dict \/ \E cells \in Seq(Cells) : Emit(cells)
    BY <1>2, <1>6, <1>7, <1>8, <1>9
  <2> QED BY <1>1, <2>1, EmitFits
<1>11. ds' \in Stacks(DATA_STACK_SIZE)
  BY <1>1, <1>2, <1>7, StackPush DEF Values
<1> QED BY <1>1, <1>3, <1>4, <1>5, <1>10, <1>11 DEF CellsStep, Values, Modes

LEMMA NextFits ==
  ASSUME DictInv(dict), TasksInv, CellsInv, forth_base \in Bases, [Next]_vars
  PROVE  CellsStep
<1>0. Values /\ Fits(dict, dict)
  BY SameFits DEF CellsInv, CellDict
<1>1. CASE UNCHANGED vars
  BY <1>0, <1>1, QuietFits DEF vars, mode, text, Values
<1>2. CASE forth_run \/ forth_thread_wrapper \/ task_exit
  <2>1. UNCHANGED <<dict, ds, rs, ip, mode, typed>>
    BY <1>2 DEF forth_run, forth_thread_wrapper, task_exit, text
  <2> QED BY <1>0, <2>1, QuietFits DEF mode, Values
<1> QED BY <1>1, <1>2, ExecuteFits, InnerFits, EvalFits DEF Next

LEMMA SteppedCells ==
  ASSUME IInv, CellsInv, forth_base \in Bases, [Next]_vars
  PROVE  CellsInv'
<1>1. DictInv(dict) /\ TasksInv /\ misused \in BOOLEAN
  BY DEF IInv, Flags
<1>2. CellsStep
  BY <1>1, NextFits
<1>3. DictStep
  BY <1>1, DictNext
<1>4. DictInv(dict')
  BY Stepped DEF IInv
<1>5. CellDict(dict')
  BY <1>1, <1>2, <1>3, <1>4, HeldKept DEF CellsStep, CellsInv
<1> QED BY <1>2, <1>5 DEF CellsStep, CellsInv

LEMMA TypesFollow ==
  ASSUME IInv, CellsInv, forth_base \in Bases
  PROVE  TypeOK
<1>1. DictInv(dict) /\ TasksInv /\ Flags
  BY DEF IInv
<1>2. Values /\ Modes /\ Entries(dict) # {}
  BY DEF CellsInv, CellDict
<1>3. dict.here \in Int /\ dict.here <= DICT_VIRT_BASE + DICT_SIZE
  BY <1>1, RegionAssumption DEF DictInv, Shaped, CodeAddrs
<1>4. \A e \in Entries(dict) : dict_get_code_field(dict, e) \in DICT_VIRT_BASE .. dict.here
  <2>1. \A e \in Entries(dict) : /\ dict_get_code_field(dict, e) \in Region
                                 /\ dict_get_code_field(dict, e) < dict.here
    BY <1>1, CodePlace
  <2> QED BY <1>3, <2>1, RegionAssumption DEF Region
<1>5. dict.latest \in Entries(dict)
  <2>1. PICK e \in Entries(dict) : e <= dict.latest /\ e \in Region
    BY <1>1, <1>2 DEF DictInv, Linked, Shaped
  <2>2. dict.latest \in Entries(dict) \cup {NULL}
    BY <1>1 DEF DictInv, Linked
  <2> QED BY <2>1, <2>2, RegionAssumption DEF Region, NULL
<1>6. Room(0)
  BY <1>3, RegionAssumption DEF Room
<1>7. /\ \A i \in DOMAIN ds : ds[i] \in Cells
      /\ Len(ds) <= DATA_STACK_SIZE
      /\ Len(rs) <= RETURN_STACK_SIZE
  BY <1>2 DEF Values, Stacks
<1>8. Len(borrowed) = Len(rs)
  BY <1>1 DEF Flags
<1>9. \A i \in DOMAIN frames : frames[i].kind \in {"call", "inner", "line", "load", "thread"}
  BY <1>1 DEF TasksInv, IsStack
<1>10. cur \in Alive
  <2>1. <<>> # Dead
    BY NoStack, StackLives
  <2> QED BY <1>1, <2>1 DEF TasksInv, Alive
<1> QED BY <1>2, <1>4, <1>5, <1>6, <1>7, <1>8, <1>9, <1>10 DEF TypeOK, Modes

\* Every number the interpreter handles is one a cell can hold: what the
\* primitives compute, strtol reads, FORK and HERE push, R> takes and forth_inner
\* fetches; the stacks keep to their sizes, whatever the words pop or push; HERE
\* does not leave the region; every entry has its code field below HERE; and the
\* running task is one of the ring that has not exited.
THEOREM TypeCorrect == Spec => []TypeOK
<1>1. Init => CellsInv /\ forth_base \in Bases
  BY StartedCells DEF Init, Bases
<1>2. IInv /\ CellsInv /\ forth_base \in Bases /\ [Next]_vars => CellsInv' /\ (forth_base \in Bases)'
  BY SteppedCells, NextBase DEF Bases
<1>3. IInv /\ CellsInv /\ forth_base \in Bases => TypeOK
  BY TypesFollow
<1> QED BY <1>1, <1>2, <1>3, Invariance, PTL DEF Spec
=============================================================================
