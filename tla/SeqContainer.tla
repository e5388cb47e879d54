---------------------------- MODULE SeqContainer ----------------------------
(***************************************************************************)
(* What the ordered sequence container promises (spec section 4.2), as a  *)
(* specification over the sequence it holds.  Each step is one call: the  *)
(* call is recorded in last, the sequence changes as the contract says,   *)
(* and out is what the call returns (a sequence of returned slices; a     *)
(* single element v is <<<<v>>>>).  Random operations may return any of    *)
(* the outcomes the contract allows.                                       *)
(*                                                                         *)
(* Calls are records [op, i, j, v, vs, opt]: i and j are the integer       *)
(* arguments, v an element, vs a variadic or slice argument and opt       *)
(* whether the optional trailing argument (Range's end, SubSlice's length, *)
(* Sort's reverse) was given.                                              *)
(***************************************************************************)
EXTENDS Integers, Sequences, SequencesExt, Functions, FiniteSets, TLC

CONSTANTS
  Calls,       \* the calls clients make
  Format(_)    \* an element as the text gconv.String makes of it

VARIABLES seq, out, last

vars == <<seq, out, last>>

CallOf(op, i, j, v, vs, opt) ==
  [op |-> op, i |-> i, j |-> j, v |-> v, vs |-> vs, opt |-> opt]

NoCall == CallOf("none", 0, 0, 0, <<>>, FALSE)

Lesser(a, b) == IF a < b THEN a ELSE b
Greater(a, b) == IF a > b THEN a ELSE b

\* The elements at 0-based positions lo..hi-1 (empty when hi <= lo).
Window(s, lo, hi) == SubSeq(s, lo + 1, hi)

\* s without the elements at the 1-based positions P, in order.
WithoutPositions(s, P) ==
  LET keep == SetToSortSeq({k \in 1..Len(s) : k \notin P}, <)
  IN [n \in 1..Len(keep) |-> s[keep[n]]]

\* The first occurrence of every value, in their original order.
FirstOccurrences(s) ==
  WithoutPositions(s, {k \in 1..Len(s) : \E l \in 1..(k - 1) : s[l] = s[k]})

\* The documented preconditions a caller keeps: Get, Set and Remove take
\* an existing index, InsertBefore an index up to the length, InsertAfter an
\* existing one, and single pops and Rand need an element.  The contract of Fill
\* says nothing of a start past the end, so calls stay within it.
Pre(c, s) ==
  CASE c.op \in {"Set", "Remove", "InsertAfter"} -> c.i \in 0..(Len(s) - 1)
    [] c.op = "InsertBefore" -> c.i \in 0..Len(s)
    [] c.op \in {"Get"} -> c.i \in 0..(Len(s) - 1)
    [] c.op \in {"PopLeft", "PopRight", "PopRand", "Rand"} -> s # <<>>
    [] c.op = "Fill" -> c.i <= Len(s)
    [] OTHER -> TRUE

Outcome(s, o) == [seq |-> s, out |-> o]

\* Range(start, end?): [max(start,0), min(end or length, length)), empty
\* when start exceeds the effective end.
RangeSpec(c, s) ==
  LET e == IF c.opt THEN Lesser(c.j, Len(s)) ELSE Len(s)
  IN IF c.i > e THEN <<>> ELSE Window(s, Greater(c.i, 0), e)

\* SubSlice(offset, length?): a negative offset counts from the end and
\* yields nothing if it still lies before 0; a negative length stops that
\* many elements before the end; the window is clamped to the sequence.
SubSliceSpec(c, s) ==
  LET o  == IF c.i < 0 THEN Len(s) + c.i ELSE c.i
      hi == CASE ~c.opt   -> Len(s)
              [] c.j >= 0 -> Lesser(o + c.j, Len(s))
              [] OTHER    -> Len(s) + c.j
  IN IF o < 0 \/ o > Len(s) THEN <<>> ELSE Window(s, o, hi)

ChunkSpec(size, s) ==
  IF size < 1 THEN <<>>
  ELSE [k \in 1..((Len(s) + size - 1) \div size) |->
          Window(s, (k - 1) * size, Lesser(k * size, Len(s)))]

PadSpec(size, v, s) ==
  LET n == IF size < 0 THEN -size ELSE size
      pad == [k \in 1..(n - Len(s)) |-> v]
  IN CASE n <= Len(s) -> s
       [] size > 0    -> s \o pad
       [] OTHER       -> pad \o s

\* Fill(start, count, v) for a start within the sequence: positions from
\* max(start,0) on are overwritten, the sequence growing as needed.
FillSpec(st, num, v, s) ==
  LET from == Greater(st, 0)
  IN [k \in 1..Greater(Len(s), from + num) |->
        IF k - 1 \in from..(from + num - 1) THEN v ELSE s[k]]

\* The first position holding v, 0-based, or -1.
SearchSpec(v, s) ==
  IF \E p \in 1..Len(s) : s[p] = v
  THEN Min({p \in 1..Len(s) : s[p] = v}) - 1 ELSE -1

\* The number of occurrences of each value present.
CountSpec(s) == [v \in Range(s) |-> Cardinality({p \in 1..Len(s) : s[p] = v})]

\* Elements at k distinct random positions, in the order drawn.
Samples(s, k) == {[q \in 1..k |-> s[p[q]]] : p \in Injection(1..k, 1..Len(s))}

\* Join(glue): the elements' texts with glue between neighbours; String
\* is the standard form of a slice, "[" and "]" around the texts joined by
\* one space.
JoinSpec(s, glue) ==
  IF s = <<>> THEN ""
  ELSE FoldLeft(LAMBDA acc, x : acc \o glue \o Format(x), Format(Head(s)), Tail(s))

StringSpec(s) == "[" \o JoinSpec(s, " ") \o "]"

\* The lock-scoped callbacks are the caller's: RLockFunc's reads the
\* elements (out is what it saw), LockFunc's copies vs over the front of
\* the slice it is handed, the one write a callback can make to it.

\* All outcomes the contract allows for call c on s.
Outcomes(c, s) ==
  LET n == Len(s)
      k == Lesser(Greater(c.i, 0), n)   \* a count clamped to the length
  IN CASE
    c.op = "Set" -> {Outcome([s EXCEPT ![c.i + 1] = c.v], <<>>)}
 [] c.op = "SetArray" -> {Outcome(c.vs, <<>>)}
 [] c.op = "Replace" ->
      {Outcome([p \in 1..n |-> IF p <= Len(c.vs) THEN c.vs[p] ELSE s[p]], <<>>)}
 [] c.op = "InsertBefore" -> {Outcome(InsertAt(s, c.i + 1, c.v), <<>>)}
 [] c.op = "InsertAfter" -> {Outcome(InsertAt(s, c.i + 2, c.v), <<>>)}
 [] c.op = "Remove" -> {Outcome(RemoveAt(s, c.i + 1), <<<<s[c.i + 1]>>>>)}
 [] c.op = "PushLeft" -> {Outcome(c.vs \o s, <<>>)}
 [] c.op \in {"PushRight", "Append"} -> {Outcome(s \o c.vs, <<>>)}
 [] c.op = "PopLeft" -> {Outcome(Tail(s), <<<<Head(s)>>>>)}
 [] c.op = "PopRight" -> {Outcome(Front(s), <<<<Last(s)>>>>)}
 [] c.op = "PopRand" -> {Outcome(RemoveAt(s, p), <<<<s[p]>>>>) : p \in 1..n}
 [] c.op = "PopRands" ->
      {Outcome(WithoutPositions(s, Range(p)), <<[q \in 1..k |-> s[p[q]]]>>) :
         p \in Injection(1..k, 1..n)}
 [] c.op = "Get" -> {Outcome(s, <<<<s[c.i + 1]>>>>)}
 [] c.op = "Len" -> {Outcome(s, <<<<n>>>>)}
 [] c.op = "Sum" -> {Outcome(s, <<<<FoldLeft(+, 0, s)>>>>)}
 [] c.op = "Search" -> {Outcome(s, <<<<SearchSpec(c.v, s)>>>>)}
 [] c.op = "Contains" -> {Outcome(s, <<<<IF SearchSpec(c.v, s) # -1 THEN 1 ELSE 0>>>>)}
 [] c.op = "Rand" -> {Outcome(s, <<<<s[p]>>>>) : p \in 1..n}
 [] c.op = "Rands" -> {Outcome(s, <<x>>) : x \in Samples(s, Lesser(c.i, n))}
 [] c.op = "CountValues" -> {Outcome(s, <<CountSpec(s)>>)}
 [] c.op = "Clone" -> {Outcome(s, <<s>>)}
 [] c.op = "Merge" -> {Outcome(s \o (IF c.opt THEN s ELSE c.vs), <<>>)}
 [] c.op = "PopLefts" -> {Outcome(Window(s, k, n), <<Window(s, 0, k)>>)}
 [] c.op = "PopRights" -> {Outcome(Window(s, 0, n - k), <<Window(s, n - k, n)>>)}
 [] c.op = "Range" -> {Outcome(s, <<RangeSpec(c, s)>>)}
 [] c.op = "SubSlice" -> {Outcome(s, <<SubSliceSpec(c, s)>>)}
 [] c.op = "Slice" -> {Outcome(s, <<s>>)}
 [] c.op \in {"Sort", "SortFunc"} ->
      {Outcome(IF c.opt THEN SortSeq(s, LAMBDA a, b : a > b)
                        ELSE SortSeq(s, LAMBDA a, b : a < b), <<>>)}
 [] c.op = "Unique" -> {Outcome(FirstOccurrences(s), <<>>)}
 [] c.op = "Chunk" -> {Outcome(s, ChunkSpec(c.i, s))}
 [] c.op = "Pad" -> {Outcome(PadSpec(c.i, c.v, s), <<>>)}
 [] c.op = "Fill" -> {Outcome(FillSpec(c.i, c.j, c.v, s), <<>>)}
 [] c.op = "Clear" -> {Outcome(<<>>, <<>>)}
 [] c.op = "Shuffle" ->
      {Outcome([q \in 1..n |-> s[p[q]]], <<>>) : p \in Bijection(1..n, 1..n)}
 [] c.op = "Reverse" -> {Outcome(Reverse(s), <<>>)}
 [] c.op = "Join" -> {Outcome(s, <<JoinSpec(s, c.v)>>)}
 [] c.op = "String" -> {Outcome(s, <<StringSpec(s)>>)}
 [] c.op = "RLockFunc" -> {Outcome(s, <<s>>)}
 [] c.op = "LockFunc" ->
      {Outcome([p \in 1..n |-> IF p <= Len(c.vs) THEN c.vs[p] ELSE s[p]], <<>>)}

\* A container made by a constructor: empty, or holding one of the
\* sequences S0 (NewFrom, NewFromCopy).
InitFrom(S0) ==
  /\ seq \in S0
  /\ out = <<>>
  /\ last = NoCall

Init == InitFrom({<<>>})

Next ==
  \E c \in Calls :
    /\ last' = c
    /\ Pre(c, seq)
    /\ \E r \in Outcomes(c, seq) : seq' = r.seq /\ out' = r.out

Spec == Init /\ [][Next]_vars
=============================================================================
