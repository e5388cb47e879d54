------------------------------ MODULE GoSlices ------------------------------
(***************************************************************************)
(* The Go language's slices, as the containers of garray use them: a      *)
(* slice is a header (backing array, offset, len, cap) into a heap of     *)
(* backing arrays, and s[lo:hi], append, make and copy act on the heap.   *)
(* Several headers may share one backing array; that is how a slice that  *)
(* a container returns can see the container's later writes.             *)
(*                                                                         *)
(* The heap m maps array ids to their cells; a free id maps to <<>>, an   *)
(* allocated array to exactly cap cells.  Every operator takes and        *)
(* returns the heap explicitly so that a method's statements compose as   *)
(* a chain of LETs.  These are the language's semantics, not code of the  *)
(* repository.                                                             *)
(***************************************************************************)
EXTENDS Integers, Sequences, SequencesExt

CONSTANT NArrays   \* backing arrays the heap can hold at one time

ArrayIds == 1..NArrays

\* Zero-capacity slices (nil, make([]int, 0)) point at no storage.
NoArray == 0

Header(a, o, l, c) == [arr |-> a, off |-> o, len |-> l, cap |-> c]

NilSlice == Header(NoArray, 0, 0, 0)

Zeros(n) == [i \in 1..n |-> 0]

\* The elements s[0..len-1] of slice h.
Elems(m, h) == [i \in 1..h.len |-> m[h.arr][h.off + i]]

\* s[lo:hi] is legal iff 0 <= lo <= hi <= cap(s).
SliceOK(h, lo, hi) == 0 <= lo /\ lo <= hi /\ hi <= h.cap

\* s[lo:hi]: same backing array, capacity counted from lo.
SliceExpr(h, lo, hi) ==
  Header(h.arr, h.off + lo, hi - lo, h.cap - lo)

\* s[i] = v for 0 <= i < len(s).
Store(m, h, i, v) == [m EXCEPT ![h.arr][h.off + i + 1] = v]

\* copy(s[i:], vs): writes vs into s's backing array from index i on.
StoreSeq(m, h, i, vs) ==
  IF vs = <<>> THEN m
  ELSE [m EXCEPT ![h.arr] =
          [k \in DOMAIN @ |->
             IF k - (h.off + i) \in 1..Len(vs) THEN vs[k - (h.off + i)] ELSE @[k]]]

\* Capacities the runtime's size classes give an []int (8-byte elements)
\* of up to 128 bytes: roundupsize(8 * n) / 8.
SizeClassCaps == {1, 2, 3, 4, 6, 8, 10, 12, 14, 16}

RoundUpCap(n) == IF n = 0 THEN 0 ELSE Min({c \in SizeClassCaps : c >= n})

\* runtime.growslice for small slices: double the capacity unless the new
\* length needs more, then round up to a size class.
GrowCap(oldCap, newLen) ==
  RoundUpCap(IF newLen > 2 * oldCap THEN newLen ELSE 2 * oldCap)

FreeIds(m) == {id \in ArrayIds : m[id] = <<>>}

\* A new backing array of capacity c holding vs (and zeros after it).
Alloc(m, vs, c) ==
  IF c = 0 THEN [m |-> m, h |-> NilSlice]
  ELSE LET id == Min(FreeIds(m))
       IN [m |-> [m EXCEPT ![id] = vs \o Zeros(c - Len(vs))],
           h |-> Header(id, 0, Len(vs), c)]

\* make([]int, n): len = cap = n.
Make(m, n) == Alloc(m, Zeros(n), n)

\* append(s, vs...): in place while the capacity suffices, else a new
\* array with the grown capacity.
GoAppend(m, h, vs) ==
  IF vs = <<>> THEN [m |-> m, h |-> h]
  ELSE IF h.len + Len(vs) <= h.cap
  THEN [m |-> StoreSeq(m, h, h.len, vs), h |-> [h EXCEPT !.len = @ + Len(vs)]]
  ELSE Alloc(m, Elems(m, h) \o vs, GrowCap(h.cap, h.len + Len(vs)))

\* The garbage collector: arrays no live header points at are freed.
Collect(m, live) == [id \in ArrayIds |-> IF id \in live THEN m[id] ELSE <<>>]
=============================================================================
