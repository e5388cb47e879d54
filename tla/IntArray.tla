------------------------------ MODULE IntArray ------------------------------
(***************************************************************************)
(* garray.IntArray (src/g/container/garray/garray_normal_int.go) at the   *)
(* level of Go slices: the field a.array is a slice header into a heap of *)
(* backing arrays (module GoSlices), and every method is its statements   *)
(* on that heap: reslicing, append in place or into a grown array, make   *)
(* and copy.  Slices a method returns may share the container's backing  *)
(* array; the caller may keep up to MaxViews of them (held), with the     *)
(* elements they had when returned, and drop them again.                  *)
(*                                                                         *)
(* Calls are made one at a time: each method runs under the container's   *)
(* lock (RWMutex), and its interleavings with other goroutines follow the *)
(* same pattern as in SortedStringArray.  The random index or permutation *)
(* a method draws from grand is chosen by \E.                             *)
(***************************************************************************)
EXTENDS Integers, Sequences, SequencesExt, Functions, FiniteSets, GoSlices

CONSTANTS
  Values,     \* the ints callers store
  Safe,       \* TRUE: NewIntArray(), FALSE: NewIntArray(true)
  MaxLen,     \* bound on the container's length
  MaxViews,   \* bound on the returned slices a caller keeps at once
  Calls,      \* the calls the caller makes (records as in SeqContainer)
  InitSlices, \* the slices callers hand to NewIntArrayFrom(Copy)
  InitCaps    \* the capacities callers give NewIntArraySize(0, cap)

ASSUME NArrays >= MaxViews + 3

VARIABLES
  mem,        \* the heap of backing arrays
  array,      \* a.array
  held,       \* returned slices the caller keeps: [h, snap, op]
  ret,        \* the elements the last call returned
  last,       \* the last call
  panicked    \* a call panicked (the goroutine, and here the program, ends)

vars == <<mem, array, held, ret, last, panicked>>

DigitText == <<"0", "1", "2", "3", "4", "5", "6", "7", "8", "9">>

\* strconv.Itoa, which gconv.String applies to an int: its decimal digits,
\* after a "-" when it is negative.
RECURSIVE Itoa(_)
Itoa(n) ==
  CASE n < 0  -> "-" \o Itoa(-n)
    [] n < 10 -> DigitText[n + 1]
    [] OTHER  -> Itoa(n \div 10) \o DigitText[(n % 10) + 1]

A == INSTANCE SeqContainer WITH seq <- Elems(mem, array), out <- ret, Format <- Itoa

Result(m, h, out, views) == [m |-> m, h |-> h, out |-> out, views |-> views]

Elem(m, h, i) == m[h.arr][h.off + i + 1]

(***************************************************************************)
(* The methods, each from a.mu.Lock() (or RLock) to its return.           *)
(***************************************************************************)
SetOf(m, h, c) == Result(Store(m, h, c.i, c.v), h, <<>>, {})

\* The caller's slice literal becomes a.array; the caller still holds it.
SetArrayOf(m, h, c) ==
  LET lit == Alloc(m, c.vs, Len(c.vs))
  IN Result(lit.m, lit.h, <<>>, {lit.h})

ReplaceOf(m, h, c) ==
  LET max == IF Len(c.vs) > h.len THEN h.len ELSE Len(c.vs)
  IN Result(StoreSeq(m, h, 0, SubSeq(c.vs, 1, max)), h, <<>>, {})

\* sort.Ints, or sort.Slice with the non-strict "not less" for reverse,
\* which for ints orders the values the same as a strict ">".
SortOf(m, h, c) ==
  LET e == Elems(m, h)
      sorted == IF c.opt THEN SortSeq(e, LAMBDA x, y : x > y)
                         ELSE SortSeq(e, LAMBDA x, y : x < y)
  IN Result(StoreSeq(m, h, 0, sorted), h, <<>>, {})

\* rear := copy of a.array[index:]; a.array = append(a.array[0:index],
\* value); a.array = append(a.array, rear...).
InsertAt0(m, h, index, v) ==
  LET rear == Elems(m, SliceExpr(h, index, h.len))
      r1 == GoAppend(m, SliceExpr(h, 0, index), <<v>>)
      r2 == GoAppend(r1.m, r1.h, rear)
  IN Result(r2.m, r2.h, <<>>, {})

InsertBeforeOf(m, h, c) == InsertAt0(m, h, c.i, c.v)

InsertAfterOf(m, h, c) == InsertAt0(m, h, c.i + 1, c.v)

\* Mutant of RemoveOf: the interior branch appends a.array[index:] (an
\* off-by-one in the rear's start), so nothing is cut out.
RemoveOfKeepsElement(m, h, index) ==
  LET v == <<<<Elem(m, h, index)>>>>
  IN CASE index = 0 -> Result(m, SliceExpr(h, 1, h.len), v, {})
       [] index = h.len - 1 -> Result(m, SliceExpr(h, 0, index), v, {})
       [] OTHER ->
            LET r == GoAppend(m, SliceExpr(h, 0, index),
                              Elems(m, SliceExpr(h, index, h.len)))
            IN Result(r.m, r.h, v, {})

\* Remove trims at either end, else appends the rear over the gap.
RemoveOf(m, h, index) ==
  LET v == <<<<Elem(m, h, index)>>>>
  IN CASE index = 0 -> Result(m, SliceExpr(h, 1, h.len), v, {})
       [] index = h.len - 1 -> Result(m, SliceExpr(h, 0, index), v, {})
       [] OTHER ->
            LET r == GoAppend(m, SliceExpr(h, 0, index),
                              Elems(m, SliceExpr(h, index + 1, h.len)))
            IN Result(r.m, r.h, v, {})

\* append(value, a.array...) on the variadic slice value (len = cap).
PushLeftOf(m, h, c) ==
  LET lit == Alloc(m, c.vs, Len(c.vs))
      r == GoAppend(lit.m, lit.h, Elems(m, h))
  IN Result(r.m, r.h, <<>>, {})

PushRightOf(m, h, c) ==
  LET r == GoAppend(m, h, c.vs) IN Result(r.m, r.h, <<>>, {})

PopLeftOf(m, h) ==
  Result(m, SliceExpr(h, 1, h.len), <<<<Elem(m, h, 0)>>>>, {})

PopRightOf(m, h) ==
  LET index == h.len - 1
  IN Result(m, SliceExpr(h, 0, index), <<<<Elem(m, h, index)>>>>, {})

\* Each round draws index = grand.Intn(len(a.array)) (rnd[k]) and cuts it
\* out with append(a.array[:index], a.array[index+1:]...).
RECURSIVE PopRandsLoop(_, _, _, _, _)
PopRandsLoop(m, h, rnd, k, got) ==
  IF k > Len(rnd) THEN Result(m, h, <<got>>, {})
  ELSE LET index == rnd[k]
           r == GoAppend(m, SliceExpr(h, 0, index),
                         Elems(m, SliceExpr(h, index + 1, h.len)))
       IN PopRandsLoop(r.m, r.h, rnd, k + 1, Append(got, Elem(m, h, index)))

PopLeftsOf(m, h, c) ==
  LET size == IF c.i > h.len THEN h.len ELSE c.i
  IN Result(m, SliceExpr(h, size, h.len), <<Elems(m, SliceExpr(h, 0, size))>>,
            {SliceExpr(h, 0, size)})

PopRightsOf(m, h, c) ==
  LET index == IF h.len - c.i < 0 THEN 0 ELSE h.len - c.i
      value == SliceExpr(h, index, h.len)
  IN Result(m, SliceExpr(h, 0, index), <<Elems(m, value)>>, {value})

\* Mutant of CopyOrView: the IsSafe() branch lost, the window is returned.
CopyOrViewNoCopy(m, h, lo, hi, n) ==
  Result(m, h, <<Elems(m, SliceExpr(h, lo, hi))>>, {SliceExpr(h, lo, hi)})

\* In safe mode a fresh copy, else the live window itself.
CopyOrView(m, h, lo, hi, n) ==
  IF Safe
  THEN LET s == Alloc(m, Elems(m, SliceExpr(h, lo, lo + n)), n)
       IN Result(s.m, h, <<Elems(s.m, s.h)>>, {s.h})
  ELSE Result(m, h, <<Elems(m, SliceExpr(h, lo, hi))>>, {SliceExpr(h, lo, hi)})

RangeEnd(h, c) == IF c.opt /\ c.j < h.len THEN c.j ELSE h.len

\* Range panics when the effective end lies before max(start, 0):
\* make([]int, negative) in safe mode, a.array[start:end] otherwise.
RangeFaults(h, c) ==
  LET e == RangeEnd(h, c)
  IN ~(c.i > e) /\ (IF c.i < 0 THEN 0 ELSE c.i) > e

RangeOf(m, h, c) ==
  LET e == RangeEnd(h, c)
      start == IF c.i < 0 THEN 0 ELSE c.i
  IN IF c.i > e THEN Result(m, h, <<<<>>>>, {})
     ELSE CopyOrView(m, h, start, e, e - start)

SubSliceOf(m, h, c) ==
  LET size0 == IF c.opt THEN c.j ELSE h.len
      off0 == IF c.i < 0 THEN h.len + c.i ELSE c.i
      off1 == IF size0 < 0 THEN off0 + size0 ELSE off0
      size1 == IF size0 < 0 THEN -size0 ELSE size0
      end == IF off1 + size1 > h.len THEN h.len ELSE off1 + size1
      size == IF off1 + size1 > h.len THEN h.len - off1 ELSE size1
  IN IF c.i > h.len \/ off0 < 0 \/ off1 < 0 THEN Result(m, h, <<<<>>>>, {})
     ELSE CopyOrView(m, h, off1, end, size)

SliceOf(m, h) == CopyOrView(m, h, 0, h.len, h.len)

ClearOf(m, h) == Result(m, IF h.len > 0 THEN NilSlice ELSE h, <<>>, {})

\* for i < len-1 { for j := i+1; j < len; j++ { if a[i] == a[j] { cut j } } }
RECURSIVE UniqueLoop(_, _, _, _)
UniqueLoop(m, h, i, j) ==
  CASE i >= h.len - 1 -> Result(m, h, <<>>, {})
    [] j >= h.len -> UniqueLoop(m, h, i + 1, i + 2)
    [] Elem(m, h, i) = Elem(m, h, j) ->
         LET r == GoAppend(m, SliceExpr(h, 0, j),
                           Elems(m, SliceExpr(h, j + 1, h.len)))
         IN UniqueLoop(r.m, r.h, i, j + 1)
    [] OTHER -> UniqueLoop(m, h, i, j + 1)

UniqueOf(m, h) == UniqueLoop(m, h, 0, 1)

\* for i := start; i < start+num; i++ { append past the end, else a[i] = v }
RECURSIVE FillLoop(_, _, _, _, _)
FillLoop(m, h, i, stop, v) ==
  CASE i >= stop -> Result(m, h, <<>>, {})
    [] i > h.len - 1 -> LET r == GoAppend(m, h, <<v>>)
                        IN FillLoop(r.m, r.h, i + 1, stop, v)
    [] OTHER -> FillLoop(Store(m, h, i, v), h, i + 1, stop, v)

FillOf(m, h, c) ==
  LET start == IF c.i < 0 THEN 0 ELSE c.i
  IN FillLoop(m, h, start, start + c.j, c.v)

\* The windows a.array[i*size:end] of the live backing array.
ChunkOf(m, h, c) ==
  IF c.i < 1 THEN Result(m, h, <<>>, {})
  ELSE LET n == (h.len + c.i - 1) \div c.i
           w(k) == SliceExpr(h, (k - 1) * c.i,
                             IF k * c.i > h.len THEN h.len ELSE k * c.i)
       IN Result(m, h, [k \in 1..n |-> Elems(m, w(k))], {w(k) : k \in 1..n})

\* Mutant of PadOf: the loop filling tmp with value is lost.
PadUnfilled(m, h, c) ==
  IF c.i = 0 \/ (c.i > 0 /\ c.i < h.len) \/ (c.i < 0 /\ c.i > -h.len)
  THEN Result(m, h, <<>>, {})
  ELSE LET n == (IF c.i < 0 THEN -c.i ELSE c.i) - h.len
           tmp == Make(m, n)
           r == IF c.i > 0 THEN GoAppend(tmp.m, h, Elems(tmp.m, tmp.h))
                ELSE GoAppend(tmp.m, tmp.h, Elems(m, h))
       IN Result(r.m, r.h, <<>>, {})

PadOf(m, h, c) ==
  IF c.i = 0 \/ (c.i > 0 /\ c.i < h.len) \/ (c.i < 0 /\ c.i > -h.len)
  THEN Result(m, h, <<>>, {})
  ELSE LET n == (IF c.i < 0 THEN -c.i ELSE c.i) - h.len
           tmp == Alloc(m, [k \in 1..n |-> c.v], n)
           r == IF c.i > 0 THEN GoAppend(tmp.m, h, Elems(tmp.m, tmp.h))
                ELSE GoAppend(tmp.m, tmp.h, Elems(m, h))
       IN Result(r.m, r.h, <<>>, {})

GetOf(m, h, c) == Result(m, h, <<<<Elem(m, h, c.i)>>>>, {})

LenOf(m, h) == Result(m, h, <<<<h.len>>>>, {})

\* for _, v := range a.array { sum += v }
RECURSIVE SumLoop(_, _, _, _)
SumLoop(m, h, i, sum) ==
  IF i >= h.len THEN sum ELSE SumLoop(m, h, i + 1, sum + Elem(m, h, i))

SumOf(m, h) == Result(m, h, <<<<SumLoop(m, h, 0, 0)>>>>, {})

\* sort.Slice with the caller's less: a.array[i] < a.array[j], or > when
\* the call's opt is set.
SortFuncOf(m, h, c) ==
  LET less(x, y) == IF c.opt THEN x > y ELSE x < y
  IN Result(StoreSeq(m, h, 0, SortSeq(Elems(m, h), less)), h, <<>>, {})

\* The first index holding value, scanning from the front; -1 when absent.
RECURSIVE SearchLoop(_, _, _, _)
SearchLoop(m, h, i, v) ==
  CASE i >= h.len -> -1
    [] Elem(m, h, i) = v -> i
    [] OTHER -> SearchLoop(m, h, i + 1, v)

SearchIndex(m, h, v) == IF h.len = 0 THEN -1 ELSE SearchLoop(m, h, 0, v)

SearchOf(m, h, c) == Result(m, h, <<<<SearchIndex(m, h, c.v)>>>>, {})

\* Search(value) != -1, the bool as 1 or 0.
ContainsOf(m, h, c) ==
  Result(m, h, <<<<IF SearchIndex(m, h, c.v) # -1 THEN 1 ELSE 0>>>>, {})

\* A copy made with make and copy, handed to NewIntArrayFrom: the clone
\* owns it, and nothing of it is shared with this container.
CloneOf(m, h) ==
  LET cp == Alloc(m, Elems(m, h), h.len)
  IN Result(cp.m, h, <<Elems(cp.m, cp.h)>>, {})

\* a.Append(gconv.Ints(v.Slice())...): the source is a []int (identity
\* conversion) or, with opt, the container itself, whose Slice() is read
\* before Append takes the lock.
MergeOf(m, h, c) ==
  LET src == IF c.opt THEN Elems(m, h) ELSE c.vs
      r == GoAppend(m, h, src)
  IN Result(r.m, r.h, <<>>, {})

RandOf(m, h, rnd) == Result(m, h, <<<<Elem(m, h, rnd[1])>>>>, {})

RandsSize(h, c) == IF c.i > h.len THEN h.len ELSE c.i

\* n := make([]int, size); n[i] = a.array[v] for the first size indices v
\* of grand.Perm(len), breaking when i == size-1.  With size 0 and a
\* non-empty array the first n[0] = ... is out of range, and a negative
\* size fails in make: both panic.
RandsFaults(h, c) ==
  RandsSize(h, c) < 0 \/ (RandsSize(h, c) = 0 /\ h.len > 0)

RandsOf(m, h, c, rnd) ==
  LET size == RandsSize(h, c)
      n == Make(m, size)
      m2 == StoreSeq(n.m, n.h, 0, [q \in 1..size |-> Elem(m, h, rnd[q])])
  IN Result(m2, h, <<Elems(m2, n.h)>>, {n.h})

\* for _, v := range a.array { m[v]++ }
RECURSIVE CountLoop(_, _, _, _)
CountLoop(m, h, i, cnt) ==
  IF i >= h.len THEN cnt
  ELSE LET v == Elem(m, h, i)
       IN CountLoop(m, h, i + 1,
                    IF v \in DOMAIN cnt THEN [cnt EXCEPT ![v] = @ + 1]
                    ELSE cnt @@ (v :> 1))

CountValuesOf(m, h) == Result(m, h, <<CountLoop(m, h, 0, <<>>)>>, {})

\* for k, v := range a.array { write gconv.String(v); if k != len-1 { write
\* glue } }
RECURSIVE JoinLoop(_, _, _, _, _)
JoinLoop(m, h, k, glue, buf) ==
  IF k >= h.len THEN buf
  ELSE JoinLoop(m, h, k + 1, glue,
                buf \o Itoa(Elem(m, h, k)) \o (IF k # h.len - 1 THEN glue ELSE ""))

\* Join(glue), the glue string being the call's v.
JoinOf(m, h, c) == Result(m, h, <<JoinLoop(m, h, 0, c.v, "")>>, {})

\* fmt.Sprint(a.array): "[", the elements separated by one space, "]".
StringOf(m, h) == Result(m, h, <<"[" \o JoinLoop(m, h, 0, " ", "") \o "]">>, {})

\* f(a.array) under the read lock: the callback sees the live elements.
RLockFuncOf(m, h) == Result(m, h, <<Elems(m, h)>>, {})

\* f(a.array) under the write lock, f copying vs over the slice it is
\* handed: copy stops at the slice's length, and a.array keeps its header.
LockFuncOf(m, h, c) ==
  LET n == IF Len(c.vs) > h.len THEN h.len ELSE Len(c.vs)
  IN Result(StoreSeq(m, h, 0, SubSeq(c.vs, 1, n)), h, <<>>, {})

\* for i, v := range grand.Perm(len) { a[i], a[v] = a[v], a[i] }
RECURSIVE SwapLoop(_, _, _)
SwapLoop(e, p, i) ==
  IF i > Len(p) THEN e
  ELSE SwapLoop([e EXCEPT ![i] = e[p[i] + 1], ![p[i] + 1] = e[i]], p, i + 1)

ShuffleOf(m, h, p) ==
  Result(StoreSeq(m, h, 0, SwapLoop(Elems(m, h), p, 1)), h, <<>>, {})

ReverseOf(m, h) == Result(StoreSeq(m, h, 0, Reverse(Elems(m, h))), h, <<>>, {})

(***************************************************************************)
(* The random draws a call makes: grand.Intn for PopRand and each round   *)
(* of PopRands, grand.Perm for Shuffle.                                   *)
(***************************************************************************)
Draws(c, n) ==
  LET k == IF c.i > n THEN n ELSE c.i
  IN CASE c.op \in {"PopRand", "Rand"} -> {<<x>> : x \in 0..(n - 1)}
       [] c.op = "PopRands" -> {p \in [1..k -> 0..(n - 1)] : \A q \in 1..k : p[q] <= n - q}
       [] c.op = "Rands" -> {p \in [1..k -> 0..(n - 1)] : IsInjective(p)}
       [] c.op = "Shuffle" -> {p \in [1..n -> 0..(n - 1)] : IsInjective(p)}
       [] OTHER -> {<<>>}

Run(c, m, h, rnd) ==
  CASE c.op = "Set" -> SetOf(m, h, c)
    [] c.op = "SetArray" -> SetArrayOf(m, h, c)
    [] c.op = "Replace" -> ReplaceOf(m, h, c)
    [] c.op = "Sort" -> SortOf(m, h, c)
    [] c.op = "InsertBefore" -> InsertBeforeOf(m, h, c)
    [] c.op = "InsertAfter" -> InsertAfterOf(m, h, c)
    [] c.op = "Remove" -> RemoveOf(m, h, c.i)
    [] c.op = "PushLeft" -> PushLeftOf(m, h, c)
    [] c.op \in {"PushRight", "Append"} -> PushRightOf(m, h, c)
    [] c.op = "PopLeft" -> PopLeftOf(m, h)
    [] c.op = "PopRight" -> PopRightOf(m, h)
    [] c.op = "PopRand" -> RemoveOf(m, h, rnd[1])
    [] c.op = "PopRands" -> PopRandsLoop(m, h, rnd, 1, <<>>)
    [] c.op = "PopLefts" -> PopLeftsOf(m, h, c)
    [] c.op = "PopRights" -> PopRightsOf(m, h, c)
    [] c.op = "Range" -> RangeOf(m, h, c)
    [] c.op = "SubSlice" -> SubSliceOf(m, h, c)
    [] c.op = "Slice" -> SliceOf(m, h)
    [] c.op = "Clear" -> ClearOf(m, h)
    [] c.op = "Unique" -> UniqueOf(m, h)
    [] c.op = "Fill" -> FillOf(m, h, c)
    [] c.op = "Chunk" -> ChunkOf(m, h, c)
    [] c.op = "Pad" -> PadOf(m, h, c)
    [] c.op = "Shuffle" -> ShuffleOf(m, h, rnd)
    [] c.op = "Reverse" -> ReverseOf(m, h)
    [] c.op = "Get" -> GetOf(m, h, c)
    [] c.op = "Len" -> LenOf(m, h)
    [] c.op = "Sum" -> SumOf(m, h)
    [] c.op = "SortFunc" -> SortFuncOf(m, h, c)
    [] c.op = "Search" -> SearchOf(m, h, c)
    [] c.op = "Contains" -> ContainsOf(m, h, c)
    [] c.op = "Clone" -> CloneOf(m, h)
    [] c.op = "Merge" -> MergeOf(m, h, c)
    [] c.op = "Rand" -> RandOf(m, h, rnd)
    [] c.op = "Rands" -> RandsOf(m, h, c, rnd)
    [] c.op = "CountValues" -> CountValuesOf(m, h)
    [] c.op = "Join" -> JoinOf(m, h, c)
    [] c.op = "String" -> StringOf(m, h)
    [] c.op = "RLockFunc" -> RLockFuncOf(m, h)
    [] c.op = "LockFunc" -> LockFuncOf(m, h, c)

\* PopLefts(size) slices a.array[0:size], PopRights(size) a.array[len-size:]
\* and PopRands(size) makes a slice of length size: each panics when size
\* is negative.
PopSizeFaults(c) == c.op \in {"PopLefts", "PopRights", "PopRands"} /\ c.i < 0

Faults(c, h) ==
  \/ c.op = "Range" /\ RangeFaults(h, c)
  \/ c.op = "Rands" /\ RandsFaults(h, c)
  \/ PopSizeFaults(c)

Live(h, views) == {h.arr} \cup {v.h.arr : v \in views}

(***************************************************************************)
(* The constructors.  NewIntArray() is NewIntArraySize(0, 0); sizes above  *)
(* 0, whose zeros no caller stored, are left out.  NewIntArrayFrom keeps   *)
(* the caller's slice as a.array, and the caller may keep it too;          *)
(* NewIntArrayFromCopy makes and copies, and the caller's slice, kept or  *)
(* not, is its own storage.                                                *)
(***************************************************************************)
EmptyHeap == [id \in ArrayIds |-> <<>>]

NewIntArraySize(cap) == Alloc(EmptyHeap, <<>>, cap)

CallerSlice(vs) == Alloc(EmptyHeap, vs, Len(vs))

\* The caller's slice, if it keeps one, as a held slice.
Kept(h, vs, ctor, keep) ==
  IF keep THEN {[h |-> h, snap |-> vs, op |-> ctor]} ELSE {}

Init ==
  /\ \/ \E cap \in InitCaps :
          /\ mem = NewIntArraySize(cap).m
          /\ array = NewIntArraySize(cap).h
          /\ held = {}
     \/ \E vs \in InitSlices, keep \in BOOLEAN :
          LET lit == CallerSlice(vs)
          IN /\ keep => MaxViews > 0 /\ vs # <<>>
             /\ array = lit.h
             /\ held = Kept(lit.h, vs, "NewFrom", keep)
             /\ mem = lit.m
     \/ \E vs \in InitSlices, keep \in BOOLEAN :
          LET lit == CallerSlice(vs)
              cp == Alloc(lit.m, Elems(lit.m, lit.h), Len(vs))
          IN /\ keep => MaxViews > 0 /\ vs # <<>>
             /\ array = cp.h
             /\ held = Kept(lit.h, vs, "NewFromCopy", keep)
             /\ mem = Collect(cp.m, Live(cp.h, held))
  /\ ret = <<>>
  /\ last = A!NoCall
  /\ panicked = FALSE

\* A call that returns; the caller keeps any of the slices it returned.
Call(c) ==
  /\ ~panicked
  /\ A!Pre(c, Elems(mem, array))
  /\ ~Faults(c, array)
  /\ \E rnd \in Draws(c, array.len) :
       LET r == Run(c, mem, array, rnd) IN
       /\ r.h.len <= MaxLen
       /\ \E keep \in SUBSET r.views :
            /\ Cardinality(held) + Cardinality(keep) <= MaxViews
            /\ held' = held \cup {[h |-> x, snap |-> Elems(r.m, x), op |-> c.op] : x \in keep}
            /\ mem' = Collect(r.m, Live(r.h, held'))
       /\ array' = r.h
       /\ ret' = r.out
       /\ last' = c
       /\ UNCHANGED panicked

\* A call that panics: the program stops with the container as it was,
\* and the call returns nothing.
CallPanics(c) ==
  /\ ~panicked
  /\ A!Pre(c, Elems(mem, array))
  /\ Faults(c, array)
  /\ panicked' = TRUE
  /\ UNCHANGED <<mem, array, held, ret, last>>

\* The caller lets go of a slice it kept; its array may be collected.
Drop(v) ==
  /\ held' = held \ {v}
  /\ mem' = Collect(mem, Live(array, held'))
  /\ UNCHANGED <<array, ret, last, panicked>>

Next ==
  \/ \E c \in Calls : Call(c) \/ CallPanics(c)
  \/ \E v \in held : Drop(v)

Spec == Init /\ [][Next]_vars

(***************************************************************************)
(* Properties                                                              *)
(***************************************************************************)
Cells == Values \cup {0}

\* Calls whose result is a count, an index, a flag or a map, not elements.
ScalarOps == {"Len", "Sum", "Search", "Contains", "CountValues", "Join", "String"}

HeaderOK(h) ==
  /\ h.len <= h.cap
  /\ h.arr = NoArray => h.cap = 0
  /\ h.arr # NoArray => h.off + h.cap = Len(mem[h.arr])

\* Every slice header, the container's and the caller's, lies within its
\* backing array with its length within its capacity, and the container
\* and every call return only values callers stored: no zero value of a
\* make() or of spare capacity leaks into a.array or a result.
TypeOK ==
  /\ mem \in [ArrayIds -> Seq(Cells)]
  /\ array.len \in 0..MaxLen
  /\ Elems(mem, array) \in Seq(Values)
  /\ last.op \notin ScalarOps => ret \in Seq(Seq(Values))
  /\ HeaderOK(array)
  /\ \A v \in held : HeaderOK(v.h) /\ v.op \in {c.op : c \in Calls} \cup {"NewFrom", "NewFromCopy"}
  /\ panicked \in BOOLEAN

\* The Go-slice implementation of every method implements the contract of
\* spec section 4.2: the elements a.array holds, and what each call
\* returns, are those SeqContainer allows for the same call.
Refines == A!InitFrom({<<>>} \cup InitSlices) /\ [][A!Next]_A!vars

\* In safe mode the slices Range, SubSlice and Slice return are copies,
\* PopLefts returns elements below a.array's new start that no later
\* append or store reaches, and the slice a caller gave NewIntArrayFromCopy
\* is not the container's: later calls on the container never change
\* what the caller holds.
DetachedResultsStable ==
  Safe => \A v \in held :
            v.op \in {"Range", "SubSlice", "Slice", "PopLefts", "NewFromCopy"} =>
              Elems(mem, v.h) = v.snap

\* In safe mode a slice any method returned (popped elements, chunks,
\* copies) keeps the elements it was returned with, whatever the caller
\* does with the container afterwards.  The slices SetArray and
\* NewIntArrayFrom take are excluded: the caller shares them with the
\* container on purpose.
SafeResultsStable ==
  Safe => \A v \in held : v.op \notin {"SetArray", "NewFrom"} => Elems(mem, v.h) = v.snap
=============================================================================
