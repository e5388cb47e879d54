-------------------------- MODULE SortedStringArray --------------------------
(***************************************************************************)
(* garray.SortedStringArray (src/g/container/garray/                       *)
(* garray_sorted_string.go) shared by several goroutines.                  *)
(*                                                                         *)
(* State: the backing slice a.array, the flag a.unique (a gtype.Bool whose *)
(* Val and Set are separate atomic operations), the lock a.mu, and per     *)
(* goroutine the program counter of the call it is in.                     *)
(*                                                                         *)
(* Granularity.  A method that holds a.mu for its whole body is two steps: *)
(* the call with a.mu.Lock()/RLock(), then the body with the unlock.  The  *)
(* steps of a method that reads state before it takes the lock (PopRand,   *)
(* Search's length check, SetUnique) are separate actions, so other        *)
(* goroutines run between them.  In unsafe mode the lock is a no-op and    *)
(* bodies would race; the model then allows one goroutine only, which is   *)
(* the usage the spec permits (section 5).                                 *)
(*                                                                         *)
(* Data.  Strings are abstracted to naturals: strings.Compare only orders  *)
(* them, and < on Values is that order.  A Go panic (index out of range)  *)
(* ends the goroutine: its pc becomes "dead"; locks released by a deferred *)
(* Unlock are released, others stay held.                                  *)
(*                                                                         *)
(* Callers respect the documented preconditions (0 <= index < len for      *)
(* Remove, a non-empty array for PopLeft/PopRight/PopRand) at the moment   *)
(* their call starts; what the container does after that is the code's.   *)
(***************************************************************************)
EXTENDS Integers, Sequences, SequencesExt, FiniteSets, Bags, TLC

CONSTANTS
  Threads,    \* goroutines
  Values,     \* element values (naturals standing for strings)
  MaxLen,     \* bound: calls that would grow the array past MaxLen are not made
  MaxArgLen,  \* bound: length of argument slices and of size arguments
  Safe,       \* lock mode chosen at construction
  NoThread,   \* model value
  Ops,        \* method names the goroutines call in this configuration
  ReadCalls   \* the read calls goroutines make, in SeqContainer's shape

ASSUME Values \subseteq 0..9 /\ MaxLen \in Nat /\ MaxArgLen \in Nat
ASSUME Safe \/ Cardinality(Threads) = 1

VARIABLES
  array,   \* a.array
  unique,  \* a.unique.Val()
  mu,      \* a.mu
  pc,      \* per goroutine: where it is in its current call
  call,    \* per goroutine: the method and argument of its current call
  idx,     \* per goroutine: the index PopRand drew before locking
  oldUnique, \* per goroutine: the flag SetUnique read before setting it
  ret,     \* per goroutine: the value the last Search returned
  rcall    \* per goroutine: the read call it is in

vars == <<array, unique, mu, pc, call, idx, oldUnique, ret, rcall>>

Lk == INSTANCE RWMutex

\* The string a natural stands for: its one decimal digit, so that
\* strings.Compare orders the strings as < orders Values and gconv.Int
\* (Sum) reads each string back as its value.
Text(v) == <<"0", "1", "2", "3", "4", "5", "6", "7", "8", "9">>[v + 1]

\* The contract of section 4.2, for its calls' shape and its outcomes.
S == INSTANCE SeqContainer WITH Calls <- ReadCalls, seq <- array, out <- <<>>,
                                last <- rcall, Format <- Text

\* A call: method name, slice argument, integer argument, boolean argument.
CallOf(op, vals, n, u) == [op |-> op, vals |-> vals, n |-> n, u |-> u]
NoCall == CallOf("none", <<>>, 0, FALSE)

PCs == {"idle", "body", "poprand", "su_set", "su_unique", "search_lock",
        "search_body", "read_body", "merge_add", "dead"}

-----------------------------------------------------------------------------
(* The method bodies, as operators on the slice.  Go indexes are 0-based;  *)
(* element a.array[i] is arr[i + 1].                                       *)

\* NewSortedStringArraySize's comparator: strings.Compare(v1, v2).
comparator(v1, v2) == IF v1 < v2 THEN -1 ELSE IF v1 > v2 THEN 1 ELSE 0

\* The loop of binSearch: it returns the last compared index and result.
RECURSIVE binLoop(_, _, _, _, _, _)
binLoop(arr, value, min, max, mid, cmp) ==
  IF min > max THEN <<mid, cmp>>
  ELSE LET m == (min + max) \div 2
           c == comparator(value, arr[m + 1])
       IN  CASE c < 0 -> binLoop(arr, value, min, m - 1, m, c)
             [] c > 0 -> binLoop(arr, value, m + 1, max, m, c)
             [] OTHER -> <<m, c>>

\* binSearch(value): <<-1, -2>> on an empty array.
binSearch(arr, value) ==
  IF Len(arr) = 0 THEN <<-1, -2>>
  ELSE binLoop(arr, value, 0, Len(arr) - 1, 0, -2)

\* Mutants of AddOne (plausible bugs, each must break a property):
\* the index++ for a value that sorts after the compared element dropped,
AddOneNoIncrement(arr, value, uniq) ==
  LET r == binSearch(arr, value) IN
  IF uniq /\ r[2] = 0 THEN arr
  ELSE IF r[1] < 0 THEN Append(arr, value)
  ELSE SubSeq(arr, 1, r[1]) \o <<value>> \o SubSeq(arr, r[1] + 1, Len(arr))
\* and the unique check dropped.
AddOneIgnoresUnique(arr, value, uniq) ==
  LET r     == binSearch(arr, value)
      index == IF r[2] > 0 THEN r[1] + 1 ELSE r[1]
  IN  IF r[1] < 0 THEN Append(arr, value)
      ELSE SubSeq(arr, 1, index) \o <<value>> \o SubSeq(arr, index + 1, Len(arr))

\* One iteration of Add's loop: skip an equal value when unique, append to
\* an empty array, else splice before or after the compared index.
AddOne(arr, value, uniq) ==
  LET r     == binSearch(arr, value)
      index == IF r[2] > 0 THEN r[1] + 1 ELSE r[1]
  IN  IF uniq /\ r[2] = 0 THEN arr
      ELSE IF r[1] < 0 THEN Append(arr, value)
      ELSE SubSeq(arr, 1, index) \o <<value>> \o SubSeq(arr, index + 1, Len(arr))

\* Mutant of RemoveIndex: the index-0 branch trims the wrong end.
RemoveIndexWrongEnd(arr, index) ==
  CASE index = 0           -> SubSeq(arr, 1, Len(arr) - 1)
    [] index = Len(arr) - 1 -> SubSeq(arr, 1, index)
    [] OTHER               -> SubSeq(arr, 1, index) \o SubSeq(arr, index + 2, Len(arr))

\* Remove(index): boundary trims for the first and last index, a splice
\* otherwise.  It panics when index >= len(a.array).
RemoveFaults(arr, index) == index >= Len(arr)
RemoveIndex(arr, index) ==
  CASE index = 0           -> Tail(arr)
    [] index = Len(arr) - 1 -> SubSeq(arr, 1, index)
    [] OTHER               -> SubSeq(arr, 1, index) \o SubSeq(arr, index + 2, Len(arr))

\* PopLefts(size) / PopRights(size), size clamped to the length.
PopLeftsOf(arr, size) ==
  LET n == IF size > Len(arr) THEN Len(arr) ELSE size
  IN  SubSeq(arr, n + 1, Len(arr))
PopRightsOf(arr, size) ==
  LET index == IF Len(arr) - size < 0 THEN 0 ELSE Len(arr) - size
  IN  SubSeq(arr, 1, index)

\* PopRands(size): size times, remove the element at a random index.
RECURSIVE popRandsLoop(_, _)
popRandsLoop(arr, n) ==
  IF n = 0 THEN {arr}
  ELSE UNION {popRandsLoop(RemoveAt(arr, i), n - 1) : i \in 1..Len(arr)}
PopRandsOf(arr, size) ==
  popRandsLoop(arr, IF size > Len(arr) THEN Len(arr) ELSE size)

\* Unique(): i stops at len-1; equal neighbours are removed in place.  On
\* an empty array i = 0 never equals -1 and a.array[0] panics.
UniqueFaults(arr) == Len(arr) = 0
RECURSIVE uniqueLoop(_, _)
uniqueLoop(arr, i) ==
  IF i = Len(arr) - 1 THEN arr
  ELSE IF comparator(arr[i + 1], arr[i + 2]) = 0
       THEN uniqueLoop(SubSeq(arr, 1, i + 1) \o SubSeq(arr, i + 3, Len(arr)), i)
       ELSE uniqueLoop(arr, i + 1)

\* PopLeft / PopRight on a non-empty array (the caller's precondition).
PopLeftOf(arr) == Tail(arr)
PopRightOf(arr) == SubSeq(arr, 1, Len(arr) - 1)

\* Clear(): a fresh empty slice when the array is not empty.
ClearOf(arr) == IF Len(arr) > 0 THEN <<>> ELSE arr

\* sort.Strings, used by Sort and SetArray.
sortStrings(arr) == SortSeq(arr, <)

\* NewSortedStringArrayFrom(array): the caller's slice becomes a.array,
\* sorted in place; NewSortedStringArrayFromCopy sorts a copy of it.
NewFrom(vals) == sortStrings(vals)

\* SetArray(array): the caller's slice becomes a.array, sorted in place.
SetArrayOf(vals) == sortStrings(vals)

\* Mutant of SearchResult: the exact-match test dropped.
SearchResultAnyIndex(r) == r[1]

\* Search(value): the index binSearch found if the comparison was exact.
SearchResult(r) == IF r[2] = 0 THEN r[1] ELSE -1

-----------------------------------------------------------------------------
(* The read methods, on calls of the contract's shape [op, i, j, v, vs,    *)
(* opt] (module SeqContainer).  A read returns a sequence of returned      *)
(* slices; a single value v is <<<<v>>>>, nil and an empty slice are <<>>. *)
(* Values stand for one-digit strings, so gconv.Int(v) is v.              *)

\* Get(index): a.array[index].
GetOf(arr, c) == <<<<arr[c.i + 1]>>>>

\* Range(start, end?): the effective end is end when given and below the
\* length; nil if start exceeds it, else a copy from max(start, 0).
RangeEnd(arr, c) == IF c.opt /\ c.j < Len(arr) THEN c.j ELSE Len(arr)
RangeFaults(arr, c) == c.i <= RangeEnd(arr, c) /\ RangeEnd(arr, c) < 0
RangeOf(arr, c) ==
  LET start == IF c.i < 0 THEN 0 ELSE c.i
  IN IF c.i > RangeEnd(arr, c) THEN <<<<>>>>
     ELSE <<SubSeq(arr, start + 1, RangeEnd(arr, c))>>

\* SubSlice(offset, length?): a negative offset counts from the end, a
\* negative size moves the offset left by |size|; nil when either leaves
\* the offset below 0 or the offset is past the end; the size is clamped.
SubSliceOf(arr, c) ==
  LET n     == Len(arr)
      size0 == IF c.opt THEN c.j ELSE n
      off1  == IF c.i < 0 THEN n + c.i ELSE c.i
      off2  == IF size0 < 0 THEN off1 + size0 ELSE off1
      size1 == IF size0 < 0 THEN -size0 ELSE size0
      size  == IF off2 + size1 > n THEN n - off2 ELSE size1
  IN IF c.i > n \/ off1 < 0 \/ off2 < 0 THEN <<<<>>>>
     ELSE <<SubSeq(arr, off2 + 1, off2 + size)>>

\* Mutant of ChunkOf: math.Floor in place of math.Ceil, dropping the short
\* last chunk.
ChunkOfFloor(arr, size) ==
  [k \in 1..(Len(arr) \div size) |->
     SubSeq(arr, (k - 1) * size + 1, IF k * size > Len(arr) THEN Len(arr) ELSE k * size)]

\* Chunk(size), size >= 1: ceil(length/size) windows a.array[i*size:end],
\* end clamped to the length.
ChunkOf(arr, size) ==
  [k \in 1..((Len(arr) + size - 1) \div size) |->
     SubSeq(arr, (k - 1) * size + 1, IF k * size > Len(arr) THEN Len(arr) ELSE k * size)]

\* Rands(size): size clamped to the length; the first size entries of
\* grand.Perm(len) pick the elements.  The loop writes n[0] before it
\* tests i == size-1, so a size of 0 on a non-empty array panics, and
\* make panics on a negative size.
RandsFaults(arr, c) == c.i < 0 \/ (c.i = 0 /\ Len(arr) > 0)
RandsOf(arr, c) ==
  LET k == IF c.i > Len(arr) THEN Len(arr) ELSE c.i
  IN {<<[q \in 1..k |-> arr[p[q]]]>> : p \in Injection(1..k, 1..Len(arr))}

\* Rand(): a.array[grand.Intn(len)], any element.
RandOf(arr) == {<<<<arr[p]>>>> : p \in 1..Len(arr)}

\* Clone(): a copy of a.array made under the read lock, which
\* NewSortedStringArrayFrom sorts again.  The new container's unique flag
\* is a fresh gtype.Bool (false); the model keeps only the contents.
CloneOf(arr) == <<sortStrings(arr)>>

\* CountValues(): m[v]++ for every element.
CountValuesOf(arr) ==
  <<[v \in ToSet(arr) |-> Cardinality({p \in 1..Len(arr) : arr[p] = v})]>>

\* for k, v := range a.array { write gconv.String(v), v itself; if k !=
\* len-1 { write glue } }
RECURSIVE JoinLoop(_, _, _, _)
JoinLoop(arr, k, glue, buf) ==
  IF k >= Len(arr) THEN buf
  ELSE JoinLoop(arr, k + 1, glue,
                buf \o Text(arr[k + 1]) \o (IF k # Len(arr) - 1 THEN glue ELSE ""))

\* fmt.Sprint(a.array): "[", the strings separated by one space, "]".
StringOf(arr) == <<"[" \o JoinLoop(arr, 0, " ", "") \o "]">>

\* What a read can return under the read lock (Rand and Rands draw from
\* grand).  Clone copies a.array and NewSortedStringArrayFrom sorts the
\* copy; RLockFunc's callback is handed a.array, which is what it sees.
ReadResults(c, arr) ==
  CASE c.op = "Get"         -> {GetOf(arr, c)}
    [] c.op = "Len"         -> {<<<<Len(arr)>>>>}
    [] c.op = "Sum"         -> {<<<<FoldLeft(+, 0, arr)>>>>}
    [] c.op = "Range"       -> {RangeOf(arr, c)}
    [] c.op = "SubSlice"    -> {SubSliceOf(arr, c)}
    [] c.op = "Slice"       -> {<<arr>>}
    [] c.op = "Clone"       -> {CloneOf(arr)}
    [] c.op = "Chunk"       -> {ChunkOf(arr, c.i)}
    [] c.op = "Rand"        -> RandOf(arr)
    [] c.op = "Rands"       -> RandsOf(arr, c)
    [] c.op = "CountValues" -> {CountValuesOf(arr)}
    [] c.op = "RLockFunc"   -> {<<arr>>}
    [] c.op = "Join"        -> {<<JoinLoop(arr, 0, c.v, "")>>}
    [] c.op = "String"      -> {StringOf(arr)}

\* A read body panics: Range with a negative effective end, Rands(0).
ReadFaults(c, arr) ==
  \/ c.op = "Range" /\ RangeFaults(arr, c)
  \/ c.op = "Rands" /\ RandsFaults(arr, c)

\* The arrays an exclusive-lock body can leave, for a call that does not
\* panic.  Merge hands its converted values to Add; LockFunc's callback is
\* handed a.array and is taken to read it only.
Results(c, arr, uniq) ==
  CASE c.op \in {"Add", "Merge"} -> {arr}   \* its loop ran as AddValue steps
    [] c.op = "LockFunc"  -> {arr}
    [] c.op = "Remove"    -> {RemoveIndex(arr, c.n)}
    [] c.op = "PopLeft"   -> {PopLeftOf(arr)}
    [] c.op = "PopRight"  -> {PopRightOf(arr)}
    [] c.op = "PopLefts"  -> {PopLeftsOf(arr, c.n)}
    [] c.op = "PopRights" -> {PopRightsOf(arr, c.n)}
    [] c.op = "PopRands"  -> PopRandsOf(arr, c.n)
    [] c.op = "Clear"     -> {ClearOf(arr)}
    [] c.op = "Sort"      -> {sortStrings(arr)}
    [] c.op = "SetArray"  -> {SetArrayOf(c.vals)}
    [] c.op \in {"Unique", "SetUnique.Unique"} -> {uniqueLoop(arr, 0)}

\* A body panics: Remove on a stale index (reached through PopRand), Unique
\* on an empty array.
Faults(c, arr) ==
  \/ c.op = "Remove" /\ RemoveFaults(arr, c.n)
  \/ c.op \in {"Unique", "SetUnique.Unique"} /\ UniqueFaults(arr)

\* Unique() calls a.mu.Unlock() at its end, not deferred: a panic keeps it.
DefersUnlock(c) == c.op \notin {"Unique", "SetUnique.Unique"}

-----------------------------------------------------------------------------
(* The calls a goroutine can make to an exclusive-lock method.  Add with   *)
(* no values returns before locking and changes nothing, so it is left    *)
(* out, and so is a Merge of an empty []string, which is that Add.        *)
WriteCalls ==
  LET C(ops, vs, ns) == [op : ops, vals : vs, n : ns, u : {FALSE}] IN
     C({"Add", "Merge"}, {s \in SeqOf(Values, MaxArgLen) : s # <<>>}, {0})
  \cup C({"Remove"}, {<<>>}, 0..(MaxLen - 1))
  \cup C({"PopLeft", "PopRight", "Clear", "Sort", "Unique", "LockFunc"}, {<<>>}, {0})
  \cup C({"PopLefts", "PopRights", "PopRands"}, {<<>>}, 0..MaxArgLen)
  \cup C({"SetArray"}, SeqOf(Values, MaxArgLen), {0})

\* The caller's precondition and the model's length bound, at call time.
Pre(c, arr) ==
  CASE c.op \in {"Add", "Merge"} -> Len(arr) + Len(c.vals) <= MaxLen
    [] c.op = "Remove"   -> c.n < Len(arr)
    [] c.op \in {"PopLeft", "PopRight"} -> Len(arr) > 0
    [] OTHER             -> TRUE

Return(t) ==
  /\ pc' = [pc EXCEPT ![t] = "idle"]
  /\ call' = [call EXCEPT ![t] = NoCall]
  /\ idx' = [idx EXCEPT ![t] = 0]
  /\ oldUnique' = [oldUnique EXCEPT ![t] = FALSE]

Init ==
  \* NewSortedStringArray() (the empty slice), or NewSortedStringArrayFrom
  \* or NewSortedStringArrayFromCopy of a slice.
  /\ array \in {NewFrom(v) : v \in SeqOf(Values, MaxArgLen)}
  /\ unique = FALSE               \* gtype.NewBool()
  /\ mu = Lk!Unlocked
  /\ pc = [t \in Threads |-> "idle"]
  /\ call = [t \in Threads |-> NoCall]
  /\ idx = [t \in Threads |-> 0]
  /\ oldUnique = [t \in Threads |-> FALSE]
  /\ ret = [t \in Threads |-> -1]
  /\ rcall = [t \in Threads |-> S!NoCall]

\* Add, Remove, PopLeft, PopRight, PopLefts, PopRights, PopRands, Clear,
\* Sort, SetArray, Unique: the call and a.mu.Lock().
Begin(t, c) ==
  /\ pc[t] = "idle"
  /\ c.op \in Ops
  /\ Pre(c, array)
  /\ Lk!Lock(t)
  /\ pc' = [pc EXCEPT ![t] = "body"]
  /\ call' = [call EXCEPT ![t] = c]
  /\ UNCHANGED <<array, unique, idx, oldUnique, ret, rcall>>

\* The body under the exclusive lock, then a.mu.Unlock().
Finish(t) ==
  /\ pc[t] = "body"
  /\ call[t].op \in {"Add", "Merge"} => call[t].vals = <<>>
  /\ ~Faults(call[t], array)
  /\ array' \in Results(call[t], array, unique)
  /\ Lk!Unlock(t)
  /\ Return(t)
  /\ UNCHANGED <<unique, ret, rcall>>

\* One iteration of Add's loop, in the caller's order: a.unique.Val() is
\* read afresh for every value, and SetUnique writes it without a.mu, so
\* the flag can change between two values of one Add.
AddValue(t) ==
  /\ pc[t] = "body"
  /\ call[t].op \in {"Add", "Merge"}
  /\ call[t].vals # <<>>
  /\ array' = AddOne(array, Head(call[t].vals), unique)
  /\ call' = [call EXCEPT ![t].vals = Tail(call[t].vals)]
  /\ UNCHANGED <<unique, mu, pc, idx, oldUnique, ret, rcall>>

\* The body panics; only a deferred Unlock releases the lock.
Panic(t) ==
  /\ pc[t] = "body"
  /\ Faults(call[t], array)
  /\ IF DefersUnlock(call[t]) THEN Lk!Unlock(t) ELSE UNCHANGED mu
  /\ pc' = [pc EXCEPT ![t] = "dead"]
  /\ UNCHANGED <<array, unique, call, idx, oldUnique, ret, rcall>>

\* PopRand: grand.Intn(len(a.array)) is evaluated without the lock ...
PopRand(t) ==
  /\ pc[t] = "idle"
  /\ "PopRand" \in Ops
  /\ Len(array) > 0
  /\ \E i \in 0..(Len(array) - 1) : idx' = [idx EXCEPT ![t] = i]
  /\ pc' = [pc EXCEPT ![t] = "poprand"]
  /\ call' = [call EXCEPT ![t] = CallOf("PopRand", <<>>, 0, FALSE)]
  /\ UNCHANGED <<array, unique, mu, oldUnique, ret, rcall>>

\* ... then a.Remove(index) locks and removes at that index.
PopRandRemove(t) ==
  /\ pc[t] = "poprand"
  /\ Lk!Lock(t)
  /\ pc' = [pc EXCEPT ![t] = "body"]
  /\ call' = [call EXCEPT ![t] = CallOf("Remove", <<>>, idx[t], FALSE)]
  /\ UNCHANGED <<array, unique, idx, oldUnique, ret, rcall>>

\* SetUnique(u): oldUnique := a.unique.Val() ...
SetUnique(t, u) ==
  /\ pc[t] = "idle"
  /\ "SetUnique" \in Ops
  /\ oldUnique' = [oldUnique EXCEPT ![t] = unique]
  /\ pc' = [pc EXCEPT ![t] = "su_set"]
  /\ call' = [call EXCEPT ![t] = CallOf("SetUnique", <<>>, 0, u)]
  /\ UNCHANGED <<array, unique, mu, idx, ret, rcall>>

\* ... a.unique.Set(u); if u && oldUnique != u then a.Unique() ...
SetUniqueSet(t) ==
  LET u == call[t].u IN
  /\ pc[t] = "su_set"
  /\ unique' = u
  /\ IF u /\ oldUnique[t] # u
     THEN /\ pc' = [pc EXCEPT ![t] = "su_unique"]
          /\ UNCHANGED <<call, idx, oldUnique>>
     ELSE Return(t)
  /\ UNCHANGED <<array, mu, ret, rcall>>

\* ... and Unique() takes the lock; its body is Finish or Panic.
SetUniqueUnique(t) ==
  /\ pc[t] = "su_unique"
  /\ Lk!Lock(t)
  /\ pc' = [pc EXCEPT ![t] = "body"]
  /\ call' = [call EXCEPT ![t] = CallOf("SetUnique.Unique", <<>>, 0, FALSE)]
  /\ UNCHANGED <<array, unique, idx, oldUnique, ret, rcall>>

\* Search(v) calls binSearch(v, true), which tests len(a.array) == 0
\* before it takes the read lock and then returns -1 at once.
Search(t, v) ==
  /\ pc[t] = "idle"
  /\ "Search" \in Ops
  /\ \/ /\ Len(array) = 0
        /\ ret' = [ret EXCEPT ![t] = -1]
        /\ UNCHANGED <<pc, call>>
     \/ /\ Len(array) > 0
        /\ pc' = [pc EXCEPT ![t] = "search_lock"]
        /\ call' = [call EXCEPT ![t] = CallOf("Search", <<>>, v, FALSE)]
        /\ UNCHANGED ret
  /\ UNCHANGED <<array, unique, mu, idx, oldUnique, rcall>>

SearchRLock(t) ==
  /\ pc[t] = "search_lock"
  /\ Lk!RLock(t)
  /\ pc' = [pc EXCEPT ![t] = "search_body"]
  /\ UNCHANGED <<array, unique, call, idx, oldUnique, ret, rcall>>

\* The search loop under the read lock, then the deferred RUnlock.
SearchFinish(t) ==
  /\ pc[t] = "search_body"
  /\ ret' = [ret EXCEPT ![t] = SearchResult(binSearch(array, call[t].n))]
  /\ Lk!RUnlock(t)
  /\ Return(t)
  /\ UNCHANGED <<array, unique, rcall>>

\* Get, Len, Sum, Range, SubSlice, Slice, Clone, Chunk, Rand, Rands,
\* CountValues, RLockFunc: the call and a.mu.RLock().  Chunk with a size
\* below 1 returns nil before locking.
ReadBegin(t, c) ==
  /\ pc[t] = "idle"
  /\ c.op \in Ops
  /\ S!Pre(c, array)
  /\ \/ /\ c.op = "Chunk" /\ c.i < 1
        /\ UNCHANGED <<mu, pc, rcall>>
     \/ /\ ~(c.op = "Chunk" /\ c.i < 1)
        /\ Lk!RLock(t)
        /\ pc' = [pc EXCEPT ![t] = "read_body"]
        /\ rcall' = [rcall EXCEPT ![t] = c]
  /\ UNCHANGED <<array, unique, call, idx, oldUnique, ret>>

\* The read body, returning one of ReadResults(rcall[t], array) to the
\* caller, then the (deferred) RUnlock.
ReadFinish(t) ==
  /\ pc[t] = "read_body"
  /\ ~ReadFaults(rcall[t], array)
  /\ Lk!RUnlock(t)
  /\ pc' = [pc EXCEPT ![t] = "idle"]
  /\ rcall' = [rcall EXCEPT ![t] = S!NoCall]
  /\ UNCHANGED <<array, unique, call, idx, oldUnique, ret>>

\* A read body panics; its RUnlock is deferred and runs.
ReadPanic(t) ==
  /\ pc[t] = "read_body"
  /\ ReadFaults(rcall[t], array)
  /\ Lk!RUnlock(t)
  /\ pc' = [pc EXCEPT ![t] = "dead"]
  /\ UNCHANGED <<array, unique, call, idx, oldUnique, ret, rcall>>

\* Merge(a) with the container itself as source: v.Slice() copies a.array
\* under the read lock and releases it ...
MergeSlice(t) ==
  /\ pc[t] = "idle"
  /\ "Merge" \in Ops
  /\ Lk!IsSafe => mu.writer = NoThread
  /\ pc' = [pc EXCEPT ![t] = "merge_add"]
  /\ call' = [call EXCEPT ![t] = CallOf("Merge", array, 0, FALSE)]
  /\ UNCHANGED <<array, unique, mu, idx, oldUnique, ret, rcall>>

\* ... then a.Add(copy...) returns at once for an empty copy, or takes the
\* write lock; its body is Finish.  An Add past MaxLen is not made.
MergeAdd(t) ==
  /\ pc[t] = "merge_add"
  /\ \/ /\ call[t].vals = <<>>
        /\ Return(t)
        /\ UNCHANGED mu
     \/ /\ call[t].vals # <<>>
        /\ Pre(call[t], array)
        /\ Lk!Lock(t)
        /\ pc' = [pc EXCEPT ![t] = "body"]
        /\ UNCHANGED <<call, idx, oldUnique>>
  /\ UNCHANGED <<array, unique, ret, rcall>>

Next ==
  \E t \in Threads :
    \/ \E c \in WriteCalls : Begin(t, c)
    \/ AddValue(t)
    \/ Finish(t)
    \/ Panic(t)
    \/ PopRand(t)
    \/ PopRandRemove(t)
    \/ \E u \in BOOLEAN : SetUnique(t, u)
    \/ SetUniqueSet(t)
    \/ SetUniqueUnique(t)
    \/ \E v \in Values : Search(t, v)
    \/ SearchRLock(t)
    \/ SearchFinish(t)
    \/ \E c \in ReadCalls : ReadBegin(t, c)
    \/ ReadFinish(t)
    \/ ReadPanic(t)
    \/ MergeSlice(t)
    \/ MergeAdd(t)

\* Goroutines need not call anything, but a call in progress keeps running:
\* its unlocked steps and bodies are weakly fair, and a blocked Lock/RLock
\* is eventually granted (sync.RWMutex blocks new readers once a writer
\* waits, and sync.Mutex hands off to a starving waiter).
Fairness ==
  \A t \in Threads :
    /\ WF_vars(AddValue(t)) /\ WF_vars(Finish(t)) /\ WF_vars(Panic(t)) /\ WF_vars(SetUniqueSet(t))
    /\ WF_vars(SearchFinish(t)) /\ WF_vars(ReadFinish(t)) /\ WF_vars(ReadPanic(t))
    /\ SF_vars(PopRandRemove(t)) /\ SF_vars(SetUniqueUnique(t))
    /\ SF_vars(SearchRLock(t)) /\ SF_vars(MergeAdd(t))

Spec == Init /\ [][Next]_vars
FairSpec == Spec /\ Fairness

-----------------------------------------------------------------------------
(* Properties.                                                             *)

\* Types, and the lock held only by goroutines inside a body (or dead
\* inside Unique, whose Unlock is not deferred).
TypeOK ==
  /\ array \in Seq(Values) /\ Len(array) <= MaxLen
  /\ unique \in BOOLEAN
  /\ pc \in [Threads -> PCs]
  /\ ret \in [Threads -> -1..(MaxLen - 1)]
  /\ Lk!TypeOK
  /\ \A t \in Threads :
       /\ mu.writer = t => pc[t] \in {"body", "dead"}
       /\ t \in mu.readers => pc[t] \in {"search_body", "read_body"}
       /\ pc[t] = "read_body" => rcall[t] \in ReadCalls

\* Spec 4.3 / 8: after every call, and whatever other goroutines do, the
\* array is sorted by the comparator.  It rests on Add's binary-search
\* insertion point (binSearch's last index and comparison, index++ when the
\* value sorts after it) and on removals never reordering.
Sorted == IsSorted(array, <=)

\* Every exclusive-lock step changes the multiset of elements exactly as
\* its method says.  Each iteration of Add's loop inserts its value once,
\* unless the flag it reads at that moment is set and the value is present;
\* the flag may differ between the values of one Add when a SetUnique runs
\* alongside.  At the unlock: Add changes nothing more, Remove(i) takes the
\* element at i, PopLefts/PopRights the first/last min(size, len), PopRands
\* that many of them, Unique only duplicates, Sort nothing, SetArray
\* replaces the contents.
AddStep(t) ==
  /\ pc[t] = "body" /\ pc'[t] = "body"
  /\ call[t].op \in {"Add", "Merge"}
  /\ call'[t] # call[t]

ElementsAccounted ==
  [][\A t \in Threads :
       /\ AddStep(t) =>
            LET v == Head(call[t].vals) IN
            ToBag(array') = IF unique /\ v \in ToSet(array)
                            THEN ToBag(array)
                            ELSE ToBag(array) (+) SetToBag({v})
       /\ (pc[t] = "body" /\ pc'[t] = "idle") =>
          LET c == call[t]
              B == ToBag(array)
              n == IF c.op \in {"PopLefts", "PopRights", "PopRands"}
                   THEN IF c.n > Len(array) THEN Len(array) ELSE c.n
                   ELSE 0
          IN CASE c.op \in {"Add", "Merge"} -> array' = array
               [] c.op = "Remove"    -> B = ToBag(array') (+) SetToBag({array[c.n + 1]})
               [] c.op = "PopLeft"   -> B = ToBag(array') (+) SetToBag({array[1]})
               [] c.op = "PopRight"  -> B = ToBag(array') (+) SetToBag({array[Len(array)]})
               [] c.op = "PopLefts"  -> B = ToBag(array') (+) ToBag(SubSeq(array, 1, n))
               [] c.op = "PopRights" ->
                    B = ToBag(array') (+) ToBag(SubSeq(array, Len(array) - n + 1, Len(array)))
               [] c.op = "PopRands"  ->
                    Len(array') = Len(array) - n /\ ToBag(array') \sqsubseteq B
               [] c.op \in {"Unique", "SetUnique.Unique"} ->
                    ToBag(array') = SetToBag(ToSet(array))
               [] c.op = "SetArray"  -> ToBag(array') = ToBag(c.vals)
               [] c.op = "Clear"     -> array' = <<>>
               [] c.op = "LockFunc"  -> array' = array
               [] c.op = "Sort"      -> ToBag(array') = B
    ]_vars

\* Spec 8: Search(v) returns an index holding v iff v is in the array (at
\* the moment it searched under the read lock), otherwise -1.
SearchCorrect ==
  [][\A t \in Threads :
       (pc[t] = "search_body" /\ pc'[t] = "idle") =>
         IF \E i \in 1..Len(array) : array[i] = call[t].n
         THEN ret'[t] \in 0..(Len(array) - 1) /\ array[ret'[t] + 1] = call[t].n
         ELSE ret'[t] = -1
    ]_vars

\* Spec 4.2 and 4.3 (reads behave as in 4.2, under the shared lock): every
\* result a read can return is one the contract allows for the array as it
\* is while the read holds the lock, whatever writers ran before:
\* Range and SubSlice clamp their windows, Chunk makes ceil(len/size)
\* windows, Rands samples without replacement, Clone and Slice copy, Join
\* puts its glue between neighbours only, and RLockFunc's callback sees
\* the elements.
ReadsMeetContract ==
  [][\A t \in Threads :
       (pc[t] = "read_body" /\ pc'[t] = "idle") =>
         \A r \in ReadResults(rcall[t], array) :
           S!Outcome(array, r) \in S!Outcomes(rcall[t], array)
    ]_vars

\* A SetUnique(true) call is between reading the flag and finishing its
\* dedup pass.
SettingUnique ==
  \E t \in Threads :
    \/ pc[t] = "su_set" /\ call[t].op = "SetUnique" /\ call[t].u
    \/ pc[t] = "su_unique"
    \/ pc[t] = "body" /\ call[t].op = "SetUnique.Unique"

\* Spec 3: while uniqueness is on (and no SetUnique(true) is still
\* deduplicating), no two adjacent elements compare equal.
UniqueHonoured == (unique /\ ~SettingUnique) => IsSorted(array, <)

\* No goroutine panics inside the container.
NoPanic == \A t \in Threads : pc[t] # "dead"

\* Every call returns or panics: no goroutine is blocked forever.
CallsComplete == \A t \in Threads : pc[t] # "idle" ~> pc[t] \in {"idle", "dead"}
=============================================================================
