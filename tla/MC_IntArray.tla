----------------------------- MODULE MC_IntArray -----------------------------
(***************************************************************************)
(* Instances of IntArray for TLC: ints {1, 2}, at most three elements,    *)
(* one slice kept by the caller, and the calls each run makes.  Integer   *)
(* arguments cover the cases the methods branch on: counts below, at and  *)
(* above the length, zero, and negative offsets and ends.                 *)
(***************************************************************************)
EXTENDS IntArray

MCValues == {1, 2}

C(op, i, j, v, vs, opt) == [op |-> op, i |-> i, j |-> j, v |-> v, vs |-> vs, opt |-> opt]
Op(op) == C(op, 0, 0, 0, <<>>, FALSE)
Push(vs) == C("PushRight", 0, 0, 0, vs, FALSE)

\* Every method of the contract but Unique, within the contract's domain
\* of arguments, SubSlice without a negative length and Range without a
\* negative end; Sort ascending is SortFunc with "<".
ContractCalls ==
  {C("Set", 1, 0, 2, <<>>, FALSE), C("SetArray", 0, 0, 0, <<2, 1>>, FALSE),
   C("Replace", 0, 0, 0, <<2>>, FALSE), C("Sort", 0, 0, 0, <<>>, TRUE),
   C("InsertBefore", 0, 0, 1, <<>>, FALSE), C("InsertBefore", 2, 0, 1, <<>>, FALSE),
   C("InsertAfter", 0, 0, 2, <<>>, FALSE), C("Remove", 0, 0, 0, <<>>, FALSE),
   C("Remove", 1, 0, 0, <<>>, FALSE), C("Remove", 2, 0, 0, <<>>, FALSE),
   C("PushLeft", 0, 0, 0, <<1, 2>>, FALSE), Push(<<2>>),
   C("Append", 0, 0, 0, <<1, 2>>, FALSE),
   Op("PopLeft"), Op("PopRight"), Op("PopRand"), Op("Slice"),
   Op("Clear"), Op("Shuffle"), Op("Reverse"),
   C("PopRands", 1, 0, 0, <<>>, FALSE), C("PopRands", 4, 0, 0, <<>>, FALSE),
   C("PopLefts", 1, 0, 0, <<>>, FALSE), C("PopLefts", 4, 0, 0, <<>>, FALSE),
   C("PopRights", 1, 0, 0, <<>>, FALSE), C("PopRights", 4, 0, 0, <<>>, FALSE),
   C("Range", 1, 2, 0, <<>>, TRUE), C("Range", -1, 0, 0, <<>>, FALSE),
   C("Range", 3, 0, 0, <<>>, FALSE),
   C("SubSlice", -2, 2, 0, <<>>, TRUE), C("SubSlice", 1, 0, 0, <<>>, FALSE),
   C("SubSlice", 0, 5, 0, <<>>, TRUE),
   C("Fill", -1, 2, 2, <<>>, FALSE), C("Fill", 1, 1, 2, <<>>, FALSE),
   C("Chunk", 0, 0, 0, <<>>, FALSE), C("Chunk", 2, 0, 0, <<>>, FALSE),
   C("Pad", 4, 0, 1, <<>>, FALSE), C("Pad", -3, 0, 2, <<>>, FALSE),
   C("Join", 0, 0, ",", <<>>, FALSE), C("Join", 0, 0, "", <<>>, FALSE),
   Op("String"), Op("RLockFunc"), C("LockFunc", 0, 0, 0, <<2, 2, 2, 2>>, FALSE),
   C("Get", 1, 0, 0, <<>>, FALSE), Op("Len"), Op("Sum"), Op("CountValues"),
   Op("Clone"), Op("Rand"), C("Rands", 2, 0, 0, <<>>, FALSE),
   C("Search", 0, 0, 2, <<>>, FALSE), C("Contains", 0, 0, 1, <<>>, FALSE),
   C("SortFunc", 0, 0, 0, <<>>, FALSE), C("Merge", 0, 0, 0, <<2>>, FALSE),
   C("Merge", 0, 0, 0, <<>>, TRUE)}

\* Calls that return slices, and calls that write where those slices
\* may point: in place, at the front, past the end, and by shifting;
\* and a Range whose end is negative, a Rands(0) and a PopRights(-1),
\* which panic.
ViewCalls ==
  {Push(<<1>>), Push(<<2>>), C("Set", 0, 0, 2, <<>>, FALSE),
   C("InsertBefore", 0, 0, 1, <<>>, FALSE), C("Remove", 1, 0, 0, <<>>, FALSE),
   C("PopLefts", 1, 0, 0, <<>>, FALSE), C("Range", 0, 2, 0, <<>>, TRUE),
   C("SubSlice", 1, 0, 0, <<>>, FALSE), Op("Slice"),
   C("Range", -2, -1, 0, <<>>, TRUE), C("Rands", 0, 0, 0, <<>>, FALSE),
   C("PopRights", -1, 0, 0, <<>>, FALSE)}

\* A caller's slice literal for NewIntArrayFrom(Copy), and capacities for
\* NewIntArraySize(0, cap): none, and room for two appends in place.
MCInitSlices == {<<2, 1>>}
MCInitCaps == {0, 2}

UniqueCalls == {Push(<<1>>), Push(<<2>>), Op("Unique")}

SubSliceNegCalls == {Push(<<1>>), Push(<<2>>), C("SubSlice", 1, -1, 0, <<>>, TRUE)}

RangeNegCalls == {Push(<<1>>), C("Range", -2, -1, 0, <<>>, TRUE)}

\* Calls returning slices of the live array, and writes that reach them.
ResultsCalls ==
  {Push(<<1>>), Push(<<2>>), C("PopRights", 1, 0, 0, <<>>, FALSE),
   C("Chunk", 1, 0, 0, <<>>, FALSE), C("Set", 0, 0, 2, <<>>, FALSE)}
=============================================================================
