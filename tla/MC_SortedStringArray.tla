------------------------ MODULE MC_SortedStringArray ------------------------
(* Instantiation of SortedStringArray for TLC: two or three goroutines,    *)
(* two or three distinct strings, arrays of at most three elements.        *)
EXTENDS SortedStringArray

MCValues2 == {1, 2}
MCValues3 == {1, 2, 3}

\* The read methods.
ReadOps == {"Get", "Len", "Sum", "Range", "SubSlice", "Slice", "Clone", "Chunk",
            "Rand", "Rands", "CountValues", "RLockFunc", "Join", "String"}

\* Every method the model covers.
AllOps == {"Add", "Remove", "PopLeft", "PopRight", "PopLefts", "PopRights",
           "PopRands", "PopRand", "Clear", "Sort", "SetArray", "Unique",
           "SetUnique", "Search", "Merge", "LockFunc"} \cup ReadOps

\* Every method except the two that can leave the array unsorted-unique on
\* their own (SetArray) or panic on an empty array (Unique, SetUnique),
\* and Merge, whose Add can wait for ever at the model's length bound.
NoUniqueOps == AllOps \ {"SetArray", "Unique", "SetUnique", "Merge"}

RC(op, i, j, opt) == [op |-> op, i |-> i, j |-> j, v |-> 0, vs |-> <<>>, opt |-> opt]
RO(op) == RC(op, 0, 0, FALSE)
Join(glue) == [RO("Join") EXCEPT !.v = glue]

\* Read calls: indexes and counts below, at and past the length, negative
\* starts and offsets, an omitted end or length, a Chunk size below 1, and
\* a Range whose end is negative and a Rands(0), which panic; Join with a
\* glue and with none.  SubSlice is
\* called without a negative length (its divergence from the contract is
\* the run int_subslice_neg's, in the same code of IntArray).
MCReadCalls ==
  {RC("Get", 0, 0, FALSE), RC("Get", 2, 0, FALSE), RO("Len"), RO("Sum"),
   RO("Slice"), RO("Clone"), RO("CountValues"), RO("Rand"), RO("RLockFunc"),
   RC("Rands", 2, 0, FALSE), RC("Rands", 0, 0, FALSE),
   RC("Range", 1, 2, TRUE), RC("Range", -1, 0, FALSE), RC("Range", -2, -1, TRUE),
   RC("SubSlice", -2, 2, TRUE), RC("SubSlice", 1, 0, FALSE),
   RC("SubSlice", 0, 5, TRUE), RC("SubSlice", 4, 0, FALSE),
   RC("Chunk", 0, 0, FALSE), RC("Chunk", 2, 0, FALSE),
   Join(","), Join(""), RO("String")}

\* Fewer reads for the liveness run.
LiveReadCalls == {RO("Len"), RC("Rands", 0, 0, FALSE), RC("Chunk", 1, 0, FALSE)}

\* The methods whose interplay the SetUnique race needs.
RaceOps == {"Add", "SetUnique"}

\* PopRand racing with another remover.
PopRandOps == {"Add", "PopRand", "PopLeft"}

\* Unique on an empty array, with a second goroutine that needs the lock.
UniqueEmptyOps == {"Add", "PopLeft", "Unique", "Search"}

\* Everything but SetArray, for one goroutine.
SeqOps == AllOps \ {"SetArray"}

=============================================================================
