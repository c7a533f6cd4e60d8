-------------------------------- MODULE Cbuf --------------------------------
(***************************************************************************)
(* The arithmetic of the ring buffer class cbuf (cores/piduino/cbuf.cpp).  *)
(* The pointers _begin and _end are offsets into _buf, so that _bufend is  *)
(* _size.  One cell always stays free: _begin = _end means empty.          *)
(***************************************************************************)
EXTENDS Integers

CONSTANT SIZE  \* _size
ASSUME SizeAssumption == SIZE \in Nat \ {0}

Offsets == 0 .. SIZE - 1

wrap_if_bufend(p) == IF p = SIZE THEN 0 ELSE p

getSize(begin, end) ==
  IF end >= begin THEN end - begin ELSE SIZE - (begin - end)

room(begin, end) ==
  IF end >= begin THEN SIZE - (end - begin) - 1 ELSE begin - end - 1

empty(begin, end) == begin = end

full_NoWrap(begin, end) == end + 1 = begin   \* mutant: misses the last cell

full(begin, end) == wrap_if_bufend(end + 1) = begin

\* The offset k cells after begin, for k up to SIZE.
After(begin, k) == IF begin + k >= SIZE THEN begin + k - SIZE ELSE begin + k

\* The items between _begin and _end, oldest first.
Contents(mem, begin, end) ==
  [k \in 1 .. getSize(begin, end) |-> mem[After(begin, k - 1)]]
=============================================================================
