------------------------------ MODULE SdVolume ------------------------------
(***************************************************************************)
(* SdVolume (libraries/SD/src/utility/SdVolume.cpp): a FAT volume behind   *)
(* one cached block.  The functions are operators on the machine `m', a    *)
(* record of the card, the cache and the file handles; each returns the    *)
(* machine after the call, with `ok' its result and `out' what it hands    *)
(* back.  A block I/O fails when the budget `io' is spent or the block is  *)
(* not on the card.                                                        *)
(*                                                                         *)
(* Abstraction: a cluster is one block; a FAT block holds PER entries, a   *)
(* data block UNITS units, a directory block SLOTS entries; the end mark   *)
(* of a chain is the number EOC.                                           *)
(***************************************************************************)
EXTENDS Integers, Sequences, FiniteSets

CONSTANTS CLUSTERS, PER, UNITS, SLOTS, ROOT

EOC == 99
PLENTY == 99
NOBLOCK == <<"none", 0>>
Last == CLUSTERS + 1
FatBlock(c) == <<"fat", c \div PER>>
FatMirror(c) == <<"mirror", c \div PER>>
clusterStartBlock(c) == <<"data", c>>
RootBlock == <<"root", 0>>
isEOC(c) == c >= EOC
FreeEntry == [name |-> "free", dir |-> FALSE, first |-> 0, size |-> 0]
ZeroDir == [i \in 1..SLOTS |-> FreeEntry]

Yes(m) == [m EXCEPT !.ok = TRUE]
No(m) == [m EXCEPT !.ok = FALSE]
\* Go on with the next call if the last one succeeded.
Then(m, Op(_)) == IF m.ok THEN Op(m) ELSE m
\* Go on in any case.
With(m, Op(_)) == Op(m)

-----------------------------------------------------------------------------
\* The card: one block read or written, or an error; `hit' remembers that
\* the budget was spent.
Failing(m) == [m EXCEPT !.ok = FALSE, !.hit = @ \/ m.io = 0]
readBlock(m, b) ==
  IF m.io = 0 \/ b \notin DOMAIN m.card THEN Failing(m)
  ELSE [m EXCEPT !.ok = TRUE, !.io = @ - 1, !.out = m.card[b]]
writeBlock(m, b, content) ==
  IF m.io = 0 \/ b \notin DOMAIN m.card THEN Failing(m)
  ELSE [m EXCEPT !.ok = TRUE, !.io = @ - 1, !.card[b] = content]

\* The dirty block, to both copies of the FAT when it is one of theirs.
cacheFlush(m) ==
  IF ~m.dirty THEN Yes(m)
  ELSE Then(writeBlock(m, m.blk, m.buf),
         LAMBDA s : Then(IF s.mirror = NOBLOCK THEN s ELSE writeBlock(s, s.mirror, s.buf),
           LAMBDA t : [t EXCEPT !.mirror = NOBLOCK, !.dirty = FALSE]))

\* The block becomes the cached one; `write' marks it for writing back.
cacheRawBlock(m, b, write) ==
  LET cached == IF m.blk = b THEN Yes(m)
                ELSE Then(Then(cacheFlush(m), LAMBDA s : readBlock(s, b)),
                       LAMBDA s : [s EXCEPT !.blk = b, !.buf = s.out])
  IN Then(cached, LAMBDA s : [s EXCEPT !.dirty = @ \/ write])

\* A block of zeroes: only directories get one.
cacheZeroBlock(m, b) ==
  Then(cacheFlush(m),
       LAMBDA s : [s EXCEPT !.buf = ZeroDir, !.blk = b, !.dirty = TRUE])

fatGet(m, c) ==
  IF c > Last THEN No(m)
  ELSE Then(cacheRawBlock(m, FatBlock(c), FALSE), LAMBDA s : [s EXCEPT !.out = s.buf[c]])

\* Mutant: the copy of the FAT is forgotten.
fatPut_OneCopy(m, c, value) ==
  IF c < 2 \/ c > Last THEN No(m)
  ELSE Then(cacheRawBlock(m, FatBlock(c), TRUE), LAMBDA s : [s EXCEPT !.buf[c] = value])

fatPut(m, c, value) ==
  IF c < 2 \/ c > Last THEN No(m)
  ELSE Then(cacheRawBlock(m, FatBlock(c), TRUE),
            LAMBDA s : [s EXCEPT !.buf[c] = value, !.mirror = FatMirror(c)])

\* The number of clusters in a chain.
RECURSIVE ChainSizeFrom(_, _, _)
ChainSizeFrom(m, c, n) ==
  Then(fatGet(m, c), LAMBDA s : IF isEOC(s.out) THEN [s EXCEPT !.out = n + 1]
                                ELSE ChainSizeFrom(s, s.out, n + 1))
chainSize(m, c) == ChainSizeFrom(m, c, 0)

RECURSIVE FreeFrom(_, _)
FreeFrom(m, c) ==
  Then(fatGet(m, c),
       LAMBDA s : LET next == s.out
                  IN Then(fatPut(s, c, 0),
                          LAMBDA t : IF isEOC(next) THEN t ELSE FreeFrom(t, next)))
\* Mutant: the next search starts at the first FAT entry.
freeChain_FromStart(m, c) == FreeFrom([m EXCEPT !.start = 0], c)

freeChain(m, c) == FreeFrom([m EXCEPT !.start = 2], c)

\* The search of allocContiguous: the group found ends at `out'.
RECURSIVE FindGroup(_, _, _, _, _)
FindGroup(m, count, n, bgn, end) ==
  LET e == IF end > Last THEN 2 ELSE end
      b == IF end > Last THEN 2 ELSE bgn
  IN IF n >= CLUSTERS THEN No(m)
     ELSE Then(fatGet(m, e),
            LAMBDA s : IF s.out # 0 THEN FindGroup(s, count, n + 1, e + 1, e + 1)
                       ELSE IF e - b + 1 = count THEN [s EXCEPT !.out = e]
                       ELSE FindGroup(s, count, n + 1, b, e + 1))

\* The links of the group, from its end to its beginning.
RECURSIVE LinkGroup(_, _, _)
LinkGroup(m, bgn, end) ==
  IF end = bgn THEN Yes(m)
  ELSE Then(fatPut(m, end - 1, end), LAMBDA s : LinkGroup(s, bgn, end - 1))

\* Mutant: the group is linked to its predecessor before it is marked.
allocContiguous_LinkFirst(m, count, cur) ==
  LET bgn0 == IF cur # 0 THEN cur + 1 ELSE m.start
  IN Then(FindGroup(m, count, 0, bgn0, bgn0),
       LAMBDA s :
         LET end == s.out
             bgn == end - count + 1
             linked == IF cur = 0 THEN s ELSE fatPut(s, cur, bgn)
             marked == Then(Then(linked, LAMBDA t : fatPut(t, end, EOC)), LAMBDA t : LinkGroup(t, bgn, end))
         IN Then(marked, LAMBDA t : [t EXCEPT !.out = bgn]))

\* `count' contiguous clusters, linked behind cluster cur unless it is 0;
\* the first of them is handed back.
allocContiguous(m, count, cur) ==
  LET bgn0 == IF cur # 0 THEN cur + 1 ELSE m.start
  IN Then(FindGroup(m, count, 0, bgn0, bgn0),
       LAMBDA s :
         LET end == s.out
             bgn == end - count + 1
             marked == Then(fatPut(s, end, EOC), LAMBDA t : LinkGroup(t, bgn, end))
             linked == IF cur = 0 THEN marked
                       ELSE Then(marked, LAMBDA t : fatPut(t, cur, bgn))
         IN Then(linked, LAMBDA t :
              [t EXCEPT !.out = bgn,
                        !.start = IF cur = 0 /\ count = 1 THEN bgn + 1 ELSE @]))
=============================================================================
