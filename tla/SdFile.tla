------------------------------- MODULE SdFile -------------------------------
(***************************************************************************)
(* SdFile (libraries/SD/src/utility/SdFile.cpp): open files and            *)
(* directories of the volume.  A handle h of the machine is a record of    *)
(* the object's fields; a directory's position and size count entries, a   *)
(* file's count units; dirIndex starts at one.  Names, dates, printing and *)
(* the unbuffered reads of the Wave Shield are left out.                   *)
(***************************************************************************)
EXTENDS SdVolume

\* A unit of a data block nobody wrote, one left of a directory included.
JUNK == 0
ASSUME SlotsTellDirectories == SLOTS # UNITS
AsUnits(block) == IF Len(block) = UNITS THEN block ELSE [i \in 1..UNITS |-> JUNK]

ClosedFile == [type |-> "closed", flags |-> {}, dirty |-> FALSE, werr |-> FALSE,
               cur |-> 0, pos |-> 0, size |-> 0, first |-> 0,
               dirBlock |-> NOBLOCK, dirIndex |-> 0]

isOpen(m, h) == m.h[h].type # "closed"
isFile(m, h) == m.h[h].type = "file"
isSubDir(m, h) == m.h[h].type = "dir"
isRoot(m, h) == m.h[h].type = "root16"
isDir(m, h) == isSubDir(m, h) \/ isRoot(m, h)
PerBlock(m, h) == IF isRoot(m, h) THEN ROOT ELSE IF isSubDir(m, h) THEN SLOTS ELSE UNITS
LeastOf(a, b) == IF a < b THEN a ELSE b

rewind(m, h) == [m EXCEPT !.h[h].pos = 0, !.h[h].cur = 0]

addCluster(m, h) ==
  Then(allocContiguous(m, 1, m.h[h].cur),
       LAMBDA s : [s EXCEPT !.h[h].cur = s.out,
                            !.h[h].first = IF @ = 0 THEN s.out ELSE @,
                            !.h[h].dirty = @ \/ s.h[h].first = 0])

addDirCluster(m, h) ==
  Then(Then(addCluster(m, h), LAMBDA s : cacheZeroBlock(s, clusterStartBlock(s.h[h].cur))),
       LAMBDA s : [s EXCEPT !.h[h].size = @ + SLOTS])

cacheDirEntry(m, h, write) == cacheRawBlock(m, m.h[h].dirBlock, write)

-----------------------------------------------------------------------------
\* Writing back the directory entry, then the cache.
sync(m, h) ==
  LET f == m.h[h]
      entry == Then(cacheDirEntry(m, h, TRUE),
                 LAMBDA s : [s EXCEPT !.buf[f.dirIndex].size = IF isDir(m, h) THEN @ ELSE f.size,
                                      !.buf[f.dirIndex].first = f.first,
                                      !.h[h].dirty = FALSE])
  IN IF ~isOpen(m, h) THEN No(m)
     ELSE Then(IF f.dirty THEN entry ELSE Yes(m), cacheFlush)

close(m, h) == Then(sync(m, h), LAMBDA s : [s EXCEPT !.h[h].type = "closed"])

\* Follow the chain n clusters further.
RECURSIVE Advance(_, _, _)
Advance(m, h, n) ==
  IF n = 0 THEN Yes(m)
  ELSE Then(fatGet(m, m.h[h].cur), LAMBDA s : Advance([s EXCEPT !.h[h].cur = s.out], h, n - 1))

\* Mutant: the cluster of a position, not of the unit before it.
seekSet_NextCluster(m, h, pos) ==
  IF ~isOpen(m, h) \/ pos > m.h[h].size THEN No(m)
  ELSE IF isRoot(m, h) THEN Yes([m EXCEPT !.h[h].pos = pos])
  ELSE IF pos = 0 THEN Yes(rewind(m, h))
  ELSE Then(Advance([m EXCEPT !.h[h].cur = m.h[h].first], h, pos \div PerBlock(m, h)),
            LAMBDA s : [s EXCEPT !.h[h].pos = pos])

seekSet(m, h, pos) ==
  LET f == m.h[h]
      nCur == (f.pos - 1) \div PerBlock(m, h)
      nNew == (pos - 1) \div PerBlock(m, h)
      walked == IF nNew < nCur \/ f.pos = 0
                THEN Advance([m EXCEPT !.h[h].cur = f.first], h, nNew)
                ELSE Advance(m, h, nNew - nCur)
  IN IF ~isOpen(m, h) \/ pos > f.size THEN No(m)
     ELSE IF isRoot(m, h) THEN Yes([m EXCEPT !.h[h].pos = pos])
     ELSE IF pos = 0 THEN Yes(rewind(m, h))
     ELSE Then(walked, LAMBDA s : [s EXCEPT !.h[h].pos = pos])

\* The block at the current position: at the start of a cluster the chain
\* is followed.
Locate(m, h) ==
  LET f == m.h[h]
      placed == IF f.pos % PerBlock(m, h) # 0 THEN Yes(m)
                ELSE IF f.pos = 0 THEN Yes([m EXCEPT !.h[h].cur = f.first])
                ELSE Then(fatGet(m, f.cur), LAMBDA s : [s EXCEPT !.h[h].cur = s.out])
  IN IF isRoot(m, h) THEN [Yes(m) EXCEPT !.out = RootBlock]
     ELSE Then(placed, LAMBDA s : [s EXCEPT !.out = clusterStartBlock(s.h[h].cur)])

\* What is left of the file; the subtraction is unsigned.
LeftToRead(f) == IF f.pos <= f.size THEN f.size - f.pos ELSE PLENTY

RECURSIVE ReadOn(_, _, _, _)
ReadOn(m, h, left, got) ==
  IF left = 0 THEN [Yes(m) EXCEPT !.out = got]
  ELSE LET off == m.h[h].pos % UNITS
           n == LeastOf(left, UNITS - off)
           fetched == Then(Locate(m, h), LAMBDA s :
             IF n = UNITS /\ s.out # s.blk THEN readBlock(s, s.out)
             ELSE Then(cacheRawBlock(s, s.out, FALSE), LAMBDA t : [t EXCEPT !.out = t.buf]))
       IN Then(fetched, LAMBDA s : ReadOn([s EXCEPT !.h[h].pos = @ + n], h, left - n,
                                          got \o SubSeq(AsUnits(s.out), off + 1, off + n)))
read(m, h, n) ==
  IF ~isOpen(m, h) \/ "read" \notin m.h[h].flags THEN No(m)
  ELSE ReadOn(m, h, LeastOf(n, LeftToRead(m.h[h])), <<>>)

\* The next directory entry, in the cache; its index is handed back.
readDirCache(m, h) ==
  LET i == (m.h[h].pos % PerBlock(m, h)) + 1
  IN IF ~isDir(m, h) \/ LeftToRead(m.h[h]) = 0 THEN No(m)
     ELSE Then(Then(Locate(m, h), LAMBDA s : cacheRawBlock(s, s.out, FALSE)),
            LAMBDA s : [s EXCEPT !.h[h].pos = @ + 1, !.out = i])

-----------------------------------------------------------------------------
\* Mutant: the tail is freed but the last cluster kept still links to it.
truncate_KeepsLink(m, h, length) ==
  LET f == m.h[h]
      freed(s) ==
        IF length = 0
        THEN Then(freeChain(s, f.first), LAMBDA t : [t EXCEPT !.h[h].first = 0])
        ELSE Then(fatGet(s, s.h[h].cur), LAMBDA t : IF isEOC(t.out) THEN t ELSE freeChain(t, t.out))
  IN IF ~isFile(m, h) \/ "write" \notin f.flags \/ length > f.size THEN No(m)
     ELSE IF f.size = 0 THEN Yes(m)
     ELSE Then(Then(seekSet(m, h, length), freed),
            LAMBDA s : sync([s EXCEPT !.h[h].size = length, !.h[h].dirty = TRUE], h))

truncate(m, h, length) ==
  LET f == m.h[h]
      newPos == LeastOf(f.pos, length)
      freed(s) ==
        IF length = 0
        THEN Then(freeChain(s, f.first), LAMBDA t : [t EXCEPT !.h[h].first = 0])
        ELSE Then(fatGet(s, s.h[h].cur), LAMBDA t :
               IF isEOC(t.out) THEN t
               ELSE Then(freeChain(t, t.out), LAMBDA u : fatPut(u, u.h[h].cur, EOC)))
  IN IF ~isFile(m, h) \/ "write" \notin f.flags \/ length > f.size THEN No(m)
     ELSE IF f.size = 0 THEN Yes(m)
     ELSE Then(Then(Then(seekSet(m, h, length), freed),
            LAMBDA s : sync([s EXCEPT !.h[h].size = length, !.h[h].dirty = TRUE], h)),
            LAMBDA s : seekSet(s, h, newPos))

\* The object takes over the entry in the cache at index i.
openCachedEntry(m, h, i, oflag) ==
  LET e == m.buf[i]
      opened(s, type, size) ==
        [s EXCEPT !.h[h] = [@ EXCEPT !.type = type, !.size = size, !.first = e.first,
                                     !.flags = oflag \cap {"read", "write", "sync", "append"},
                                     !.dirty = FALSE, !.cur = 0, !.pos = 0,
                                     !.dirBlock = m.blk, !.dirIndex = i]]
      entry == IF e.dir THEN Then(chainSize(m, e.first),
                                  LAMBDA s : opened(s, "dir", s.out * SLOTS))
               ELSE Yes(opened(m, "file", e.size))
  IN IF e.dir /\ oflag \cap {"write", "trunc"} # {} THEN No(m)
     ELSE IF "trunc" \in oflag THEN Then(entry, LAMBDA s : truncate(s, h, 0)) ELSE entry

\* The search of open() in directory d: `out' is the index of the entry
\* found in the cached block, or 0; the first empty slot is remembered.
RECURSIVE Search(_, _, _, _, _)
Search(m, d, h, name, empty) ==
  IF m.h[d].pos >= m.h[d].size THEN [Yes(m) EXCEPT !.out = <<0, empty>>]
  ELSE Then(readDirCache(m, d), LAMBDA s :
         LET e == s.buf[s.out]
             here == IF empty THEN s ELSE [s EXCEPT !.h[h].dirIndex = s.out, !.h[h].dirBlock = s.blk]
         IN IF e.name = "free" THEN [here EXCEPT !.out = <<0, TRUE>>]
            ELSE IF e.name = "deleted" THEN Search(here, d, h, name, TRUE)
            ELSE IF e.name = name THEN [s EXCEPT !.out = <<s.out, empty>>]
            ELSE Search(s, d, h, name, empty))

\* A new empty file, in the remembered slot or in a new cluster of the
\* directory.
Create(m, d, h, name, empty) ==
  LET slot == IF empty THEN cacheDirEntry(m, h, TRUE)
              ELSE IF isRoot(m, d) THEN No(m)
              ELSE Then(addDirCluster(m, d), LAMBDA s : [s EXCEPT !.h[h].dirIndex = 1])
      written == Then(slot, LAMBDA s :
                   cacheFlush([s EXCEPT !.buf[s.h[h].dirIndex] = [FreeEntry EXCEPT !.name = name]]))
  IN Then(written, LAMBDA s : [s EXCEPT !.out = s.h[h].dirIndex])

open(m, d, h, name, oflag) ==
  IF isOpen(m, h) THEN No(m)
  ELSE Then(Then(Search(rewind(m, d), d, h, name, FALSE), LAMBDA s :
         IF s.out[1] # 0
         THEN IF {"creat", "excl"} \subseteq oflag THEN No(s) ELSE [s EXCEPT !.out = @[1]]
         ELSE IF {"creat", "write"} \subseteq oflag THEN Create(s, d, h, name, s.out[2])
         ELSE No(s)), LAMBDA s : openCachedEntry(s, h, s.out, oflag))

\* open() by the index of the entry, which starts at 0.
openIndex(m, d, h, index, oflag) ==
  IF isOpen(m, h) THEN No(m)
  ELSE Then(Then(seekSet(m, d, index), LAMBDA s : readDirCache(s, d)), LAMBDA s :
         IF s.buf[s.out].name \in {"free", "deleted", ".", ".."} THEN No(s)
         ELSE openCachedEntry(s, h, s.out, oflag))

openRoot(m, h) ==
  IF isOpen(m, h) THEN No(m)
  ELSE Yes([m EXCEPT !.h[h] = [ClosedFile EXCEPT !.type = "root16", !.size = ROOT,
                                                  !.flags = {"read"}]])

makeDir(m, d, h, name) ==
  LET asDir(s) == [s EXCEPT !.h[h].flags = {"read"}, !.h[h].type = "dir"]
      entry(s) == s.buf[s.h[h].dirIndex]
      marked(s) == Then(cacheDirEntry(s, h, TRUE),
                        LAMBDA t : [t EXCEPT !.buf[t.h[h].dirIndex].dir = TRUE])
      up == IF isRoot(m, d) THEN 0 ELSE m.h[d].first
      dots(s, e) == Then(cacheRawBlock(s, clusterStartBlock(s.h[h].first), TRUE),
                      LAMBDA t : [t EXCEPT !.buf[1] = [e EXCEPT !.name = "."],
                                           !.buf[2] = [e EXCEPT !.name = "..", !.first = up],
                                           !.h[h].pos = 2])
  IN Then(Then(Then(Then(Then(open(m, d, h, name, {"creat", "excl", "read", "write"}),
       LAMBDA s : addDirCluster(asDir(s), h)),
       LAMBDA s : sync(s, h)), marked), LAMBDA s : dots(s, entry(s))), cacheFlush)

-----------------------------------------------------------------------------
\* Mutant: the entry goes, the clusters stay.
remove_KeepsChain(m, h) ==
  Then(cacheDirEntry(m, h, TRUE),
       LAMBDA s : cacheFlush([s EXCEPT !.buf[s.h[h].dirIndex].name = "deleted",
                                       !.h[h].type = "closed"]))

remove(m, h) ==
  Then(Then(truncate(m, h, 0), LAMBDA s : cacheDirEntry(s, h, TRUE)),
       LAMBDA s : cacheFlush([s EXCEPT !.buf[s.h[h].dirIndex].name = "deleted",
                                       !.h[h].type = "closed"]))

\* No file or directory is left from the current position on.
RECURSIVE CheckEmpty(_, _)
CheckEmpty(m, h) ==
  IF m.h[h].pos >= m.h[h].size THEN Yes(m)
  ELSE Then(readDirCache(m, h), LAMBDA s :
         LET name == s.buf[s.out].name
         IN IF name = "free" THEN s
            ELSE IF name \in {"deleted", ".", ".."} THEN CheckEmpty(s, h)
            ELSE No(s))

rmDir(m, h) ==
  IF ~isSubDir(m, h) THEN No(m)
  ELSE Then(CheckEmpty(rewind(m, h), h),
            LAMBDA s : remove([s EXCEPT !.h[h].type = "file", !.h[h].flags = @ \cup {"write"}], h))

\* Everything in directory h is removed, then the directory unless it is
\* the root; hs are handles free for the levels below.
RECURSIVE rmRfStar(_, _, _), RemoveOn(_, _, _)
rmRfStar(m, h, hs) ==
  Then(RemoveOn(rewind(m, h), h, hs), LAMBDA s : IF isRoot(s, h) THEN s ELSE rmDir(s, h))
RemoveOn(m, h, hs) ==
  LET index == m.h[h].pos
      f == Head(hs)
      gone(s) == IF isSubDir(s, f) THEN rmRfStar(s, f, Tail(hs))
                 ELSE remove([s EXCEPT !.h[f].flags = @ \cup {"write"}], f)
      opened(s) == openIndex([s EXCEPT !.h[f] = ClosedFile], h, f, index, {"read"})
      on(s) == IF s.h[h].pos # index + 1 THEN seekSet(s, h, index + 1) ELSE s
  IN IF index >= m.h[h].size THEN Yes(m)
     ELSE Then(readDirCache(m, h), LAMBDA s :
            LET name == s.buf[s.out].name
            IN IF name = "free" THEN s
               ELSE IF name \in {"deleted", ".", ".."} THEN RemoveOn(s, h, hs)
               ELSE Then(Then(Then(opened(s), gone), on), LAMBDA t : RemoveOn(t, h, hs)))

\* A new file of `size' units in contiguous clusters.
createContiguous(m, d, h, name, size) ==
  LET count == ((size - 1) \div UNITS) + 1
      taken(s) == With(allocContiguous(s, count, s.h[h].first), LAMBDA a :
                    IF a.ok THEN [a EXCEPT !.h[h].first = a.out] ELSE No(remove(a, h)))
  IN IF size = 0 THEN No(m)
     ELSE Then(Then(open(m, d, h, name, {"creat", "excl", "read", "write"}), taken),
               LAMBDA s : sync([s EXCEPT !.h[h].size = size, !.h[h].dirty = TRUE], h))

\* The clusters of a contiguous file: its first and its last.
RECURSIVE RangeFrom(_, _, _)
RangeFrom(m, first, c) ==
  Then(fatGet(m, c), LAMBDA s : IF s.out = c + 1 THEN RangeFrom(s, first, c + 1)
                                ELSE IF ~isEOC(s.out) THEN No(s)
                                ELSE [s EXCEPT !.out = <<first, c>>])
contiguousRange(m, h) ==
  IF m.h[h].first = 0 THEN No(m) ELSE RangeFrom(m, m.h[h].first, m.h[h].first)

-----------------------------------------------------------------------------
\* write(): the whole of src or, on failure, part of it.
RECURSIVE WriteOn(_, _, _)
WriteOn(m, h, src) ==
  LET f == m.h[h]
      off == f.pos % UNITS
      n == LeastOf(Len(src), UNITS - off)
      failed(s) == IF s.ok THEN s ELSE [s EXCEPT !.h[h].werr = TRUE]
      added(s) == failed(addCluster(s, h))
      placed == IF off # 0 THEN Yes(m)
                ELSE IF f.cur = 0
                THEN IF f.first = 0 THEN added(m) ELSE Yes([m EXCEPT !.h[h].cur = f.first])
                ELSE Then(fatGet(m, f.cur), LAMBDA s :
                       IF isEOC(s.out) THEN added(s) ELSE [s EXCEPT !.h[h].cur = s.out])
      over(old) == [i \in 1..UNITS |-> IF i \in (off + 1)..(off + n) THEN src[i - off] ELSE old[i]]
      store(s, b) ==
        IF n = UNITS
        THEN writeBlock([s EXCEPT !.blk = IF @ = b THEN NOBLOCK ELSE @], b, over(src))
        ELSE IF off = 0 /\ f.pos >= f.size
        THEN Then(cacheFlush(s), LAMBDA t :
               [t EXCEPT !.blk = b, !.dirty = TRUE, !.buf = over([i \in 1..UNITS |-> JUNK])])
        ELSE Then(cacheRawBlock(s, b, TRUE), LAMBDA t : [t EXCEPT !.buf = over(AsUnits(t.buf))])
  IN IF src = <<>> THEN Yes(m)
     ELSE Then(Then(placed, LAMBDA s : failed(store(s, clusterStartBlock(s.h[h].cur)))),
            LAMBDA s : WriteOn([s EXCEPT !.h[h].pos = @ + n], h, SubSeq(src, n + 1, Len(src))))

write(m, h, src) ==
  LET f == m.h[h]
      failed(s) == IF s.ok THEN s ELSE [s EXCEPT !.h[h].werr = TRUE]
      atEnd == IF "append" \in f.flags /\ f.pos # f.size THEN failed(seekSet(m, h, f.size)) ELSE Yes(m)
      grown(s) == IF s.h[h].pos > s.h[h].size
                  THEN [s EXCEPT !.h[h].size = s.h[h].pos, !.h[h].dirty = TRUE] ELSE s
  IN IF ~isFile(m, h) \/ "write" \notin f.flags THEN failed(No(m))
     ELSE Then(Then(Then(atEnd, LAMBDA s : WriteOn(s, h, src)), grown),
            LAMBDA s : IF "sync" \in f.flags THEN failed(sync(s, h)) ELSE s)
=============================================================================
