----------------------------- MODULE SdLibrary -----------------------------
(***************************************************************************)
(* The SD library as a sketch uses it (libraries/SD/src/SD.cpp and         *)
(* File.cpp over SdFile and SdVolume): one open File, paths that are       *)
(* walked from the root, and a card whose I/O can fail in the middle of a  *)
(* call or whose power can be cut between two I/Os.  `io' is the number of *)
(* block I/Os of a call that succeed.                                      *)
(***************************************************************************)
EXTENDS SdFile

CONSTANTS FilePaths, DirPaths, Modes, Runs, Counts, Volumes, Budgets, MaxCalls, StrayPaths

VARIABLES m,        \* the machine
          held,     \* the path and the mode of the open file
          calls,    \* how many calls the sketch has made
          last,     \* the last call: its name, result and data
          trouble,  \* what went wrong first: no room, the card, the power
          cut,      \* the card failed in a call that frees clusters or seeks
          seen      \* what the sketch sees: the tree and the open file
sdVars == <<m, held, calls, last, trouble, cut, seen>>
NotOpen == [path |-> <<>>, mode |-> {}]

Temp == {"d1", "d2", "child"}
Levels == <<"d1", "d2", "child">>   \* handles for rmRfStar's locals
Drop(s, h) == [s EXCEPT !.h[h] = ClosedFile]
After(path) == path[Len(path)]

-----------------------------------------------------------------------------
\* getParentDir: `out' is the handle of the directory that holds the last
\* component of the path.
RECURSIVE Descend(_, _, _, _)
Descend(s, path, parent, subdir) ==
  IF Len(path) = 1 THEN [Yes(s) EXCEPT !.out = parent]
  ELSE Then(open(close(s, subdir), parent, subdir, Head(path), {"read"}),
            LAMBDA t : Descend(close(t, parent), Tail(path), subdir, parent))
getParentDir(s, path) == Descend([s EXCEPT !.h["d1"] = s.h["root"]], path, "d1", "d2")

SDClass_open(s, path, mode) ==
  Then(getParentDir(s, path), LAMBDA t :
    LET d == IF isRoot(t, t.out) THEN "root" ELSE t.out
    IN With(open(t, d, "file", After(path), mode), LAMBDA o :
         IF ~o.ok THEN Drop(o, "file")
         ELSE With(IF d = "root" THEN o ELSE close(o, d), LAMBDA kept :
                Yes(IF mode \cap {"append", "write"} = {} THEN kept
                    ELSE seekSet(kept, "file", kept.h["file"].size)))))

\* The callbacks of walkPath.
pathExists(s, p, name) ==
  With(open(Drop(s, "child"), p, "child", name, {"read"}), LAMBDA o :
    IF o.ok THEN Yes(Drop(close(o, "child"), "child")) ELSE Drop(o, "child"))
makeDirPath(e, p, name) == IF e.ok THEN e ELSE makeDir(e, p, "child", name)
removePath(s, p, name, what) ==
  Then(open(Drop(s, "child"), p, "child", name, IF what = "remove" THEN {"write"} ELSE {"read"}),
       LAMBDA t : IF what = "remove" THEN remove(t, "child") ELSE rmDir(t, "child"))
Callback(s, what, p, name, isLastComponent) ==
  IF what \in {"exists", "mkdir"}
  THEN With(pathExists(s, p, name), LAMBDA e : IF what = "exists" THEN e ELSE makeDirPath(e, p, name))
  ELSE IF isLastComponent THEN removePath(s, p, name, what) ELSE Yes(s)

RECURSIVE walkPath(_, _, _, _, _)
walkPath(s, what, path, parent, child) ==
  LET leave(t) == IF parent = "root" THEN t ELSE close(t, parent)
  IN With(Callback(s, what, parent, Head(path), Len(path) = 1), LAMBDA called :
       IF ~called.ok THEN No(leave(called))
       ELSE IF Len(path) = 1 THEN Yes(leave(called))
       ELSE With(open(called, parent, child, Head(path), {"read"}), LAMBDA opened :
              IF ~opened.ok THEN No(leave(opened))
              ELSE walkPath(leave(opened), what, Tail(path), child,
                            IF parent = "root" THEN "d2" ELSE parent)))

\* readDir: the name of the next file or directory, or none.
RECURSIVE readDir(_, _)
readDir(s, h) ==
  IF LeftToRead(s.h[h]) = 0 THEN [Yes(s) EXCEPT !.out = "none"]
  ELSE Then(readDirCache(s, h), LAMBDA t :
         LET name == t.buf[t.out].name
         IN IF name = "free" THEN [t EXCEPT !.out = "none"]
            ELSE IF name \in {"deleted", ".", ".."} THEN readDir(t, h)
            ELSE [t EXCEPT !.out = name])
openNextFile(s) ==
  Then(readDir(s, "file"), LAMBDA t :
    IF t.out = "none" THEN [t EXCEPT !.out = <<>>]
    ELSE Then(open(t, "file", "child", t.out, {"read"}), LAMBDA u : [u EXCEPT !.out = <<t.out>>]))

\* begin() after a reset: the volume's boot block, then the root directory.
SdVolume_init(s) == cacheRawBlock(s, <<"boot", 0>>, FALSE)
SDClass_begin(s) == Then(SdVolume_init(s), LAMBDA t : openRoot(t, "root"))
Fresh(card) ==
  [card |-> card, blk |-> NOBLOCK, buf |-> <<>>, dirty |-> FALSE, mirror |-> NOBLOCK,
   start |-> 2, io |-> PLENTY, hit |-> FALSE, ok |-> TRUE, out |-> <<>>,
   h |-> [h \in {"root", "file"} \cup Temp |-> ClosedFile]]

-----------------------------------------------------------------------------
\* What a sketch sees of the machine: the card under its cached block.
BlockView(s, b) == IF s.blk = b THEN s.buf ELSE s.card[b]
Fat(s, c) == BlockView(s, FatBlock(c))[c]
RECURSIVE ChainFrom(_, _, _)
ChainFrom(s, c, n) ==
  IF n = 0 \/ c \notin 2..Last THEN <<>> ELSE <<c>> \o ChainFrom(s, Fat(s, c), n - 1)
Chain(s, c) == ChainFrom(s, c, CLUSTERS)
InUse(e) == e.name \notin {"free", "deleted", ".", ".."}

\* The entries of a directory, from its blocks: those before the first free.
Entries(s, blocks) ==
  LET In(b) == LET v == BlockView(s, b) IN
                 {i \in DOMAIN v : InUse(v[i]) /\ \A j \in 1..i : v[j].name # "free"}
      Full(b) == LET v == BlockView(s, b) IN \A i \in DOMAIN v : v[i].name # "free"
      k == CHOOSE n \in 0..Len(blocks) :     \* the blocks before the first with a free entry
             /\ \A i \in 1..n : Full(blocks[i])
             /\ n < Len(blocks) => ~Full(blocks[n + 1])
  IN UNION {{<<blocks[n], i>> : i \in In(blocks[n])} : n \in 1..LeastOf(k + 1, Len(blocks))}
\* An entry as the open file, if it is its own, has changed it.
Entry(s, at) ==
  LET e == BlockView(s, at[1])[at[2]]
      f == s.h["file"]
  IN IF f.type = "file" /\ f.dirBlock = at[1] /\ f.dirIndex = at[2]
     THEN [e EXCEPT !.first = f.first, !.size = f.size] ELSE e
DirBlocks(s, first) ==
  LET c == Chain(s, first) IN [i \in 1..Len(c) |-> clusterStartBlock(c[i])]
Clusters(s, at) == LET c == Chain(s, Entry(s, at).first) IN {c[i] : i \in 1..Len(c)}
Top(s) == Entries(s, <<RootBlock>>)
Inside(s, at) == IF Entry(s, at).dir THEN Entries(s, DirBlocks(s, Entry(s, at).first)) ELSE {}
AllEntries(s) == Top(s) \cup UNION {Inside(s, at) : at \in Top(s)}

Content(s, e) ==
  LET chain == Chain(s, e.first)
  IN [i \in 1..e.size |->
        IF (i - 1) \div UNITS + 1 > Len(chain) THEN JUNK
        ELSE AsUnits(BlockView(s, clusterStartBlock(chain[(i - 1) \div UNITS + 1])))[((i - 1) % UNITS) + 1]]
\* The tree of files: the content of every path in use.
Tree(s) ==
  LET Name(at) == Entry(s, at).name
      named == {<<<<Name(at)>>, at>> : at \in Top(s)}
               \cup UNION {{<<<<Name(at), Name(in)>>, in>> : in \in Inside(s, at)} : at \in Top(s)}
  IN [p \in {x[1] : x \in named} |->
        LET e == Entry(s, (CHOOSE x \in named : x[1] = p)[2])
        IN IF e.dir THEN <<-1>> ELSE Content(s, e)]

\* What remains to be listed of the open directory.
Due(s) ==
  LET f == s.h["file"]
      blocks == DirBlocks(s, f.first)
      ahead == {at \in Entries(s, blocks) :
                  \E k \in 1..Len(blocks) : blocks[k] = at[1] /\ (k - 1) * SLOTS + at[2] > f.pos}
  IN IF f.type = "dir" THEN {Entry(s, at).name : at \in ahead} ELSE {}

View(s, h) ==
  [files |-> Tree(s),
   fd |-> [path |-> h.path, mode |-> h.mode, due |-> Due(s),
           pos |-> IF isFile(s, "file") THEN s.h["file"].pos ELSE 0]]

-----------------------------------------------------------------------------
\* The volumes a sketch may find: freshly formatted, or with a directory
\* and two files in use.
Formatted ==
  [b \in {<<"boot", 0>>, RootBlock} \cup {FatBlock(c) : c \in 0..Last}
         \cup {FatMirror(c) : c \in 0..Last} \cup {clusterStartBlock(c) : c \in 2..Last} |->
     IF b[1] = "boot" THEN <<>>
     ELSE IF b = RootBlock THEN [i \in 1..ROOT |-> FreeEntry]
     ELSE IF b[1] = "data" THEN [i \in 1..UNITS |-> JUNK]
     ELSE [c \in {d \in 0..Last : d \div PER = b[2]} |-> IF c < 2 THEN EOC ELSE 0]]
Described(name, dir, first, size) == [name |-> name, dir |-> dir, first |-> first, size |-> size]
InUseFrom(entries, n) == [i \in 1..n |-> IF i \in DOMAIN entries THEN entries[i] ELSE FreeEntry]
\* The files are /f, of a unit more than a cluster, and /d/f, of one.
TreeBlocks ==
  [b \in {RootBlock} \cup {clusterStartBlock(c) : c \in 2..5} |->
     CASE b = RootBlock -> InUseFrom(<<Described("d", TRUE, 2, 0), Described("f", FALSE, 3, UNITS + 1)>>, ROOT)
       [] b[2] = 2 -> InUseFrom(<<Described(".", TRUE, 2, 0), Described("..", TRUE, 0, 0),
                                  Described("f", FALSE, 5, 1)>>, SLOTS)
       [] b[2] = 3 -> [i \in 1..UNITS |-> 10 + i]
       [] b[2] = 4 -> [i \in 1..UNITS |-> IF i = 1 THEN 11 + UNITS ELSE JUNK]
       [] b[2] = 5 -> [i \in 1..UNITS |-> IF i = 1 THEN 11 ELSE JUNK]]
Volume(v) ==
  IF v = "empty" THEN Formatted
  ELSE [b \in DOMAIN Formatted |->
          IF b \in DOMAIN TreeBlocks THEN TreeBlocks[b]
          ELSE IF b[1] \notin {"fat", "mirror"} THEN Formatted[b]
          ELSE [c \in DOMAIN Formatted[b] |->
                  IF c = 3 THEN 4 ELSE IF c \in 2..5 THEN EOC ELSE Formatted[b][c]]]

SdInit ==
  /\ \E v \in Volumes : m = SDClass_begin(Fresh(Volume(v)))
  /\ calls = 0 /\ trouble = "none" /\ cut = FALSE /\ held = NotOpen
  /\ last = [call |-> "begin", ok |-> TRUE, data |-> <<>>] /\ seen = View(m, held)

\* One call of the sketch: r(s) is the machine after it, `room' says that
\* the call may need a cluster or a slot, `fragile' that it frees clusters or
\* seeks.  Once in a behaviour the card fails, from some I/O of a call on.
Call(name, room, fragile, r(_)) ==
  /\ calls < MaxCalls /\ ~cut /\ calls' = calls + 1
  /\ \E io \in IF trouble = "none" THEN Budgets \cup {PLENTY} ELSE {PLENTY} :
     \E s \in {r([m EXCEPT !.io = io])} :
       /\ m' = [s EXCEPT !.io = PLENTY, !.hit = FALSE, !.ok = TRUE, !.out = <<>>,
                         !.h = [h \in DOMAIN s.h |-> IF h \in Temp THEN ClosedFile ELSE s.h[h]]]
       /\ last' = [call |-> name, ok |-> s.ok, data |-> IF s.ok THEN s.out ELSE <<>>]
       /\ trouble' = IF trouble # "none" THEN trouble
                     ELSE IF s.hit THEN "card" ELSE IF room /\ ~s.ok THEN "room" ELSE "none"
       /\ cut' = (cut \/ (s.hit /\ fragile))
Quiet(s) == [s EXCEPT !.out = <<>>]
Idle == held = NotOpen
\* A sketch makes files in directories only, unless StrayPaths.
InDirectory(p) == StrayPaths \/ Len(p) = 1 \/ (<<p[1]>> \in DOMAIN seen.files => seen.files[<<p[1]>>] = <<-1>>)
OnFile == isFile(m, "file")
OnDirectory == isSubDir(m, "file")

SdOpen ==
  \E x \in (FilePaths \X Modes) \cup (DirPaths \X {{"read"}}) :
    /\ Idle /\ ("creat" \in x[2] => InDirectory(x[1]))
    /\ Call("open", "creat" \in x[2], "write" \in x[2], LAMBDA s : Quiet(SDClass_open(s, x[1], x[2])))
    /\ held' = IF last'.ok THEN [path |-> x[1], mode |-> x[2]] ELSE NotOpen

\* File::write, read, peek, seek, flush and close.
FileWrite ==
  /\ OnFile /\ UNCHANGED held
  /\ \E src \in Runs :
       Call("write", "write" \in held.mode, "append" \in held.mode,
            LAMBDA s : Quiet(write([s EXCEPT !.h["file"].werr = FALSE], "file", src)))
FileRead ==
  /\ OnFile /\ UNCHANGED held
  /\ \E n \in Counts : Call("read", FALSE, FALSE, LAMBDA s : read(s, "file", n))
peek(s) ==
  Then(read(s, "file", 1), LAMBDA t :
    IF t.out = <<>> THEN t
    ELSE [seekSet(t, "file", t.h["file"].pos - 1) EXCEPT !.ok = TRUE, !.out = t.out])
FilePeek == OnFile /\ UNCHANGED held /\ Call("peek", FALSE, TRUE, peek)
FileSeek ==
  /\ OnFile /\ UNCHANGED held
  /\ \E n \in Counts : Call("seek", FALSE, TRUE, LAMBDA s : Quiet(seekSet(s, "file", n)))
FileFlush == ~Idle /\ UNCHANGED held /\ Call("flush", FALSE, FALSE, LAMBDA s : Quiet(sync(s, "file")))
FileClose ==
  /\ ~Idle /\ held' = NotOpen
  /\ Call("close", FALSE, FALSE, LAMBDA s : Quiet(Drop(close(s, "file"), "file")))
\* SdFile's own truncate() and timestamp(), which File does not offer.
timestamp(s, h) == Then(cacheDirEntry(s, h, TRUE), LAMBDA t : sync(t, h))
FileTruncate ==
  /\ OnFile /\ UNCHANGED held
  /\ \E n \in Counts : Call("truncate", FALSE, TRUE, LAMBDA s : Quiet(truncate(s, "file", n)))
FileTimestamp ==
  OnFile /\ UNCHANGED held /\ Call("timestamp", FALSE, FALSE, LAMBDA s : Quiet(timestamp(s, "file")))

\* The sketch lists a directory, opening and dropping every file in it.
DirNext == OnDirectory /\ UNCHANGED held /\ Call("next", FALSE, FALSE, openNextFile)
DirRewind ==
  OnDirectory /\ UNCHANGED held /\ Call("rewind", FALSE, FALSE, LAMBDA s : Yes(rewind(s, "file")))

\* Calls on paths: a sketch does not remove what it holds open, and leaves
\* a directory alone while it lists it.
SdPathCall ==
  /\ UNCHANGED held
  /\ \E what \in {"exists", "mkdir", "remove", "rmdir"} :
     \E p \in (IF what \in {"mkdir", "rmdir"} THEN DirPaths ELSE FilePaths) :
       /\ what # "exists" => ~OnDirectory
       /\ what = "remove" => p # held.path
       /\ Call(what, what = "mkdir", what \in {"remove", "rmdir"},
               LAMBDA s : Quiet(walkPath(s, what, p, "root", "d1")))
\* SdFile's rmRfStar() on the root and createContiguous() in it.
RemoveEverything ==
  /\ Idle /\ UNCHANGED held
  /\ Call("rmrf", FALSE, TRUE, LAMBDA s : Quiet(rmRfStar(s, "root", Levels)))
MakeContiguous ==
  /\ Idle /\ UNCHANGED held
  /\ \E p \in FilePaths, n \in Counts :
       /\ Len(p) = 1
       /\ Call("contiguous", TRUE, FALSE, LAMBDA s :
                 Then(createContiguous(s, "root", "child", p[1], n),
                      LAMBDA t : Quiet(contiguousRange(t, "child"))))
\* begin() once more: the root is already open.
SdBegin == Idle /\ UNCHANGED held /\ Call("begin", FALSE, FALSE, LAMBDA s : Quiet(SDClass_begin(s)))

\* The power is cut between two calls and the sketch starts again.
PowerCut ==
  /\ calls < MaxCalls /\ ~cut /\ calls' = calls + 1
  /\ m' = [SDClass_begin(Fresh(m.card)) EXCEPT !.io = PLENTY, !.out = <<>>]
  /\ held' = NotOpen /\ UNCHANGED cut
  /\ last' = [call |-> "power", ok |-> TRUE, data |-> <<>>]
  /\ trouble' = IF trouble = "none" /\ ~Idle /\ ~(last.call = "flush" /\ last.ok) THEN "power" ELSE trouble

SdStep ==
  \/ SdOpen \/ FileWrite \/ FileRead \/ FilePeek \/ FileSeek \/ FileFlush \/ FileClose
  \/ FileTruncate \/ FileTimestamp \/ DirNext \/ DirRewind \/ SdPathCall
  \/ RemoveEverything \/ MakeContiguous \/ SdBegin \/ PowerCut
SdNext == SdStep /\ seen' = View(m', held')
SdSpec == SdInit /\ [][SdNext]_sdVars

-----------------------------------------------------------------------------
\* Chains of files and directories: they end, they hold what the directory
\* entry says, and no cluster is in two of them.
Sound(s) ==
  LET all == AllEntries(s)
      WellFormed(at) ==
        LET e == Entry(s, at)
            c == Chain(s, e.first)
        IN IF e.first = 0 THEN e.size = 0 /\ ~e.dir
           ELSE /\ c # <<>> /\ isEOC(Fat(s, c[Len(c)])) /\ Cardinality(Clusters(s, at)) = Len(c)
                /\ e.size <= UNITS * Len(c)
  IN /\ \A at \in all : WellFormed(at)
     /\ \A at, other \in all : at # other => Clusters(s, at) \cap Clusters(s, other) = {}

\* SdVolume::allocContiguous, freeChain and SdFile's bookkeeping: what the
\* sketch works on is a sound file system, after an I/O error too, unless
\* the error hit a call that was freeing clusters or moving the position
\* (a failed seekSet leaves curCluster_ and curPosition_ apart).
VolumeSound == ~cut => Sound(m)

\* The order in which the cache writes blocks back: whenever the power is
\* cut, the card alone holds a sound file system (same exception); and when
\* nothing is waiting to be written back both copies of the FAT agree.
CardSound ==
  /\ ~cut => Sound(Fresh(m.card))
  /\ trouble = "none" /\ ~m.dirty => \A c \in 0..Last : m.card[FatBlock(c)][c] = m.card[FatMirror(c)][c]

\* The volume in use and the card alone, through errors and power cuts.
FilesSound == VolumeSound /\ CardSound

\* Until something goes wrong no cluster is lost: what is not free belongs
\* to a file or a directory.
NoClusterLost ==
  trouble = "none" =>
    {c \in 2..Last : Fat(m, c) # 0} = UNION {Clusters(m, at) : at \in AllEntries(m)}

\* SdFile::write's documented reasons for failure (SdFile.cpp:1129-1130): a
\* write to a file open for writing that fails without an I/O error finds
\* the device full.
WriteFailsForAReason ==
  [][last'.call = "write" /\ ~last'.ok /\ trouble = "none" /\ trouble' = "room"
       => \A c \in 2..Last : Fat(m', c) # 0]_sdVars

\* SD.cpp, File.cpp, SdFile.cpp and SdVolume.cpp together implement the
\* abstract store, every call one step of it, until a call fails for want
\* of room or because of the card, or the power is cut on unsaved data.
Store == INSTANCE FileStore WITH
  files <- seen.files, fd <- seen.fd, got <- [ok |-> last.ok, data |-> last.data]
StoreSpec == Store!Init /\ [][trouble' = "none" => Store!Next]_<<seen, last, calls>>
=============================================================================
