----------------------------- MODULE FileStore -----------------------------
(***************************************************************************)
(* What a sketch expects of the SD library: a tree of named files and      *)
(* directories, one of them open at a time, in which an operation either   *)
(* does what it says or says that it cannot.  A path is a sequence of      *)
(* names; files[p] is the content of p, or DIRECTORY.  `got' is what the   *)
(* last operation returned.                                                *)
(***************************************************************************)
EXTENDS Integers, Sequences

CONSTANTS FilePaths, DirPaths, Modes, Runs, Counts
DIRECTORY == <<-1>>    \* no content of a file
VARIABLES files, fd, got

NoFd == [path |-> <<>>, pos |-> 0, mode |-> {}, due |-> {}]
Holds(p) == p \in DOMAIN files
IsDir(p) == p = <<>> \/ (Holds(p) /\ files[p] = DIRECTORY)
IsFile(p) == Holds(p) /\ files[p] # DIRECTORY
Parent(p) == SubSeq(p, 1, Len(p) - 1)
Listed(p) == {q[Len(q)] : q \in {r \in DOMAIN files : SubSeq(r, 1, Len(r) - 1) = p}}
Children(p) == {q \in DOMAIN files : Parent(q) = p}
With(p, content) == [q \in DOMAIN files \cup {p} |-> IF q = p THEN content ELSE files[q]]
Without(p) == [q \in DOMAIN files \ {p} |-> files[q]]
Answer(ok, data) == got' = [ok |-> ok, data |-> data]
Refused == UNCHANGED <<files, fd>> /\ Answer(FALSE, <<>>)

Init == /\ \A p \in DOMAIN files : p \in FilePaths \cup DirPaths /\ IsDir(Parent(p))
        /\ fd = NoFd /\ got = [ok |-> TRUE, data |-> <<>>]

Open(p, mode) ==
  LET content == IF IsFile(p) /\ "trunc" \notin mode THEN files[p] ELSE <<>>
  IN IF IsDir(p) /\ mode = {"read"}
     THEN /\ fd' = [path |-> p, pos |-> 0, mode |-> mode, due |-> Listed(p)]
          /\ UNCHANGED files /\ Answer(TRUE, <<>>)
     ELSE IF IsFile(p) \/ (~Holds(p) /\ IsDir(Parent(p)) /\ "creat" \in mode)
     THEN /\ files' = With(p, content)
          /\ fd' = [path |-> p, mode |-> mode, due |-> {},
                    pos |-> IF "write" \in mode THEN Len(content) ELSE 0]
          /\ Answer(TRUE, <<>>)
     ELSE Refused

Write(src) ==
  LET old == files[fd.path]
      at == IF "append" \in fd.mode THEN Len(old) ELSE fd.pos
      end == at + Len(src)
      new == [i \in 1..(IF end > Len(old) THEN end ELSE Len(old)) |->
                IF i > at /\ i <= end THEN src[i - at] ELSE old[i]]
  IN IF IsFile(fd.path) /\ "write" \in fd.mode
     THEN files' = With(fd.path, new) /\ fd' = [fd EXCEPT !.pos = end] /\ Answer(TRUE, <<>>)
     ELSE Refused

Read(n) ==
  LET left == Len(files[fd.path]) - fd.pos
      k == IF n < left THEN n ELSE left
  IN /\ Answer(TRUE, SubSeq(files[fd.path], fd.pos + 1, fd.pos + k))
     /\ fd' = [fd EXCEPT !.pos = @ + k] /\ UNCHANGED files

Seek(pos) ==
  IF pos <= Len(files[fd.path])
  THEN fd' = [fd EXCEPT !.pos = pos] /\ UNCHANGED files /\ Answer(TRUE, <<>>) ELSE Refused

Truncate(length) ==
  IF "write" \in fd.mode /\ length <= Len(files[fd.path])
  THEN /\ files' = With(fd.path, SubSeq(files[fd.path], 1, length))
       /\ fd' = [fd EXCEPT !.pos = IF @ > length THEN length ELSE @] /\ Answer(TRUE, <<>>)
  ELSE Refused

\* One child that was not listed yet, or none when all were.
NextFile ==
  /\ \/ \E p \in fd.due : fd' = [fd EXCEPT !.due = @ \ {p}] /\ Answer(TRUE, <<p>>)
     \/ fd.due = {} /\ fd' = fd /\ Answer(TRUE, <<>>)
  /\ UNCHANGED files

RewindDirectory == fd' = [fd EXCEPT !.due = Listed(fd.path)] /\ UNCHANGED files /\ Answer(TRUE, <<>>)
Peek ==
  /\ Answer(TRUE, IF fd.pos = Len(files[fd.path]) THEN <<>> ELSE <<files[fd.path][fd.pos + 1]>>)
  /\ UNCHANGED <<files, fd>>
\* The power is cut: what was saved is there, and no file is open.
PowerCut == fd' = NoFd /\ UNCHANGED files /\ Answer(TRUE, <<>>)
Begin == Refused
Sync == UNCHANGED <<files, fd>> /\ Answer(TRUE, <<>>)
Close == fd' = NoFd /\ UNCHANGED files /\ Answer(TRUE, <<>>)
Exists(p) == UNCHANGED <<files, fd>> /\ Answer(Holds(p), <<>>)
Remove(p) ==
  IF IsFile(p) THEN files' = Without(p) /\ UNCHANGED fd /\ Answer(TRUE, <<>>) ELSE Refused
RmDir(p) ==
  IF IsDir(p) /\ Children(p) = {}
  THEN files' = Without(p) /\ UNCHANGED fd /\ Answer(TRUE, <<>>) ELSE Refused
RemoveAll == files' = <<>> /\ UNCHANGED fd /\ Answer(TRUE, <<>>)

\* mkdir makes the directories that are missing on the way.
MkDir(p) ==
  LET way == {SubSeq(p, 1, i) : i \in 1..Len(p)}
  IN IF \A q \in way \ {p} : ~IsFile(q)
     THEN /\ files' = [q \in DOMAIN files \cup way |-> IF Holds(q) THEN files[q] ELSE DIRECTORY]
          /\ UNCHANGED fd /\ Answer(TRUE, <<>>)
     ELSE Refused
MakeContiguous(p, n) ==
  IF ~Holds(p) /\ IsDir(Parent(p)) /\ n > 0
  THEN /\ p \in DOMAIN files' /\ Len(files'[p]) = n     \* whatever the disk held
       /\ files' = With(p, files'[p]) /\ UNCHANGED fd /\ Answer(TRUE, <<>>)
  ELSE Refused

OnFile ==
  \/ Peek
  \/ \E src \in Runs : Write(src)
  \/ \E n \in Counts : Read(n) \/ Seek(n) \/ Truncate(n)
OnTree ==
  \/ \E p \in FilePaths : \/ \E mode \in Modes : Open(p, mode)
                          \/ Remove(p) \/ Exists(p)
                          \/ \E n \in Counts : MakeContiguous(p, n)
  \/ \E p \in DirPaths : Open(p, {"read"}) \/ RmDir(p) \/ MkDir(p)
  \/ RemoveAll \/ Begin \/ PowerCut

Next == IF fd = NoFd THEN OnTree
        ELSE OnTree \/ Sync \/ Close \/ IF fd.mode # {} /\ IsDir(fd.path) THEN NextFile \/ RewindDirectory ELSE OnFile
Spec == Init /\ [][Next]_<<files, fd, got>>
=============================================================================
