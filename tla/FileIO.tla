------------------------------- MODULE FileIO -------------------------------
(***************************************************************************)
(* BridgeLib::File and FileSystemClass (libraries/Bridge/src/FileIO.cpp): a *)
(* File over the stream FILE * or the directory stream DIR * of the name it *)
(* was opened with, and calls that work on names.  Only lengths and         *)
(* positions are kept of the contents.  What stdio does with its buffer     *)
(* and the kernel with its files is external.                               *)
(***************************************************************************)
EXTENDS Integers, Sequences

CONSTANTS
  Name,       \* the names a sketch uses
  MaxSize,    \* bound: bytes of a file
  MaxBuffer,  \* bound: bytes stdio keeps back
  Listing     \* what readdir() gives: a sequence of kinds
ASSUME SizeAssumption == MaxSize \in Nat

VARIABLES
  disk,    \* kernel: per name [kind, len]
  file,    \* the File: kind "none", "file" or "dir" (_file, _dir), name, mode
  stream,  \* stdio: position, bytes not written yet; and whether the name was
           \* removed or made again, with the length of the file that is left
  listed   \* how far readdir() came, and what openNextFile() returned so far
fileVars == <<disk, file, stream, listed>>

Nothing == [kind |-> "none", len |-> 0]
Folder == [kind |-> "dir", len |-> 0]
NoFile == [kind |-> "none", name |-> "", mode |-> ""]
NoStream == [pos |-> 0, pend |-> 0, orphan |-> FALSE, len |-> 0]
Unlisted == [at |-> 0, given |-> <<>>]
FilesInit == disk \in [Name -> {Nothing, Folder, [kind |-> "file", len |-> 2]}]
             /\ file = NoFile /\ stream = NoStream /\ listed = Unlisted

OnStream == file.kind = "file"
Longer(a, b) == IF a >= b THEN a ELSE b
\* The length of the open file, without what stdio keeps back.
LengthOf(s) == IF s.orphan THEN s.len ELSE disk[file.name].len
SetLength(s, nm) ==
  IF s.orphan THEN [s EXCEPT !.len = nm] ELSE s
DiskWith(s, nm) == IF s.orphan THEN disk ELSE [disk EXCEPT ![file.name].len = nm]

\* fflush(), and what every seek and read does first.
Flushed(s) == [SetLength(s, Longer(LengthOf(s), s.pos)) EXCEPT !.pend = 0]
DiskFlushed(s) == IF s.pend = 0 THEN disk ELSE DiskWith(s, Longer(LengthOf(s), s.pos))
Settled(s) == IF s.pend = 0 THEN s ELSE Flushed(s)
Length(s) == IF s.pend = 0 THEN LengthOf(s) ELSE Longer(LengthOf(s), s.pos)

-----------------------------------------------------------------------------
\* File(name, mode), and close() in the destructor.  Only what exists is
\* opened, whatever the mode; "w+" empties it.
Open(nm, mode) ==
  /\ file = NoFile /\ disk[nm].kind # "none"
  /\ file' = [kind |-> disk[nm].kind, name |-> nm, mode |-> mode]
  /\ disk' = IF mode = "w+" /\ disk[nm].kind = "file" THEN [disk EXCEPT ![nm].len = 0] ELSE disk
  /\ \E p \in {0, disk'[nm].len} : (mode # "a" => p = 0) /\ stream' = [NoStream EXCEPT !.pos = p]
  /\ listed' = Unlisted
FileCloses ==
  /\ file # NoFile /\ file' = NoFile /\ stream' = NoStream /\ listed' = Unlisted
  /\ disk' = IF OnStream THEN DiskFlushed(stream) ELSE disk

WriteBytes ==
  /\ OnStream /\ file.mode # "r"
  /\ LET at == IF file.mode = "a" THEN Length(stream) ELSE stream.pos
     IN at < MaxSize /\ stream.pend < MaxBuffer
        /\ stream' = [stream EXCEPT !.pos = at + 1, !.pend = @ + 1]
  /\ UNCHANGED <<disk, file, listed>>
\* flush(), or stdio's buffer is full.
FileFlushes ==
  /\ OnStream /\ stream.pend > 0
  /\ stream' = Flushed(stream) /\ disk' = DiskFlushed(stream) /\ UNCHANGED <<file, listed>>

Moves(p) ==
  /\ stream' = [Settled(stream) EXCEPT !.pos = p] /\ disk' = DiskFlushed(stream)
  /\ UNCHANGED <<file, listed>>
ForReading == OnStream /\ file.mode # "a"
\* getc() and fread().
ReadBytes(k) ==
  ForReading /\ Moves(IF stream.pos + k <= Length(stream) THEN stream.pos + k ELSE Longer(stream.pos, Length(stream)))
FileSeeks(p) == OnStream /\ Moves(p)
\* The third argument of the fseek() in peek() is where ftell() then is: 1 is
\* SEEK_CUR, 2 is SEEK_END, and any other is refused.
filePeek ==
  LET pos == stream.pos
  IN /\ ForReading
     /\ Moves(IF pos >= Length(stream) THEN pos
              ELSE IF pos = 1 THEN Length(stream) + pos ELSE pos + 1)

\* Mutant: the length is the one at the last flush or open of any name.
size_Kept(s) == IF s.orphan THEN s.len ELSE disk[file.name].len + s.pend
\* stat() of the name, not of the file that is open.
size(s) == IF disk[file.name].kind = "file" THEN disk[file.name].len ELSE 0
fileAvailable == size(stream) - stream.pos

\* readdir() until a file or a directory that is not "." or "..".
openNextFile ==
  /\ file.kind = "dir" /\ listed.at < Len(Listing)
  /\ LET later == {e \in listed.at + 1 .. Len(Listing) : Listing[e] \in {"file", "dir"}}
         next == IF later = {} THEN Len(Listing) ELSE CHOOSE e \in later : \A j \in later : e <= j
     IN listed' = [at |-> next, given |-> IF later = {} THEN listed.given ELSE Append(listed.given, next)]
  /\ UNCHANGED <<disk, file, stream>>
rewindDirectory == file.kind = "dir" /\ listed' = Unlisted /\ UNCHANGED <<disk, file, stream>>

-----------------------------------------------------------------------------
\* FileSystem.mkdir(), remove() and rmdir(); remove() takes an empty
\* directory too.  The open file lives on without its name.
Orphaned(nm) ==
  stream' = IF OnStream /\ file.name = nm /\ ~stream.orphan
            THEN [stream EXCEPT !.orphan = TRUE, !.len = disk[nm].len] ELSE stream
MakeDirectory(nm) ==
  /\ disk[nm].kind = "none" /\ disk' = [disk EXCEPT ![nm] = Folder]
  /\ UNCHANGED <<file, stream, listed>>
RemoveName(nm) ==
  /\ disk[nm].kind # "none" /\ disk' = [disk EXCEPT ![nm] = Nothing] /\ Orphaned(nm)
  /\ UNCHANGED <<file, listed>>

FilesNext ==
  \/ \E nm \in Name, mode \in {"r", "r+", "a", "w+"} : Open(nm, mode)
  \/ FileCloses \/ WriteBytes \/ FileFlushes \/ filePeek
  \/ \E k \in 1 .. 2 : ReadBytes(k)
  \/ \E p \in 0 .. MaxSize : FileSeeks(p)
  \/ openNextFile \/ rewindDirectory
  \/ \E nm \in Name : MakeDirectory(nm) \/ RemoveName(nm)
FilesSpec == FilesInit /\ [][FilesNext]_fileVars

-----------------------------------------------------------------------------
\* A sketch loops while available(): it is positive exactly when the next
\* read() takes a byte, although the length comes from the disk and the
\* position from stdio, which keeps bytes back; unless the name was removed.
AvailableIsReadable ==
  ForReading /\ ~stream.orphan => (fileAvailable > 0) = (stream.pos < Length(stream))
=============================================================================
