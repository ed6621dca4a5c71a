------------------------------ MODULE FileStore ------------------------------
(***************************************************************************)
(* What fs.hpp promises of a read-only file system: a caller opens a path, *)
(* moves a cursor over the bytes of the file and reads them.  No disk, no  *)
(* clusters, no buffers; a call is one step.                               *)
(***************************************************************************)
EXTENDS Integers, Sequences

CONSTANTS
  Handles,        \* the File objects the system can hand out
  Nobody,         \* a null File*
  Paths,          \* the paths a caller may open
  ReadSizes,      \* the byte counts a caller may ask for
  SeekTargets,    \* the positions a caller may seek to
  Missing,        \* what a path that names nothing resolves to
  Target(_),      \* the file a path names, or Missing
  Content(_)      \* the bytes of a file

VARIABLES
  cursor,         \* per handle: the open file and the position in it, or Closed
  answer          \* what the last call returned

Closed == [file |-> Missing, pos |-> 0]

Waiting == [op |-> "waiting"]

IsOpen(h) == cursor[h] # Closed

Least(a, b) == IF a < b THEN a ELSE b

Init ==
  /\ cursor = [h \in Handles |-> Closed]
  /\ answer = Waiting

(* A call begins: it has no answer yet and has changed nothing.            *)
Ask == answer' = Waiting /\ UNCHANGED cursor

(* A path that names a file opens it while a handle is free.               *)
Open(path) ==
  \/ /\ Target(path) # Missing
     /\ \E h \in Handles :
          /\ ~IsOpen(h)
          /\ cursor' = [cursor EXCEPT ![h] = [file |-> Target(path), pos |-> 0]]
          /\ answer' = [op |-> "open", path |-> path, handle |-> h]
  \/ /\ Target(path) = Missing \/ \A h \in Handles : IsOpen(h)
     /\ answer' = [op |-> "open", path |-> path, handle |-> Nobody]
     /\ UNCHANGED cursor

(* A read delivers the n bytes at the cursor, or as many as there are.     *)
Read(h, n) ==
  LET c   == cursor[h]
      end == Least(c.pos + n, Len(Content(c.file)))
  IN  /\ IsOpen(h)
      /\ cursor' = [cursor EXCEPT ![h].pos = end]
      /\ answer' = [op |-> "read", handle |-> h, start |-> c.pos, want |-> n,
                    got |-> SubSeq(Content(c.file), c.pos + 1, end)]

(* A seek within the file moves the cursor.  At the end of the file it     *)
(* moves it too, but may answer either way.                                *)
Seek(h, p) ==
  LET size == Len(Content(cursor[h].file))
  IN  /\ IsOpen(h)
      /\ cursor' = IF p <= size THEN [cursor EXCEPT ![h].pos = p] ELSE cursor
      /\ \E ok \in {p < size, p <= size} :
           answer' = [op |-> "seek", handle |-> h, to |-> p, ok |-> ok]

Close(h) ==
  /\ IsOpen(h)
  /\ cursor' = [cursor EXCEPT ![h] = Closed]
  /\ answer' = [op |-> "close", handle |-> h]

Next ==
  \/ Ask
  \/ \E path \in Paths : Open(path)
  \/ \E h \in Handles :
       \/ \E n \in ReadSizes : Read(h, n)
       \/ \E p \in SeekTargets : Seek(h, p)
       \/ Close(h)

Spec == Init /\ [][Next]_<<cursor, answer>>
=============================================================================
