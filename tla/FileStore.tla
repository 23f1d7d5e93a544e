----------------------------- MODULE FileStore ------------------------------
(***************************************************************************)
(* What fs::File promises a program that has a file to itself: a sequence  *)
(* of bytes and, for each open handle, a position in it.  A write replaces *)
(* everything from the position on (File::write ends the file where it     *)
(* stops), a read returns the bytes after the position.                    *)
(***************************************************************************)
EXTENDS Integers, Sequences

CONSTANTS
  Name,    \* File names
  Handle,  \* Handles of programs
  Byte,    \* Contents of a byte
  Bufs,    \* The buffers written
  NoFile,  \* A name without a file
  Closed,  \* A handle that is not open
  MaxSize  \* No file is larger

VARIABLES
  content,  \* content[n]: the bytes of file n, or NoFile
  position, \* position[h]: [name, at], or Closed
  answer    \* The bytes the last call returned

vars == <<content, position, answer>>

Init ==
  /\ content = [n \in Name |-> NoFile]
  /\ position = [h \in Handle |-> Closed]
  /\ answer = << >>

Open(h, n, at) ==
  /\ position[h] = Closed
  /\ content' = [content EXCEPT ![n] = IF @ = NoFile THEN << >> ELSE @]
  /\ at \in {0, Len(content'[n])}
  /\ position' = [position EXCEPT ![h] = [name |-> n, at |-> at]]
  /\ answer' = << >>

Seek(h, at) ==
  /\ position[h] # Closed
  /\ at \in 0 .. Len(content[position[h].name])
  /\ position' = [position EXCEPT ![h].at = at]
  /\ answer' = << >>
  /\ UNCHANGED content

Read(h, bytes) ==
  /\ position[h] # Closed
  /\ LET c    == content[position[h].name]
         at   == position[h].at
         left == Len(c) - at
         n    == IF bytes <= left THEN bytes ELSE left
     IN  /\ answer' = SubSeq(c, at + 1, at + n)
         /\ position' = [position EXCEPT ![h].at = at + n]
  /\ UNCHANGED content

Write(h, buf) ==
  /\ position[h] # Closed
  /\ LET n  == position[h].name
         at == position[h].at
     IN  /\ content' = [content EXCEPT ![n] = SubSeq(@, 1, at) \o buf]
         /\ position' = [position EXCEPT ![h].at = at + Len(buf)]
  /\ answer' = << >>

Close(h) ==
  /\ position[h] # Closed
  /\ position' = [position EXCEPT ![h] = Closed]
  /\ answer' = << >>
  /\ UNCHANGED content

Delete(n) ==
  /\ content[n] # NoFile
  /\ content' = [content EXCEPT ![n] = NoFile]
  /\ answer' = << >>
  /\ UNCHANGED position

(* A call that is refused: nothing changes. *)
Refuse == answer' = << >> /\ UNCHANGED <<content, position>>

Next ==
  \/ \E h \in Handle, n \in Name : \E at \in 0 .. MaxSize : Open(h, n, at)
  \/ \E h \in Handle :
       \/ Close(h)
       \/ \E at \in 0 .. MaxSize : Seek(h, at) \/ Read(h, at)
       \/ \E buf \in Bufs : Write(h, buf)
  \/ \E n \in Name : Delete(n)
  \/ Refuse

Spec == Init /\ [][Next]_vars
=============================================================================
