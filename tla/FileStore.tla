------------------------------ MODULE FileStore ------------------------------
(***************************************************************************)
(* What the file system promises (the FileSystem and Stream traits of      *)
(* file.rs): named files with an attribute and a sequence of blocks, and a *)
(* stable copy that a flush replaces and a reboot returns to.              *)
(***************************************************************************)
EXTENDS Integers, Sequences

CONSTANTS Names, Attrs, DefaultAttr, Fillings, NoBlock, MaxLen

VARIABLES files, stable

Init == files = <<>> /\ stable = <<>>

With(f, file) == [g \in DOMAIN files \cup {f} |-> IF g = f THEN file ELSE files[g]]

\* A file is created empty.
Create(f) ==
  /\ f \notin DOMAIN files
  /\ files' = With(f, [attr |-> DefaultAttr, data |-> <<>>])
  /\ UNCHANGED stable

\* A write puts one content in the blocks lo .. hi; the other blocks keep
\* theirs, and the file may grow by empty ones.
Write(f, c, lo, hi, len) ==
  /\ f \in DOMAIN files
  /\ Len(files[f].data) <= len /\ hi <= len
  /\ files' = [files EXCEPT ![f].data =
       [i \in 1 .. len |-> IF lo <= i /\ i <= hi THEN c
                           ELSE IF i <= Len(@) THEN @[i] ELSE NoBlock]]
  /\ UNCHANGED stable

SetAttr(f, a) ==
  /\ f \in DOMAIN files
  /\ files' = [files EXCEPT ![f].attr = a]
  /\ UNCHANGED stable

Delete(f) ==
  /\ f \in DOMAIN files
  /\ files' = [g \in DOMAIN files \ {f} |-> files[g]]
  /\ UNCHANGED stable

Flush  == stable' = files /\ UNCHANGED files
Reboot == files' = stable /\ UNCHANGED stable

Next ==
  \/ \E f \in Names :
       \/ Create(f)
       \/ \E a \in Attrs : SetAttr(f, a)
       \/ \E c \in Fillings, lo, hi \in 0 .. MaxLen, len \in 1 .. MaxLen :
            Write(f, c, lo, hi, len)
       \/ Delete(f)
  \/ Flush
  \/ Reboot

Spec == Init /\ [][Next]_<<files, stable>>
=============================================================================
