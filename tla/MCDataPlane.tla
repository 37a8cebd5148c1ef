----------------------------- MODULE MCDataPlane -----------------------------
(* Two senders, three epochs and an epoch byte of two values: epochs 0 and 2 *)
(* share it.  The tables of derived words: all different; equal for two      *)
(* senders of an epoch; equal for one sender in every epoch.                 *)
EXTENDS DataPlane

CONSTANT group

MCLeaves == {0, 2}
MCBits == 0 .. 1

Table(spi(_, _)) ==
  [spi |-> [e \in Epochs |-> [l \in MCLeaves \union {group} |-> spi(e, l)]],
   mask |-> [e \in Epochs |-> [i \in MCBits |-> i = e % 2]]]

Word(l) == IF l = group THEN 5 ELSE l
Distinct(e, l) == Word(l) + 8 * e
OneWord(e, l) == IF e = 1 THEN 2 ELSE Word(l) + 8 * e
SameWord(e, l) == Word(l)

MCKDFs == {Table(Distinct), Table(OneWord), Table(SameWord)}
=============================================================================
