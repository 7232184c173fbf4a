------------------------------- MODULE Units -------------------------------
(***************************************************************************)
(* What the streams of a download are made of.  A unit stands for the      *)
(* bytes that are always parsed together: the text of a header line, a     *)
(* digit, a digest, one of the pieces of an image.                         *)
(***************************************************************************)

Unit(kind, n) == [kind |-> kind, n |-> n, at |-> 0]

CR == Unit("cr", 0)
LF == Unit("lf", 0)

=============================================================================
