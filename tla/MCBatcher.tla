------------------------------- MODULE MCBatcher -------------------------------
(* An instance of Batcher for TLC. *)
EXTENDS Batcher

\* "a/bc", "ab/c" and "a/c": without the "/" two of the keys were one, without the
\* namespace another two.
MCTargets ==
  {[namespace |-> <<"a">>, name |-> <<"b", "c">>],
   [namespace |-> <<"a", "b">>, name |-> <<"c">>],
   [namespace |-> <<"a">>, name |-> <<"c">>]}

\* The first two keys collide.
MCHash(key) == Len(key) % 4
=============================================================================
