-------------------------- MODULE MCWorldStateDisk --------------------------
(* Three objects that are created, moved into one another and replaced.      *)
EXTENDS WorldStateDisk

CONSTANTS a, b, c

MCDeltas ==
    { [consumed |-> {}, created |-> {a}],
      [consumed |-> {}, created |-> {b, c}],
      [consumed |-> {a}, created |-> {b}],
      [consumed |-> {b}, created |-> {a, b}],
      [consumed |-> {a, b}, created |-> {}] }
=============================================================================
