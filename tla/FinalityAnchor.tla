--------------------------- MODULE FinalityAnchor ---------------------------
(***************************************************************************)
(* The append-only file of finalized checkpoints                           *)
(* (internal/v2/node/finality_anchor_store.go).  An observer keeps one     *)
(* outside its data directory as its high-water mark, and a witness keeps  *)
(* one as the journal of what it may sign.  A checkpoint is a height and   *)
(* the hash of the header finalized there; network and validator root are  *)
(* fixed for a file and left out.                                          *)
(***************************************************************************)
EXTENDS Naturals, Sequences

CONSTANT
    AnchorLimit   \* maxFinalityAnchorRecords

\* There is no file.
NoAnchor == [absent |-> TRUE]

\* What Current reports of a store that has recorded nothing.
NoCheckpoint == [height |-> 0, hash |-> "none"]

\* FinalityCheckpoint.Validate: a checkpoint names a block above genesis.
ValidCheckpoint(cp) == cp.height > 0 /\ cp.hash # "none"

\* A file: its records, and a last write that did not complete.
AnchorFile(records, torn) == [records |-> records, torn |-> torn]

\* Creation is exclusive; a file is reopened only when every record of it is
\* whole and higher than the one before.
CanOpenAnchor(file, create) ==
    IF create
      THEN file = NoAnchor
      ELSE /\ file # NoAnchor
           /\ ~file.torn
           /\ Len(file.records) <= AnchorLimit
           /\ \A i \in 1..Len(file.records) :
                /\ ValidCheckpoint(file.records[i])
                /\ i > 1 => file.records[i].height > file.records[i - 1].height

\* The file after OpenFinalityAnchorStore.
OpenedFile(file, create) == IF create THEN AnchorFile(<<>>, FALSE) ELSE file

\* The store in memory: the last record, the number of records and whether a
\* failed write has poisoned it.
OpenFinalityAnchorStore(file) ==
    [tip      |-> IF file.records = <<>> THEN NoCheckpoint ELSE file.records[Len(file.records)],
     count    |-> Len(file.records),
     poisoned |-> FALSE]

\* The checkpoints advance refuses: invalid, lower, or another header at the
\* recorded height.
Regresses(store, cp) ==
    \/ store.poisoned
    \/ ~ValidCheckpoint(cp)
    \/ cp.height < store.tip.height
    \/ cp.height = store.tip.height /\ cp.hash # store.tip.hash

\* The possible results of advance: refused or already recorded without a
\* write, written and synced, or a write or sync that fails and poisons the
\* store, after which the record is on disk, in part, or not at all.
advance(store, file, cp) ==
    LET Result(s, f, ok) == [store |-> s, file |-> f, ok |-> ok]
        written  == AnchorFile(Append(file.records, cp), FALSE)
        poisoned == [store EXCEPT !.poisoned = TRUE]
    IN  IF Regresses(store, cp)
          THEN {Result(store, file, FALSE)}
        ELSE IF cp.height = store.tip.height
          THEN {Result(store, file, TRUE)}
        ELSE IF store.count >= AnchorLimit
          THEN {Result(store, file, FALSE)}
        ELSE {Result([store EXCEPT !.tip = cp, !.count = @ + 1], written, TRUE),
              Result(poisoned, written, FALSE),
              Result(poisoned, file, FALSE),
              Result(poisoned, AnchorFile(file.records, TRUE), FALSE)}
=============================================================================
