---------------------------- MODULE ConsensusLog ----------------------------
(***************************************************************************)
(* The bounded log of consensus actions a v1 node keeps in its state       *)
(* (internal/ledger/consensus_wal.go).  An action is identified by type,   *)
(* height, round, block and validator; its status is pending, completed or *)
(* superseded.  Times, notes and replay counters are left out.             *)
(***************************************************************************)
EXTENDS Integers, Sequences

CONSTANT HistoryLimit    \* consensusActionHistoryLimit

ASSUME HistoryLimitAssumption == HistoryLimit \in Nat

Elements(seq) == {seq[i] : i \in 1..Len(seq)}

(* The elements of a sequence that are in a set, in their order.           *)
Only(seq, S) ==
    LET kept[i \in 0..Len(seq)] ==
          IF i = 0 THEN << >>
          ELSE IF seq[i] \in S THEN Append(kept[i - 1], seq[i]) ELSE kept[i - 1]
    IN  kept[Len(seq)]

ActionKey(action) ==
    <<action.type, action.height, action.round, action.block, action.validator>>

Pending(action) == action.status = "pending"

(* Mutant: the newest actions are kept, pending or not.                    *)
compactNewest(actions) ==
    IF Len(actions) <= HistoryLimit THEN actions
    ELSE SubSeq(actions, Len(actions) - HistoryLimit + 1, Len(actions))

(* compactConsensusActions: below the limit nothing moves; above it the    *)
(* pending actions come first and only the newest others are kept.         *)
compact(actions) ==
    LET pending == Only(actions, {a \in Elements(actions) : Pending(a)})
        history == Only(actions, {a \in Elements(actions) : ~ Pending(a)})
        room    == HistoryLimit - Len(pending)
        keep    == IF room < 0 THEN 0 ELSE room
        first   == IF Len(history) > keep THEN Len(history) - keep + 1 ELSE 1
    IN  IF Len(actions) <= HistoryLimit THEN actions
        ELSE pending \o SubSeq(history, first, Len(history))

(* recordConsensusActionIntoState: the same action again only takes the    *)
(* new status; a new pending action of a validator supersedes the pending  *)
(* ones it has of that type and height.                                    *)
recordAction(actions, action) ==
    IF \E i \in 1..Len(actions) : ActionKey(actions[i]) = ActionKey(action)
    THEN LET first == CHOOSE i \in 1..Len(actions) :
                        /\ ActionKey(actions[i]) = ActionKey(action)
                        /\ \A j \in 1..(i - 1) :
                              ActionKey(actions[j]) # ActionKey(action)
         IN  compact([actions EXCEPT ![first].status = action.status])
    ELSE LET supersedes(old) ==
               /\ Pending(action) /\ action.validator # ""
               /\ Pending(old)
               /\ old.type = action.type
               /\ old.validator = action.validator
               /\ old.height = action.height
             older == [i \in 1..Len(actions) |->
                         IF supersedes(actions[i])
                         THEN [actions[i] EXCEPT !.status = "superseded"]
                         ELSE actions[i]]
         IN  compact(Append(older, action))

(* completeConsensusActionsForHeightInState.                               *)
completeUpTo(actions, height) ==
    compact([i \in 1..Len(actions) |->
               IF Pending(actions[i]) /\ actions[i].height <= height
               THEN [actions[i] EXCEPT !.status = "completed"]
               ELSE actions[i]])

(* An action nobody has recorded yet; the default status of its type.      *)
NewAction(type, height, round, block, validator) ==
    [type |-> type, height |-> height, round |-> round, block |-> block,
     validator |-> validator,
     status |-> IF type \in {"proposal", "vote", "block_import"}
                THEN "pending" ELSE "completed"]
=============================================================================
