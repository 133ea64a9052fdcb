---------------------------- MODULE DurableStore ----------------------------
(***************************************************************************)
(* What the state store of one shard promises to the runtime: a delta that *)
(* was acknowledged survives, one that failed either happened completely   *)
(* or not at all, and opening the store shows exactly what survived.       *)
(* Module GlobalCommit is written against this promise.                    *)
(***************************************************************************)

CONSTANTS
    Objects,        \* the identifiers of the objects of the shard
    Deltas,         \* the deltas a caller may apply
    Valid(_, _),    \* Valid(objs, d): the delta fits the object set
    Result(_, _)    \* Result(objs, d): the object set after the delta

VARIABLES
    usable,   \* the store is open and its last Apply did not fail
    value,    \* what a reader of the open store finds
    durable   \* what the next open will find

svars == <<usable, value, durable>>

SInit == usable = FALSE /\ value = {} /\ durable = {}

SOpen ==
    /\ ~usable
    /\ usable' = TRUE
    /\ value' = durable
    /\ UNCHANGED durable

SApply ==
    /\ usable
    /\ \E d \in Deltas : Valid(value, d) /\ value' = Result(value, d)
    /\ durable' = value'
    /\ UNCHANGED usable

\* The store fails, crashes or is closed; a delta in progress may survive.
SStop ==
    /\ usable
    /\ usable' = FALSE
    /\ \/ UNCHANGED durable
       \/ \E d \in Deltas : Valid(value, d) /\ durable' = Result(value, d)
    /\ UNCHANGED value

SNext == SOpen \/ SApply \/ SStop

SSpec == SInit /\ [][SNext]_svars
=============================================================================
