--------------------------- MODULE ShardObjects ---------------------------
(***************************************************************************)
(* Objects, transactions and the value bookkeeping every operation of the  *)
(* v2 engine shares (internal/v2/object, internal/v2/tx and the helpers of *)
(* internal/v2/execution).                                                 *)
(*                                                                         *)
(* A transaction carries the objects it spends or reads as witnesses, each *)
(* proved against the state root of its shard, so a witness IS an object   *)
(* of the shard's current state and t.inputs is a set of such objects.     *)
(* Outputs, recipients and amounts are what the wallet wrote; the engine's *)
(* checks decide.  Engine results are records                              *)
(*     [ok, consumed, created, outbound]                                   *)
(* and ok = FALSE stands for every error return: the transaction, and with *)
(* it the candidate that carries it, is not built.                         *)
(***************************************************************************)
EXTENDS Integers, Sequences, FiniteSets

F == INSTANCE FiniteSetsExt

CONSTANTS
    Shards,         \* shard numbers; 0 carries the monetary state
    Accounts,       \* account identifiers, in the order the code sorts them
    ShardOf,        \* [Accounts -> Shards], types.AccountShard
    NativeToken,    \* the token the fees are paid in
    MaxUint         \* largest uint64 of the model

ASSUME ObjectAssumption ==
    /\ ShardOf \in [Accounts -> Shards]
    /\ MaxUint \in Nat \ {0}
    /\ Accounts \subseteq Nat \ {0}

NoAccount == 0      \* the zero account, owner of system objects

(* Output indices the engine reserves for the objects it makes itself.     *)
DefinitionIndex == 80
InitialCoinIndex == 81
MintIndex == 82
ContractIndex == 90
ContractStateIndex == 91
ContractReceiptIndex == 92
CredentialIndex == 95
ComputeOfferIndex == 100
ComputeJobIndex == 101
ComputeIndex == 102
LoanOfferIndex == 120
LoanIndex == 121
PayoutIndex == 122
CrossOfferIndex == 130
CrossAcceptanceIndex == 131
CrossActivationIndex == 132
CrossPrincipalIndex == 133
CrossRepaymentIndex == 134
CrossReturnIndex == 135

ObjectID(txid, index, shard) == [tx |-> txid, index |-> index, shard |-> shard]

Object(id, spec) ==
    [id |-> id, version |-> 1, owner |-> spec.owner, kind |-> spec.kind, data |-> spec.data]

Updated(o, data) ==
    [id |-> o.id, version |-> o.version + 1, owner |-> o.owner, kind |-> o.kind, data |-> data]

CoinSpec(owner, token, amount, height) ==
    [owner |-> owner, kind |-> "coin",
     data |-> [token |-> token, amount |-> amount, created |-> height]]

SystemObject(id, data) ==
    [id |-> id, version |-> 1, owner |-> NoAccount, kind |-> "system", data |-> data]

(* Native value an object stands for: what its holder, or the contract     *)
(* that locked it, can later turn back into coins.                         *)
NativeValue(spec) ==
    CASE spec.kind = "coin" ->
            IF spec.data.token = NativeToken THEN spec.data.amount ELSE 0
      [] spec.kind = "loanOffer" -> spec.data.principal
      [] spec.kind = "loan" -> spec.data.terms.collateral
      [] spec.kind = "crossOffer" -> spec.data.terms.principal
      [] spec.kind = "crossAcceptance" -> spec.data.terms.collateral
      [] spec.kind = "crossRepayment" -> spec.data.amount
      [] spec.kind = "computeOffer" -> spec.data.collateral
      [] spec.kind = "assignment" -> spec.data.job.collateral
      [] spec.kind = "job" ->
            spec.data.escrow + Cardinality(spec.data.assignments) * spec.data.job.collateral
      [] OTHER -> 0

TotalNative(specs) == F!MapThenSumSet(NativeValue, specs)

TokenAmount(specs, token) ==
    LET amount(o) == IF o.kind = "coin" /\ o.data.token = token THEN o.data.amount ELSE 0
    IN  F!MapThenSumSet(amount, specs)

OutputAmount(t, token) ==
    LET amount(i) == IF t.outputs[i].data.token = token THEN t.outputs[i].data.amount ELSE 0
    IN  F!MapThenSumSet(amount, DOMAIN t.outputs)

Refused == [ok |-> FALSE, consumed |-> {}, created |-> {}, outbound |-> {}]

HomeShard(t) == ShardOf[t.sender]

(* stampCoinOutput: the executed output carries the block's height, not    *)
(* the wallet's.                                                           *)
stampCoinOutput(spec, h) == [spec EXCEPT !.data.created = h]

StampedOutputs(t, h) == [i \in DOMAIN t.outputs |-> stampCoinOutput(t.outputs[i], h)]

(* Outputs as objects of the sender's shard, or as outbound outputs when   *)
(* their owner lives elsewhere.                                            *)
Placed(t, txid, outputs) ==
    { Object(ObjectID(txid, i, HomeShard(t)), outputs[i]) :
        i \in {j \in DOMAIN outputs : ShardOf[outputs[j].owner] = HomeShard(t)} }

Sent(t, outputs) ==
    { [shard |-> ShardOf[outputs[i].owner], index |-> i, output |-> outputs[i]] :
        i \in {j \in DOMAIN outputs : ShardOf[outputs[j].owner] # HomeShard(t)} }

(* feeOnlyOutputsExcluding: apart from the objects the operation itself    *)
(* names, the inputs are the sender's native coins, they pay for the       *)
(* outputs and the fee exactly, and everything stays on this shard.        *)
FeesBalance(t, special) ==
    LET coins == t.inputs \ special IN
    /\ \A o \in coins : o.kind = "coin" /\ o.owner = t.sender /\ o.data.token = NativeToken
    /\ \A i \in DOMAIN t.outputs :
          t.outputs[i].data.token = NativeToken /\ ShardOf[t.outputs[i].owner] = HomeShard(t)
    /\ TotalNative(coins) <= MaxUint
    /\ OutputAmount(t, NativeToken) + t.fee <= MaxUint
    /\ TotalNative(coins) = OutputAmount(t, NativeToken) + t.fee

feeOnly(ok, t, h, txid, special, spent, made) ==
    IF ok /\ FeesBalance(t, special)
    THEN [ok |-> TRUE, consumed |-> (t.inputs \ special) \cup spent,
          created |-> Placed(t, txid, StampedOutputs(t, h)) \cup made, outbound |-> {}]
    ELSE Refused

(* accountNativeValue: value the operation releases plus the sender's      *)
(* coins pays for what the operation locks or hands out, the outputs and   *)
(* the fee.  Outputs keep the height the wallet wrote.                     *)
ValueBalances(t, special, internalIn, internalOut) ==
    LET coins == t.inputs \ special IN
    /\ \A o \in coins : o.kind = "coin" /\ o.owner = t.sender /\ o.data.token = NativeToken
    /\ \A i \in DOMAIN t.outputs : t.outputs[i].data.token = NativeToken
    /\ internalIn + TotalNative(coins) <= MaxUint
    /\ internalOut + OutputAmount(t, NativeToken) + t.fee <= MaxUint
    /\ internalIn + TotalNative(coins) = internalOut + OutputAmount(t, NativeToken) + t.fee

accountNativeValue(ok, t, txid, special, internalIn, internalOut, made, sent) ==
    IF ok /\ ValueBalances(t, special, internalIn, internalOut)
    THEN [ok |-> TRUE, consumed |-> t.inputs,
          created |-> Placed(t, txid, t.outputs) \cup made,
          outbound |-> Sent(t, t.outputs) \cup sent]
    ELSE Refused

(* The witness of the input with this identifier.                          *)
HasInput(t, id, kind) == \E o \in t.inputs : o.id = id /\ o.kind = kind
InputByID(t, id) == CHOOSE o \in t.inputs : o.id = id

(* witnessByKind: exactly one input of the kind.                           *)
HasOneOf(t, kind) == Cardinality({o \in t.inputs : o.kind = kind}) = 1
InputOfKind(t, kind) == CHOOSE o \in t.inputs : o.kind = kind

=============================================================================
