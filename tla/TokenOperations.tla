------------------------- MODULE TokenOperations --------------------------
(***************************************************************************)
(* Transfers and fungible tokens: internal/v2/execution/engine.go,         *)
(* token_mutation.go and internal/v2/assets/token.go.                      *)
(*                                                                         *)
(* A token is named by the transaction that created it; its definition is  *)
(* an object of the issuer's shard that a transfer reads and a mint or a   *)
(* burn rewrites.                                                          *)
(***************************************************************************)
EXTENDS ShardObjects

(* The cap compared before the new units are added.                        *)
CanMintStale(d, amount) ==
    /\ amount > 0
    /\ d.policy # "fixed"
    /\ d.supply + amount <= MaxUint
    /\ d.policy = "capped" => d.supply <= d.max

(* CreateToken.Validate on the parts the engine later relies on.           *)
ValidCreateToken(c) ==
    /\ c.supply > 0
    /\ CASE c.policy = "capped" -> c.max > 0 /\ c.supply <= c.max
         [] c.policy = "fixed" -> c.max > 0 /\ c.supply = c.max
         [] c.policy = "mintable" -> c.max = 0

CanMint(d, amount) ==
    /\ amount > 0
    /\ d.policy # "fixed"
    /\ d.supply + amount <= MaxUint
    /\ d.policy = "capped" => d.supply + amount <= d.max

CanBurn(d, amount) == d.burnable /\ amount > 0 /\ amount <= d.supply

Definitions(t) == {o \in t.inputs : o.kind = "definition"}

TransferableHere(t, token) ==
    \E d \in Definitions(t) : d.data.token = token /\ d.data.transferable

TokensIn(t) == {o.data.token : o \in {c \in t.inputs : c.kind = "coin"}}
TokensOut(t) == {t.outputs[i].data.token : i \in DOMAIN t.outputs}

(* The fee is charged where a native coin is spent: a transfer of custom   *)
(* tokens alone has no native column to charge it to.                      *)
FeeCharged(t) == IF t.op # "transfer" \/ NativeToken \in TokensIn(t) THEN t.fee ELSE 0

TransferBalances(t) ==
    /\ \A token \in TokensIn(t) :
          LET required == OutputAmount(t, token) + (IF token = NativeToken THEN t.fee ELSE 0) IN
          /\ TokenAmount(t.inputs, token) <= MaxUint
          /\ required <= MaxUint
          /\ token # NativeToken => TransferableHere(t, token)
          /\ TokenAmount(t.inputs, token) = required
    /\ TokensOut(t) \subseteq TokensIn(t)

executeTransfer(t, h, txid) ==
    IF /\ \A o \in t.inputs :
             \/ o.kind = "coin" /\ o.owner = t.sender
             \/ o.kind = "definition"
       /\ \A i \in DOMAIN t.outputs :
             t.outputs[i].data.token # NativeToken =>
                /\ TransferableHere(t, t.outputs[i].data.token)
                /\ ShardOf[t.outputs[i].owner] = HomeShard(t)
       /\ TransferBalances(t)
    THEN [ok |-> TRUE, consumed |-> t.inputs \ Definitions(t),
          created |-> Placed(t, txid, StampedOutputs(t, h)),
          outbound |-> Sent(t, StampedOutputs(t, h))]
    ELSE Refused

executeCreateToken(t, h, txid) ==
    LET definition == [token |-> txid, policy |-> t.arg.policy, max |-> t.arg.max,
                       supply |-> t.arg.supply, authority |-> t.sender,
                       burnable |-> t.arg.burnable, transferable |-> t.arg.transferable]
        issued == { Object(ObjectID(txid, DefinitionIndex, HomeShard(t)),
                           [owner |-> t.sender, kind |-> "definition", data |-> definition]),
                    Object(ObjectID(txid, InitialCoinIndex, HomeShard(t)),
                           CoinSpec(t.sender, txid, t.arg.supply, h)) }
    IN  IF /\ ValidCreateToken(t.arg)
           /\ t.arg.authority = t.sender
           /\ ValueBalances(t, {}, 0, 0)
        THEN [ok |-> TRUE, consumed |-> t.inputs,
              created |-> Placed(t, txid, StampedOutputs(t, h)) \cup issued,
              outbound |-> Sent(t, StampedOutputs(t, h))]
        ELSE Refused

executeMintToken(t, h, txid) ==
    LET definition == InputByID(t, t.arg.object)
        data == definition.data
    IN  feeOnly(/\ HasInput(t, t.arg.object, "definition")
                /\ data.authority = t.sender
                /\ CanMint(data, t.arg.amount)
                /\ ShardOf[t.arg.recipient] = HomeShard(t),
                t, h, txid, {definition}, {definition},
                { Updated(definition, [data EXCEPT !.supply = @ + t.arg.amount]),
                  Object(ObjectID(txid, MintIndex, HomeShard(t)),
                         CoinSpec(t.arg.recipient, data.token, t.arg.amount, h)) })

(* Anyone may burn their own units of a burnable token; what is left over  *)
(* goes back to the burner.                                                *)
BurnBalances(t, token, amount) ==
    /\ \A o \in t.inputs \ Definitions(t) : o.kind = "coin" /\ o.owner = t.sender
    /\ Cardinality(Definitions(t)) = 1
    /\ TokensIn(t) \cup TokensOut(t) \subseteq {NativeToken, token}
    /\ \A i \in DOMAIN t.outputs :
          /\ ShardOf[t.outputs[i].owner] = HomeShard(t)
          /\ t.outputs[i].data.token = token => t.outputs[i].owner = t.sender
    /\ TokenAmount(t.inputs, NativeToken) = OutputAmount(t, NativeToken) + t.fee
    /\ TokenAmount(t.inputs, token) = OutputAmount(t, token) + amount
    /\ TokenAmount(t.inputs, NativeToken) <= MaxUint
    /\ TokenAmount(t.inputs, token) <= MaxUint

executeBurnToken(t, h, txid) ==
    LET definition == InputByID(t, t.arg.object)
        data == definition.data
    IN  IF /\ HasInput(t, t.arg.object, "definition")
           /\ CanBurn(data, t.arg.amount)
           /\ BurnBalances(t, data.token, t.arg.amount)
        THEN [ok |-> TRUE, consumed |-> t.inputs,
              created |-> Placed(t, txid, StampedOutputs(t, h))
                            \cup {Updated(definition, [data EXCEPT !.supply = @ - t.arg.amount])},
              outbound |-> {}]
        ELSE Refused

=============================================================================
