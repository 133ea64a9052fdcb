------------------------ MODULE ContractOperations ------------------------
(***************************************************************************)
(* Contracts and device credentials: extended_contract.go and              *)
(* extended_devicecredential.go of the engine, the metered runtime of      *)
(* internal/v2/contracts and internal/v2/devicecredential.                 *)
(*                                                                         *)
(* The script interpreter is a library; what the engine sees of one run is *)
(* the steps it took, the objects it wrote and whether it failed.  A       *)
(* script is a record [steps, reads, writes]: which of the declared        *)
(* objects it touches, "all", "first" or "none", and a write stores the    *)
(* object's value plus one.                                                *)
(***************************************************************************)
EXTENDS ShardObjects

CONSTANT ScriptRuntimes     \* runtimes the engine can execute

Accessed(call) == {a.object : a \in call.accesses}
Writable(call) == {a.object : a \in {x \in call.accesses : x.write}}

(* The interpreter: state_write on an object that was not declared for     *)
(* writing fails the run, and so does running out of steps.                *)
ScriptRun(code, call, value) ==
    LET written == IF code.writes = "all" THEN Accessed(call) ELSE {}
    IN  [ok |-> written \subseteq Writable(call) /\ code.steps <= call.fuel,
         steps |-> code.steps,
         writes |-> [id \in written |-> (value[id] + 1) % 4]]

(* MeteredRuntime.Execute: a valid request, and nothing written outside    *)
(* what the call declared.                                                 *)
ValidRequest(call) ==
    /\ call.fuel > 0
    /\ Cardinality(Accessed(call)) = Cardinality(call.accesses)

MeteredOK(code, call, value) ==
    LET run == ScriptRun(code, call, value) IN
    /\ ValidRequest(call)
    /\ run.ok
    /\ run.steps <= call.fuel
    /\ DOMAIN run.writes \subseteq Writable(call)

executeDeployContract(t, h, txid) ==
    LET contract == Object(ObjectID(txid, ContractIndex, HomeShard(t)),
                           [owner |-> t.sender, kind |-> "contract",
                            data |-> [contract |-> txid, runtime |-> t.arg.runtime,
                                      code |-> t.arg.code]])
        state == Object(ObjectID(txid, ContractStateIndex, HomeShard(t)),
                        [owner |-> t.sender, kind |-> "contractState", data |-> [value |-> 0]])
    IN  feeOnly(t.arg.authority = t.sender /\ t.arg.runtime \in ScriptRuntimes,
                t, h, txid, {}, {},
                {contract} \cup (IF t.arg.initial THEN {state} ELSE {}))

(* A call reads the contract and the objects it declares; it rewrites the  *)
(* ones it wrote, pays the fee and leaves a receipt.                       *)
executeContractCall(t, h, txid) ==
    LET call == t.arg
        contract == InputByID(t, call.contract)
        touched == {o \in t.inputs : o.id \in Accessed(call)}
        value == [id \in Accessed(call) |-> InputByID(t, id).data.value]
        run == ScriptRun(contract.data.code, call, value)
        written == {o \in touched : o.id \in DOMAIN run.writes}
        receipt == [owner |-> t.sender, kind |-> "system",
                    data |-> [contract |-> contract.data.contract, fuel |-> run.steps]]
    IN  feeOnly(/\ HasInput(t, call.contract, "contract")
                /\ \A id \in Accessed(call) : HasInput(t, id, "contractState")
                /\ contract.data.runtime \in ScriptRuntimes
                /\ MeteredOK(contract.data.code, call, value),
                t, h, txid, {contract} \cup touched, written,
                {Updated(o, [value |-> run.writes[o.id]]) : o \in written}
                  \cup {Object(ObjectID(txid, ContractReceiptIndex, HomeShard(t)), receipt)})

-----------------------------------------------------------------------------
(* Device credentials.                                                     *)

LiveUntil(expires, h) == expires = 0 \/ expires > h

CredentialData(t, h, sequence) ==
    [key |-> t.arg.key, issued |-> h, expires |-> t.arg.expires, sequence |-> sequence]

executeCredentialRegister(t, h, txid) ==
    feeOnly(h > 0 /\ LiveUntil(t.arg.expires, h), t, h, txid, {}, {},
            {Object(ObjectID(txid, CredentialIndex, HomeShard(t)),
                    [owner |-> t.sender, kind |-> "credential",
                     data |-> CredentialData(t, h, 1)])})

OwnCredential(t) ==
    HasInput(t, t.arg.object, "credential") /\ InputByID(t, t.arg.object).owner = t.sender

executeCredentialUpdate(t, h, txid) ==
    LET current == InputByID(t, t.arg.object) IN
    feeOnly(/\ h > 0 /\ LiveUntil(t.arg.expires, h)
            /\ OwnCredential(t)
            /\ current.data.sequence < MaxUint,
            t, h, txid, {current}, {current},
            {Updated(current, CredentialData(t, h, current.data.sequence + 1))})

executeCredentialRevoke(t, h, txid) ==
    LET current == InputByID(t, t.arg.object) IN
    feeOnly(OwnCredential(t), t, h, txid, {current}, {current}, {})

=============================================================================
