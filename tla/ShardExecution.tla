-------------------------- MODULE ShardExecution --------------------------
(***************************************************************************)
(* One block over all shards: the batch rules of execution/parallel.go,    *)
(* the candidate of node/runtime.go (transactions, then receipt imports)   *)
(* and the receipts of internal/v2/sharding.                               *)
(***************************************************************************)
EXTENDS TokenOperations, ContractOperations, ComputeOperations, LendingOperations

MarkerIndex == 200

Execute(t, h, txid) ==
    CASE t.op = "transfer"        -> executeTransfer(t, h, txid)
      [] t.op = "createToken"     -> executeCreateToken(t, h, txid)
      [] t.op = "mint"            -> executeMintToken(t, h, txid)
      [] t.op = "burn"            -> executeBurnToken(t, h, txid)
      [] t.op = "deploy"          -> executeDeployContract(t, h, txid)
      [] t.op = "call"            -> executeContractCall(t, h, txid)
      [] t.op = "register"        -> executeCredentialRegister(t, h, txid)
      [] t.op = "renew"           -> executeCredentialUpdate(t, h, txid)
      [] t.op = "revoke"          -> executeCredentialRevoke(t, h, txid)
      [] t.op = "computeOffer"    -> executeComputeOffer(t, h, txid)
      [] t.op = "computeJob"      -> executeComputeJob(t, h, txid)
      [] t.op = "computeAccept"   -> executeComputeAccept(t, h, txid)
      [] t.op = "computeResult"   -> executeComputeResult(t, h, txid)
      [] t.op = "ingestAssignment" -> executeComputeIngestAssignment(t, h, txid)
      [] t.op = "ingestResult"    -> executeComputeIngestResult(t, h, txid)
      [] t.op = "computeFinalize" -> executeComputeFinalize(t, h, txid)
      [] t.op = "computeResolve"  -> executeComputeResolve(t, h, txid)
      [] t.op = "computeExpire"   -> executeComputeExpire(t, h, txid)
      [] t.op = "loanOffer"       -> executeLoanOffer(t, h, txid)
      [] t.op = "loanCancel"      -> executeLoanCancel(t, h, txid)
      [] t.op = "loanAccept"      -> executeLoanAccept(t, h, txid)
      [] t.op = "loanRepay"       -> executeLoanRepay(t, h, txid)
      [] t.op = "loanDefault"     -> executeLoanDefault(t, h, txid)
      [] t.op = "crossOffer"      -> executeCrossLoanOffer(t, h, txid)
      [] t.op = "crossAccept"     -> executeCrossLoanAccept(t, h, txid)
      [] t.op = "crossRepay"      -> executeCrossLoanRepay(t, h, txid)
      [] t.op = "crossSettle"     -> executeCrossLoanSettle(t, h, txid)
      [] t.op = "crossDefault"    -> executeCrossLoanDefault(t, h, txid)
      [] t.op = "crossExpire"     -> executeCrossLoanExpire(t, h, txid)

(* Every declared object of a call taken for a read.                       *)
ReadOnlyAll(t) ==
    CASE t.op = "transfer" -> {o.id : o \in Definitions(t)}
      [] t.op = "call"     -> {t.arg.contract} \cup Accessed(t.arg)
      [] OTHER             -> {}

-----------------------------------------------------------------------------
(* Batches.  Every input is a write except the definitions a transfer      *)
(* reads and the contract and read-only objects of a call.                 *)

ReadOnly(t) ==
    CASE t.op = "transfer" -> {o.id : o \in Definitions(t)}
      [] t.op = "call"     -> {t.arg.contract} \cup (Accessed(t.arg) \ Writable(t.arg))
      [] OTHER             -> {}

InputIDs(t) == {o.id : o \in t.inputs}

Independent(t, u) ==
    /\ t # u
    /\ InputIDs(t) \cap InputIDs(u) \subseteq ReadOnly(t) \cap ReadOnly(u)

validateIndependentBatch(batch) ==
    \A i, j \in DOMAIN batch : i # j => Independent(batch[i], batch[j])

(* What a block does to a shard: an object map with the consumed objects   *)
(* removed and the created ones put in their place.                        *)
Applied(objects, consumed, created) == (objects \ consumed) \cup created

-----------------------------------------------------------------------------
(* Receipts.                                                               *)

Receipts(results, h, s) ==
    UNION { { [source |-> s, dest |-> o.shard, height |-> h, tx |-> <<h, s, k>>,
               index |-> o.index, output |-> o.output] : o \in results[k].outbound } :
            k \in DOMAIN results }

DestinationObject(r) == Object(ObjectID(r.tx, r.index, r.dest), r.output)

(* The marker's identifier is derived from the receipt's hash.             *)
ReceiptMarker(r) ==
    SystemObject(ObjectID(Append(r.tx, r.index), MarkerIndex, r.dest), [receipt |-> r.tx])

(* The marker forgotten: only the object itself is looked for.             *)
ImportableUnmarked(r, objects, h) ==
    /\ r.height < h
    /\ DestinationObject(r).id \notin {o.id : o \in objects}

(* validateReceiptImport and the replay checks of buildShardCandidate: the *)
(* receipt is in a header that is already final, and neither its marker    *)
(* nor its object exists in the shard.                                     *)
Importable(r, objects, h) ==
    /\ r.height < h
    /\ DestinationObject(r).id \notin {o.id : o \in objects}
    /\ ReceiptMarker(r).id \notin {o.id : o \in objects}

Imported(imports) == UNION {{DestinationObject(r), ReceiptMarker(r)} : r \in imports}

(* ExecuteBatch: the results are kept in the order of the transactions,    *)
(* whichever worker made them.                                             *)
ExecuteBatch(batch, h, s) ==
    [k \in DOMAIN batch |-> Execute(batch[k], h, <<h, s, k>>)]

(* The candidate these results make: the next state and the receipts it    *)
(* exports.  Candidate building stops at the first error, so a candidate   *)
(* only exists when the batch is independent and all of it executes.       *)
CandidateOf(objects, batch, results, imports, h, s) ==
    LET consumed == UNION {results[k].consumed : k \in DOMAIN results}
        created == UNION {results[k].created : k \in DOMAIN results}
        ok == /\ validateIndependentBatch(batch)
              /\ \A k \in DOMAIN results : results[k].ok
              /\ \A r \in imports : Importable(r, objects, h)
    IN  [ok |-> ok, batch |-> batch, imports |-> imports, results |-> results,
         objects |-> IF ok THEN Applied(objects, consumed, created \cup Imported(imports))
                     ELSE objects,
         exports |-> IF ok THEN Receipts(results, h, s) ELSE {}]

(* buildShardCandidate for one shard.                                      *)
buildShardCandidate(objects, batch, imports, h, s) ==
    CandidateOf(objects, batch, ExecuteBatch(batch, h, s), imports, h, s)

=============================================================================
