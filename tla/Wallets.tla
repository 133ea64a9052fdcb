------------------------------ MODULE Wallets -----------------------------
(***************************************************************************)
(* The transactions accounts may submit against the current state of their *)
(* shard.  A wallet picks an operation, the objects it refers to, coins to *)
(* pay with, outputs and a fee; nothing here is checked, the engine        *)
(* decides.  The bounds keep the choices finite.                           *)
(***************************************************************************)
EXTENDS ShardExecution

(* A menu m bounds the choices: m.amounts and m.fees are what a wallet     *)
(* writes, m.coins how many native coins it spends at once, m.ops the      *)
(* operations it uses, and the remaining fields the terms it proposes.     *)

OfKind(objects, kind) == {o \in objects : o.kind = kind}
Owned(objects, a, kind) == {o \in objects : o.kind = kind /\ o.owner = a}
NativeCoins(objects, a) == {o \in Owned(objects, a, "coin") : o.data.token = NativeToken}
TokenCoins(objects, a) == {o \in Owned(objects, a, "coin") : o.data.token # NativeToken}

CoinSets(m, coins) == {{}} \cup {{c} : c \in coins}
                         \cup (IF m.coins > 1 THEN {{c, d} : c, d \in coins} ELSE {})

Pay(m, a, token) == {<<CoinSpec(a, token, n, 0)>> : n \in m.amounts}
Change(m, a, token) == {<<>>} \cup Pay(m, a, token)

Intent(op, arg, special) == [op |-> op, arg |-> arg, special |-> special, pays |-> {<<>>}]

(* Transfers of native coins, and of a token whose definition is read.     *)
Transfers(m, objects, a) ==
    { [op |-> "transfer", arg |-> [nothing |-> TRUE], special |-> {},
       pays |-> UNION {Pay(m, b, NativeToken) : b \in Accounts}] }
    \cup { [op |-> "transfer", arg |-> [nothing |-> TRUE], special |-> {d, c},
            pays |-> {pay \o rest : pay \in UNION {Pay(m, b, d.data.token) : b \in Accounts},
                                    rest \in Change(m, a, d.data.token)}] :
           d \in OfKind(objects, "definition"), c \in TokenCoins(objects, a) }

TokenIntents(m, objects, a) ==
    { Intent("createToken", c, {}) : c \in {x \in m.creates : x.authority = a} }
    \cup { Intent("mint", [object |-> d.id, amount |-> n, recipient |-> a], {d}) :
           d \in OfKind(objects, "definition"), n \in m.amounts }
    \cup { [op |-> "burn", arg |-> [object |-> d.id, amount |-> n], special |-> {d, c},
            pays |-> Change(m, a, d.data.token)] :
           d \in OfKind(objects, "definition"), c \in TokenCoins(objects, a), n \in m.amounts }

ContractIntents(m, objects, a) ==
    { Intent("deploy", c, {}) : c \in {x \in m.scripts : x.authority = a} }
    \cup { Intent("call", [contract |-> c.id, fuel |-> 1,
                           accesses |-> {[object |-> o.id, write |-> w]}], {c, o}) :
           c \in OfKind(objects, "contract"), o \in OfKind(objects, "contractState"),
           w \in BOOLEAN }

CredentialIntents(m, objects) ==
    { Intent("register", k, {}) : k \in m.keys }
    \cup { Intent("renew", [object |-> o.id, key |-> k.key, expires |-> k.expires], {o}) :
           o \in OfKind(objects, "credential"), k \in m.keys }
    \cup { Intent("revoke", [object |-> o.id], {o}) : o \in OfKind(objects, "credential") }

Concerning(op, objects, kind) == {Intent(op, [object |-> o.id], {o}) : o \in OfKind(objects, kind)}

LoanIntents(m, objects, a) ==
    { Intent(op, x, {}) : op \in {"loanOffer", "crossOffer"}, x \in {y \in m.terms : y.lender = a} }
    \cup Concerning("loanCancel", objects, "loanOffer")
    \cup Concerning("loanAccept", objects, "loanOffer")
    \cup Concerning("loanRepay", objects, "loan")
    \cup Concerning("loanDefault", objects, "loan")
    \cup Concerning("crossAccept", objects, "crossOffer")
    \cup Concerning("crossExpire", objects, "crossOffer")
    \cup Concerning("crossRepay", objects, "crossActivation")
    \cup Concerning("crossDefault", objects, "crossAcceptance")
    \cup { Intent("crossSettle", [object |-> o.id], {o, p}) :
           o \in OfKind(objects, "crossAcceptance"), p \in OfKind(objects, "crossRepayment") }

(* A provider sees the jobs of every shard and answers them by message.    *)
ComputeIntents(m, objects, jobs, a, h) ==
    { Intent("computeOffer", o, {}) : o \in {x \in m.offers : x.provider = a} }
    \cup { Intent("computeJob", j, {}) : j \in {x \in m.orders : x.owner = a} }
    \cup { Intent("computeAccept", [jobId |-> j.data.id, shard |-> j.id.shard, job |-> j.data.job],
                  {o}) : j \in jobs, o \in Owned(objects, a, "computeOffer") }
    \cup { Intent("computeResult",
                  [jobId |-> j.data.id, shard |-> j.id.shard, owner |-> j.owner,
                   result |-> [provider |-> a, root |-> r, completed |-> h]], {}) :
           j \in {x \in jobs : a \in Providers(x.data) \ Reporters(x.data)}, r \in m.roots }
    \cup { Intent("ingestAssignment", [object |-> j.id, message |-> x.id], {j, x}) :
           j \in OfKind(objects, "job"), x \in OfKind(objects, "assignment") }
    \cup { Intent("ingestResult", [object |-> j.id, message |-> x.id], {j, x}) :
           j \in OfKind(objects, "job"), x \in OfKind(objects, "result") }
    \cup Concerning("computeFinalize", objects, "job")
    \cup Concerning("computeResolve", objects, "job")
    \cup Concerning("computeExpire", objects, "job")

Intents(m, world, a, h) ==
    LET here == world[ShardOf[a]]
        jobs == UNION {OfKind(world[s], "job") : s \in Shards}
    IN  { i \in Transfers(m, here, a) \cup TokenIntents(m, here, a)
                  \cup ContractIntents(m, here, a) \cup CredentialIntents(m, here)
                  \cup LoanIntents(m, here, a) \cup ComputeIntents(m, here, jobs, a, h) :
          i.op \in m.ops }

(* The transactions account a can submit that the engine executes at       *)
(* height h.                                                               *)
Submissions(m, world, a, h) ==
    UNION { { t \in { [op |-> i.op, sender |-> a, arg |-> i.arg, inputs |-> coins \cup i.special,
                       outputs |-> pay \o change, fee |-> fee] :
                      coins \in CoinSets(m, NativeCoins(world[ShardOf[a]], a)), pay \in i.pays,
                      change \in Change(m, a, NativeToken), fee \in m.fees } :
              Execute(t, h, <<h, ShardOf[a], 1>>).ok } : i \in Intents(m, world, a, h) }

=============================================================================
