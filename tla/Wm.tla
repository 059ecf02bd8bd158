--------------------------------- MODULE Wm ---------------------------------
(***************************************************************************)
(* The calls of contracts in the execution of a transaction.  A contract   *)
(* runs on behalf of the account that owns the call: it changes the data   *)
(* of that account and the assets of any account, and calls the contracts  *)
(* of other accounts.  The hash of the data of an account is brought up to *)
(* date when a call that changed the data returns.                         *)
(***************************************************************************)
EXTENDS Integers, Sequences, SequencesExt

CONSTANTS
    Account,        \* identifiers of accounts
    Service,        \* SERVICE_ACCOUNT_ID
    Contract,       \* hashes of contracts
    Key,            \* keys of the data of an account
    NoHash,         \* no contract
    MaxDepth        \* of nested calls

ASSUME WmAssumption ==
    /\ Service \in Account /\ NoHash \notin Contract
    /\ MaxDepth \in Nat \ {0}

VARIABLES
    account,        \* the accounts in the fork
    data,           \* the keys that the data of each account has
    stack,          \* the calls under way, the innermost one last
    checkpoint,     \* the fork when the transaction began
    trapped         \* history: accounts whose data a call changed that trapped

vars == <<account, data, stack, checkpoint, trapped>>

(* Account::new, and what the fork answers for an account it does not have. *)
(* The hash of the data stands for the data: {} is None and {d} is Some(d). *)
Missing == [exists |-> FALSE, contract |-> NoHash, data_hash |-> {}]
load_account(id) == [account[id] EXCEPT !.exists = TRUE]

(* A chain starts with the service account and its contract. *)
Init ==
    /\ \E c \in Contract : account = [a \in Account |->
           IF a = Service THEN [exists |-> TRUE, contract |-> c, data_hash |-> {}]
                          ELSE Missing]
    /\ data = [a \in Account |-> {}]
    /\ stack = <<>>
    /\ checkpoint = [account |-> account, data |-> data]
    /\ trapped = {}

top == Last(stack)
Running == stack # <<>>

-----------------------------------------------------------------------------
(***************************************************************************)
(* app_hash_check: the contract that is called, which is bound to the      *)
(* account when the service contract agrees (contract_updatable, a method  *)
(* that is not part of the repository and is taken to answer only).        *)
(***************************************************************************)
Bound(id, hash) ==                  \* the account has this contract already
    /\ account[id].contract # NoHash
    /\ hash \in {NoHash, account[id].contract}
    /\ UNCHANGED account

Bind_unsaved(id, hash) ==           \* mutant: the bound account is not stored
    /\ hash # NoHash /\ hash # account[id].contract
    /\ UNCHANGED account
Bind(id, hash) ==
    /\ hash # NoHash /\ hash # account[id].contract
    /\ account[Service].contract # NoHash
    /\ account' = [account EXCEPT ![id] = [load_account(id) EXCEPT !.contract = hash]]

(* A call that app_hash_check lets through.  The others change nothing. *)
Enter(id, hash) ==
    /\ Len(stack) < MaxDepth
    /\ Bound(id, hash) \/ Bind(id, hash)
    /\ stack' = Append(stack, [owner |-> id, data_updated |-> FALSE,
        app_hash |-> IF hash = NoHash THEN account[id].contract ELSE hash])
    /\ UNCHANGED <<data, trapped>>

(* The executor runs a transaction. *)
Transaction ==
    /\ ~Running
    /\ \E id \in Account, hash \in Contract \cup {NoHash} : Enter(id, hash)
    /\ checkpoint' = [account |-> account, data |-> data]

(* host_func::call, s_call *)
Call ==
    /\ Running
    /\ \E id \in Account, hash \in Contract \cup {NoHash} : Enter(id, hash)
    /\ UNCHANGED checkpoint

(* host_func::is_callable: a call of the contract that the account has. *)
IsCallable ==
    /\ Running
    /\ \E id \in Account : account[id].contract # NoHash /\ Enter(id, account[id].contract)
    /\ UNCHANGED checkpoint

-----------------------------------------------------------------------------
Marked_once ==                      \* mutant: only the outermost call is marked
    [stack EXCEPT ![1].data_updated = TRUE]
Marked == [stack EXCEPT ![Len(stack)].data_updated = TRUE]

(* host_func::store_data, remove_data *)
StoreData ==
    /\ Running
    /\ \E k \in Key : data' = [data EXCEPT ![top.owner] = @ \cup {k}]
    /\ stack' = Marked
    /\ UNCHANGED <<account, checkpoint, trapped>>

RemoveData ==
    /\ Running
    /\ \E k \in Key : data' = [data EXCEPT ![top.owner] = @ \ {k}]
    /\ stack' = Marked
    /\ UNCHANGED <<account, checkpoint, trapped>>

(* host_func::store_asset, remove_asset: the account is loaded, or created, *)
(* and stored with its assets changed.  What the assets are is left out.    *)
StoreAsset ==
    /\ Running
    /\ \E id \in Account : account' = [account EXCEPT ![id] = load_account(id)]
    /\ UNCHANGED <<data, stack, checkpoint, trapped>>

-----------------------------------------------------------------------------
(* Wm::call, callable_call: the code after the contract has run. *)
Refreshed(id) == [account EXCEPT ![id].data_hash = {data[id]}]

Returned == IF top.data_updated THEN Refreshed(top.owner) ELSE account

(* The result is Ok or, in a nested call, of either kind: the caller is    *)
(* told of a failure and goes on.                                          *)
ReturnNested ==
    /\ Len(stack) > 1
    /\ account' = Returned /\ stack' = Front(stack)
    /\ UNCHANGED <<data, checkpoint, trapped>>

ReturnOk ==
    /\ Len(stack) = 1
    /\ account' = Returned /\ stack' = <<>>
    /\ UNCHANGED <<data, checkpoint, trapped>>

(* The transaction fails: the executor rolls the fork back. *)
Fail ==
    /\ Len(stack) = 1
    /\ account' = checkpoint.account /\ data' = checkpoint.data /\ stack' = <<>>
    /\ UNCHANGED <<checkpoint, trapped>>

(* A nested call traps: `call` returns at once, and its caller goes on. *)
TrapNested ==
    /\ Len(stack) > 1
    /\ stack' = Front(stack)
    /\ trapped' = IF top.data_updated THEN trapped \cup {top.owner} ELSE trapped
    /\ UNCHANGED <<account, data, checkpoint>>

Next ==
    \/ Transaction \/ Call \/ IsCallable
    \/ StoreData \/ RemoveData \/ StoreAsset
    \/ ReturnNested \/ ReturnOk \/ Fail \/ TrapNested

Spec == Init /\ [][Next]_vars

-----------------------------------------------------------------------------
AccountType ==
    [exists : BOOLEAN, contract : Contract \cup {NoHash},
     data_hash : SUBSET SUBSET Key]
CallType == [owner : Account, data_updated : BOOLEAN, app_hash : Contract]

(* Accounts, data and calls have the types of the code, and a call always *)
(* has a contract to run: app_hash_check never answers Hash::default().    *)
TypeOK ==
    /\ account \in [Account -> AccountType] /\ data \in [Account -> SUBSET Key]
    /\ stack \in Seq(CallType) /\ Len(stack) <= MaxDepth
    /\ checkpoint \in [account : [Account -> AccountType], data : [Account -> SUBSET Key]]
    /\ trapped \subseteq Account

(* "Merkle tree root of the data associated with the account": between       *)
(* transactions the data_hash of an account, which the state hash of a block *)
(* is made of, is that of its data, whatever calls were nested in which.     *)
(* Not so after a nested call that has stored data and then traps.           *)
Current(id) ==
    account[id].data_hash = {data[id]} \/ (account[id].data_hash = {} /\ data[id] = {})
DataHashCurrent == ~Running => \A id \in Account : Current(id)

(* A hash that is not up to date is of an account that owns a call that is   *)
(* marked and will bring it up to date when it returns, or of one whose data *)
(* a call changed that trapped: between transactions no others are stale.    *)
StaleIsMarked ==
    \A id \in Account \ trapped : ~Current(id) =>
        \E i \in DOMAIN stack : stack[i].owner = id /\ stack[i].data_updated

(* The account that owns a call exists, so that the "inconsistent state"     *)
(* error of `call` cannot arise, however calls and bindings are nested.      *)
OwnerExists == \A i \in DOMAIN stack : account[stack[i].owner].exists
=============================================================================
