------------------------------ MODULE WmProofs ------------------------------
(***************************************************************************)
(* The calls of contracts, for every set of accounts, contracts and keys   *)
(* and every depth of nesting.                                             *)
(*                                                                         *)
(* Neither property is inductive.  That the owner of a call exists rests   *)
(* on app_hash_check: an account that has a contract was stored with it.   *)
(* That a stale hash is marked has to hold of the checkpoint too, for a    *)
(* failed transaction brings it back.                                      *)
(***************************************************************************)
EXTENDS Wm, TLAPS

(* An account with a contract exists, now and at the checkpoint. *)
ContractExists(accounts) ==
    \A id \in Account : accounts[id].contract # NoHash => accounts[id].exists

(* The fork that a failed transaction goes back to has no stale hash but *)
(* those of a trapped call of an earlier transaction.                    *)
CheckpointCurrent ==
    \A id \in Account \ trapped :
        \/ checkpoint.account[id].data_hash = {checkpoint.data[id]}
        \/ checkpoint.account[id].data_hash = {} /\ checkpoint.data[id] = {}

WmInv ==
    /\ TypeOK
    /\ ContractExists(account) /\ ContractExists(checkpoint.account)
    /\ OwnerExists
    /\ StaleIsMarked /\ CheckpointCurrent

-----------------------------------------------------------------------------
(* The empty stack is a stack. *)
LEMMA EmptyStack == <<>> \in Seq(CallType) /\ Len(<<>>) = 0 /\ DOMAIN <<>> = {}
  OBVIOUS

(* What the innermost call is, and what is left when it returns. *)
LEMMA Popped ==
    ASSUME NEW s \in Seq(CallType), s # <<>>
    PROVE  /\ Len(s) \in DOMAIN s /\ Last(s) = s[Len(s)] /\ Last(s) \in CallType
           /\ Front(s) \in Seq(CallType) /\ Len(Front(s)) = Len(s) - 1
           /\ \A i \in DOMAIN Front(s) : i \in DOMAIN s /\ Front(s)[i] = s[i]
           /\ \A i \in DOMAIN s : i = Len(s) \/ i \in DOMAIN Front(s)
  <1>1. Len(s) \in Nat /\ Len(s) > 0 /\ DOMAIN s = 1 .. Len(s)
    OBVIOUS
  <1>2. Last(s) = s[Len(s)] /\ Last(s) \in CallType
    BY <1>1 DEF Last
  <1>3. /\ Front(s) \in Seq(CallType) /\ Len(Front(s)) = Len(s) - 1
        /\ \A i \in 1 .. Len(s) - 1 : Front(s)[i] = s[i]
    BY <1>1 DEF Front
  <1>4. DOMAIN Front(s) = 1 .. Len(s) - 1
    BY <1>1, <1>3
  <1>5. QED
    BY <1>1, <1>2, <1>3, <1>4

(* A call is owned by an account. *)
LEMMA Owners ==
    ASSUME NEW s \in Seq(CallType)
    PROVE  \A i \in DOMAIN s : s[i] \in CallType /\ s[i].owner \in Account
  <1>1. \A i \in DOMAIN s : s[i] \in CallType
    OBVIOUS
  <1>2. QED
    BY <1>1 DEF CallType

(* The parts of an account make an account. *)
LEMMA AccountParts ==
    ASSUME NEW r \in AccountType
    PROVE  /\ r = [exists |-> r.exists, contract |-> r.contract, data_hash |-> r.data_hash]
           /\ r.exists \in BOOLEAN /\ r.contract \in Contract \cup {NoHash}
           /\ r.data_hash \in SUBSET SUBSET Key
  BY DEF AccountType

(* Any such parts do. *)
LEMMA AccountMade ==
    ASSUME NEW e \in BOOLEAN, NEW c \in Contract \cup {NoHash},
           NEW h \in SUBSET SUBSET Key
    PROVE  [exists |-> e, contract |-> c, data_hash |-> h] \in AccountType
  BY DEF AccountType

(* An account with one part replaced. *)
LEMMA Replaced ==
    ASSUME NEW r \in AccountType, NEW v
    PROVE  /\ [r EXCEPT !.exists = v] =
                  [exists |-> v, contract |-> r.contract, data_hash |-> r.data_hash]
           /\ [r EXCEPT !.contract = v] =
                  [exists |-> r.exists, contract |-> v, data_hash |-> r.data_hash]
           /\ [r EXCEPT !.data_hash = v] =
                  [exists |-> r.exists, contract |-> r.contract, data_hash |-> v]
  BY DEF AccountType

(* A call that is marked is still a call. *)
LEMMA MarkedCall ==
    ASSUME NEW c \in CallType
    PROVE  /\ [c EXCEPT !.data_updated = TRUE] =
                  [owner |-> c.owner, data_updated |-> TRUE, app_hash |-> c.app_hash]
           /\ [owner |-> c.owner, data_updated |-> TRUE, app_hash |-> c.app_hash] \in CallType
  <1>0. ASSUME NEW v
        PROVE  [c EXCEPT !.data_updated = v] =
                   [owner |-> c.owner, data_updated |-> v, app_hash |-> c.app_hash]
    BY DEF CallType
  <1>1. [c EXCEPT !.data_updated = TRUE] =
            [owner |-> c.owner, data_updated |-> TRUE, app_hash |-> c.app_hash]
    BY <1>0, Zenon
  <1>2. [owner |-> c.owner, data_updated |-> TRUE, app_hash |-> c.app_hash] \in CallType
    BY DEF CallType
  <1>3. QED
    BY <1>1, <1>2

(* Initially every account but the service account is missing, and there *)
(* is no call.                                                           *)
LEMMA WmInit == Init => WmInv
  <1> SUFFICES ASSUME Init
               PROVE  WmInv
    OBVIOUS
  <1>1. PICK c \in Contract : account = [a \in Account |->
            IF a = Service THEN [exists |-> TRUE, contract |-> c, data_hash |-> {}]
                           ELSE [exists |-> FALSE, contract |-> NoHash, data_hash |-> {}]]
    BY Zenon DEF Init, Missing
  <1>2. account \in [Account -> AccountType]
    BY <1>1 DEF AccountType
  <1>3. data = [a \in Account |-> {}] /\ data \in [Account -> SUBSET Key]
    BY DEF Init
  <1>4. /\ stack = <<>> /\ stack \in Seq(CallType) /\ Len(stack) <= MaxDepth
        /\ DOMAIN stack = {} /\ trapped = {}
    BY EmptyStack, WmAssumption DEF Init
  <1>5. /\ checkpoint = [account |-> account, data |-> data]
        /\ checkpoint.account = account /\ checkpoint.data = data
    BY DEF Init
  <1>6. TypeOK
    BY <1>2, <1>3, <1>4, <1>5 DEF TypeOK
  <1>7. /\ ContractExists(account)
        /\ \A id \in Account : account[id].data_hash = {} /\ data[id] = {}
    BY <1>1, <1>3 DEF ContractExists
  <1>8. QED
    BY <1>4, <1>5, <1>6, <1>7
       DEF WmInv, OwnerExists, StaleIsMarked, Current, CheckpointCurrent
  
(* An account that is loaded, or made, and then stored with this contract. *)
LEMMA StoredAccount ==
    ASSUME TypeOK, ContractExists(account), NEW id \in Account,
           NEW c \in Contract \cup {NoHash},
           account' = [account EXCEPT ![id] = [load_account(id) EXCEPT !.contract = c]]
    PROVE  /\ account' \in [Account -> AccountType] /\ ContractExists(account')
           /\ \A a \in Account : /\ account[a].exists => account'[a].exists
                                 /\ account'[a].data_hash = account[a].data_hash
           /\ account'[id].exists /\ account'[id].contract = c
  <1> DEFINE r == [exists |-> TRUE, contract |-> c, data_hash |-> account[id].data_hash]
  <1>1. account \in [Account -> AccountType] /\ account[id] \in AccountType
    BY DEF TypeOK
  <1>2. [load_account(id) EXCEPT !.contract = c] = r /\ r \in AccountType
    <2> DEFINE l == [exists |-> TRUE, contract |-> account[id].contract,
                     data_hash |-> account[id].data_hash]
    <2>1. load_account(id) = l
      BY <1>1, Replaced, Zenon DEF load_account
    <2>2. l \in AccountType /\ r \in AccountType
      BY <1>1, AccountParts, AccountMade, Zenon
    <2>3. [l EXCEPT !.contract = c] = r
      <3>1. l.exists = TRUE /\ l.data_hash = account[id].data_hash
        OBVIOUS
      <3> HIDE DEF l
      <3>2. [l EXCEPT !.contract = c] =
                [exists |-> l.exists, contract |-> c, data_hash |-> l.data_hash]
        BY <2>2, Replaced, Zenon
      <3>3. QED
        BY <3>1, <3>2, Zenon
    <2>4. QED
      BY <2>1, <2>2, <2>3
  <1>3. r.exists /\ r.contract = c /\ r.data_hash = account[id].data_hash
    OBVIOUS
  <1> HIDE DEF r
  <1>4. /\ account' \in [Account -> AccountType] /\ account'[id] = r
        /\ \A a \in Account \ {id} : account'[a] = account[a]
    BY <1>1, <1>2
  <1>5. QED
    BY <1>3, <1>4, Zenon DEF ContractExists

(* A call that is let through: its owner exists, and it has a contract. *)
LEMMA Entered ==
    ASSUME WmInv, NEW id \in Account, NEW hash \in Contract \cup {NoHash},
           Enter(id, hash)
    PROVE  /\ TypeOK' <=> (checkpoint \in [account : [Account -> AccountType],
                                           data : [Account -> SUBSET Key]])'
           /\ ContractExists(account') /\ OwnerExists' /\ StaleIsMarked'
           /\ UNCHANGED <<data, trapped>>
  <1>1. /\ account' \in [Account -> AccountType] /\ ContractExists(account')
        /\ \A a \in Account : /\ account[a].exists => account'[a].exists
                              /\ account'[a].data_hash = account[a].data_hash
        /\ account'[id].exists
        /\ (IF hash = NoHash THEN account[id].contract ELSE hash) \in Contract
    <2>1. CASE Bound(id, hash)
      BY <2>1 DEF Bound, WmInv, TypeOK, AccountType, ContractExists
    <2>2. CASE Bind(id, hash)
      <3>1. hash \in Contract
        BY <2>2 DEF Bind
      <3>2. QED
        BY <2>2, <3>1, StoredAccount, Zenon DEF Bind, WmInv
    <2>3. QED
      BY <2>1, <2>2 DEF Enter
  <1> DEFINE call == [owner |-> id, data_updated |-> FALSE,
                      app_hash |-> IF hash = NoHash THEN account[id].contract ELSE hash]
  <1>2. stack' = Append(stack, call) /\ Len(stack) < MaxDepth /\ UNCHANGED <<data, trapped>>
    BY DEF Enter
  <1>3. call \in CallType /\ call.owner = id
    BY <1>1 DEF CallType
  <1> HIDE DEF call
  <1>4. stack \in Seq(CallType) /\ MaxDepth \in Nat
    BY WmAssumption DEF WmInv, TypeOK
  <1>5. /\ stack' \in Seq(CallType) /\ Len(stack') <= MaxDepth
        /\ DOMAIN stack = 1 .. Len(stack) /\ DOMAIN stack' = 1 .. Len(stack) + 1
        /\ \A i \in DOMAIN stack : i \in DOMAIN stack' /\ stack'[i] = stack[i]
        /\ \A i \in DOMAIN stack' : i \in DOMAIN stack \/ stack'[i] = call
    BY <1>2, <1>3, <1>4
  <1>6. TypeOK' <=> (checkpoint \in [account : [Account -> AccountType],
                                     data : [Account -> SUBSET Key]])'
    BY <1>1, <1>2, <1>5 DEF WmInv, TypeOK
  <1>7. OwnerExists'
    <2>1. \A i \in DOMAIN stack : stack[i].owner \in Account
      BY <1>4, Owners
    <2>2. QED
      BY <1>1, <1>3, <1>5, <2>1 DEF WmInv, OwnerExists
  <1>8. StaleIsMarked'
    <2>1. \A a \in Account : Current(a)' <=> Current(a)
      BY <1>1, <1>2 DEF Current
    <2>2. QED
      BY <1>2, <1>5, <2>1 DEF WmInv, StaleIsMarked
  <1>9. QED
    BY <1>1, <1>2, <1>6, <1>7, <1>8

(* A transaction begins: no call is under way, so nothing is stale in the *)
(* fork that becomes the checkpoint.                                      *)
LEMMA WmTransaction == ASSUME WmInv, Transaction PROVE WmInv'
  <1>1. PICK id \in Account, hash \in Contract \cup {NoHash} : Enter(id, hash)
    BY DEF Transaction
  <1>2. /\ checkpoint' = [account |-> account, data |-> data]
        /\ checkpoint'.account = account /\ checkpoint'.data = data
        /\ DOMAIN stack = {}
    BY EmptyStack DEF Transaction, Running
  <1>3. (checkpoint \in [account : [Account -> AccountType],
                         data : [Account -> SUBSET Key]])'
    BY <1>2 DEF WmInv, TypeOK
  <1>4. CheckpointCurrent'
    BY <1>1, <1>2, Entered DEF WmInv, StaleIsMarked, CheckpointCurrent, Current
  <1>5. QED
    BY <1>1, <1>2, <1>3, <1>4, Entered DEF WmInv

(* A contract calls another, or asks whether it can. *)
LEMMA WmCall == ASSUME WmInv, Call \/ IsCallable PROVE WmInv'
  <1>1. PICK id \in Account, hash \in Contract \cup {NoHash} : Enter(id, hash)
    BY DEF Call, IsCallable, WmInv, TypeOK, AccountType
  <1>2. UNCHANGED checkpoint
    BY DEF Call, IsCallable
  <1>3. CheckpointCurrent'
    BY <1>1, <1>2, Entered DEF WmInv, CheckpointCurrent
  <1>4. QED
    BY <1>1, <1>2, <1>3, Entered DEF WmInv, TypeOK

(* A contract changes the data of its account: the hash goes stale, and the *)
(* call is marked.                                                          *)
LEMMA WmData == ASSUME WmInv, StoreData \/ RemoveData PROVE WmInv'
  <1>1. /\ UNCHANGED <<account, checkpoint, trapped>> /\ stack # <<>>
        /\ stack' = [stack EXCEPT ![Len(stack)].data_updated = TRUE]
    BY DEF StoreData, RemoveData, Running, Marked
  <1>2. stack \in Seq(CallType)
    BY DEF WmInv, TypeOK
  <1>3. Len(stack) \in DOMAIN stack /\ top = stack[Len(stack)] /\ top \in CallType
    BY <1>1, <1>2, Popped DEF top
  <1> DEFINE r == [owner |-> top.owner, data_updated |-> TRUE, app_hash |-> top.app_hash]
  <1>4. [stack[Len(stack)] EXCEPT !.data_updated = TRUE] = r /\ r \in CallType
    BY <1>3, MarkedCall
  <1>5. r.owner = top.owner /\ r.data_updated
    OBVIOUS
  <1> HIDE DEF r
  <1>6. stack' = [stack EXCEPT ![Len(stack)] = r]
    BY <1>1, <1>4, Zenon
  <1>7. /\ stack' \in Seq(CallType) /\ Len(stack') = Len(stack)
        /\ DOMAIN stack' = DOMAIN stack /\ stack'[Len(stack)] = r
        /\ \A i \in DOMAIN stack : i # Len(stack) => stack'[i] = stack[i]
    BY <1>2, <1>3, <1>4, <1>6
  <1>8. /\ data' \in [Account -> SUBSET Key]
        /\ \A a \in Account : a # top.owner => data'[a] = data[a]
    BY <1>3 DEF StoreData, RemoveData, WmInv, TypeOK, CallType
  <1>9. TypeOK' /\ ContractExists(account') /\ ContractExists(checkpoint'.account)
    BY <1>1, <1>7, <1>8 DEF WmInv, TypeOK
  <1>10. OwnerExists' /\ CheckpointCurrent'
    BY <1>1, <1>3, <1>5, <1>7 DEF WmInv, OwnerExists, CheckpointCurrent
  <1>11. StaleIsMarked'
    <2> SUFFICES ASSUME NEW id \in Account \ trapped, ~Current(id)'
                 PROVE  \E i \in DOMAIN stack' : stack'[i].owner = id /\ stack'[i].data_updated
      BY <1>1 DEF StaleIsMarked
    <2>1. CASE id = top.owner
      BY <1>3, <1>5, <1>7, <2>1
    <2>2. CASE id # top.owner
      <3>1. ~Current(id)
        BY <1>1, <1>8, <2>2 DEF Current
      <3>2. PICK i \in DOMAIN stack : stack[i].owner = id /\ stack[i].data_updated
        BY <3>1 DEF WmInv, StaleIsMarked
      <3>3. i # Len(stack)
        BY <1>3, <2>2, <3>2
      <3>4. QED
        BY <1>7, <3>2, <3>3
    <2>3. QED
      BY <2>1, <2>2
  <1>12. QED
    BY <1>9, <1>10, <1>11 DEF WmInv

(* An account is stored with other assets. *)
LEMMA WmAsset == ASSUME WmInv, StoreAsset PROVE WmInv'
  <1>1. PICK id \in Account : account' = [account EXCEPT ![id] = load_account(id)]
    BY Zenon DEF StoreAsset
  <1>2. UNCHANGED <<data, stack, checkpoint, trapped>>
    BY DEF StoreAsset
  <1>3. account[id].contract \in Contract \cup {NoHash}
    BY DEF WmInv, TypeOK, AccountType
  <1>4. load_account(id) = [load_account(id) EXCEPT !.contract = account[id].contract]
    BY Zenon DEF load_account, WmInv, TypeOK, AccountType
  <1>5. /\ account' \in [Account -> AccountType] /\ ContractExists(account')
        /\ \A a \in Account : /\ account[a].exists => account'[a].exists
                              /\ account'[a].data_hash = account[a].data_hash
    BY <1>1, <1>3, <1>4, StoredAccount, Zenon DEF WmInv
  <1>6. TypeOK' /\ CheckpointCurrent'
    BY <1>2, <1>5 DEF WmInv, TypeOK, CheckpointCurrent
  <1>7. OwnerExists'
    <2>1. \A i \in DOMAIN stack : stack[i].owner \in Account
      BY Owners DEF WmInv, TypeOK
    <2>2. QED
      BY <1>2, <1>5, <2>1 DEF WmInv, OwnerExists
  <1>8. StaleIsMarked'
    BY <1>2, <1>5 DEF WmInv, StaleIsMarked, Current
  <1>9. QED
    BY <1>2, <1>5, <1>6, <1>7, <1>8 DEF WmInv

(* What the code after a call leaves: the hash of the owner is up to date *)
(* when the call was marked, and no other account changes.                *)
LEMMA ReturnedAccount ==
    ASSUME WmInv, stack # <<>>, account' = Returned
    PROVE  /\ account' \in [Account -> AccountType] /\ ContractExists(account')
           /\ \A a \in Account : /\ account'[a].exists = account[a].exists
                                 /\ a # top.owner => account'[a] = account[a]
           /\ IF top.data_updated THEN account'[top.owner].data_hash = {data[top.owner]}
                                  ELSE account' = account
  <1>1. top \in CallType /\ top.owner \in Account
    BY Popped, Zenon DEF WmInv, TypeOK, top, CallType
  <1>2. CASE ~top.data_updated
    BY <1>2 DEF Returned, WmInv, TypeOK
  <1>3. CASE top.data_updated
    <2> DEFINE id == top.owner
               r == [exists |-> account[id].exists, contract |-> account[id].contract,
                     data_hash |-> {data[id]}]
    <2>1. account \in [Account -> AccountType] /\ data[id] \in SUBSET Key
      BY <1>1 DEF WmInv, TypeOK
    <2>2. [account[id] EXCEPT !.data_hash = {data[id]}] = r /\ r \in AccountType
      <3>1. account[id] \in AccountType
        BY <1>1, <2>1
      <3>2. [account[id] EXCEPT !.data_hash = {data[id]}] = r
        BY <3>1, Replaced, Zenon
      <3>3. r \in AccountType
        BY <2>1, <3>1, AccountParts, AccountMade
      <3>4. QED
        BY <3>2, <3>3
    <2>3. /\ r.exists = account[id].exists /\ r.contract = account[id].contract
          /\ r.data_hash = {data[id]}
      OBVIOUS
    <2>4. account' = [account EXCEPT ![id] = r]
      BY <1>3, <2>2, Zenon DEF Returned, Refreshed
    <2> HIDE DEF r
    <2>5. /\ account' \in [Account -> AccountType] /\ account'[id] = r
          /\ \A a \in Account : a # id => account'[a] = account[a]
      BY <1>1, <2>1, <2>2, <2>4
    <2>6. ContractExists(account')
      BY <2>3, <2>5, <1>1 DEF WmInv, ContractExists
    <2>7. QED
      BY <1>1, <1>3, <2>3, <2>5, <2>6
  <1>4. QED
    BY <1>2, <1>3

(* A call returns: what it made stale is up to date, and what its callers  *)
(* made stale has its mark still.                                          *)
LEMMA WmReturn == ASSUME WmInv, ReturnNested \/ ReturnOk PROVE WmInv'
  <1>1. stack \in Seq(CallType) /\ stack # <<>>
    <2>1. stack \in Seq(CallType) /\ Len(stack) > 0
      <3>1. stack \in Seq(CallType) /\ (Len(stack) > 1 \/ Len(stack) = 1)
        BY DEF WmInv, TypeOK, ReturnNested, ReturnOk
      <3>2. QED
        BY <3>1
    <2>2. QED
      BY <2>1
  <1>2. account' = Returned /\ UNCHANGED <<data, checkpoint, trapped>>
    BY DEF ReturnNested, ReturnOk
  <1>3. stack' = Front(stack)
    <2>1. CASE ReturnNested
      BY <2>1 DEF ReturnNested
    <2>2. CASE ReturnOk
      BY <2>2, <1>1, Popped DEF ReturnOk
    <2>3. QED
      BY <2>1, <2>2
  <1>4. /\ stack' \in Seq(CallType) /\ Len(stack') = Len(stack) - 1
        /\ Len(stack) \in DOMAIN stack /\ top = stack[Len(stack)] /\ top \in CallType
        /\ \A i \in DOMAIN stack' : i \in DOMAIN stack /\ stack'[i] = stack[i]
        /\ \A i \in DOMAIN stack : i = Len(stack) \/ i \in DOMAIN stack'
    BY <1>1, <1>3, Popped DEF top
  <1>5. Len(stack') <= MaxDepth
    BY <1>1, <1>4, WmAssumption DEF WmInv, TypeOK
  <1>6. TypeOK' /\ ContractExists(account')
    BY <1>1, <1>2, <1>4, <1>5, ReturnedAccount DEF WmInv, TypeOK
  <1>7. OwnerExists'
    <2>1. \A i \in DOMAIN stack : stack[i].owner \in Account
      BY <1>1, Owners
    <2>2. QED
      BY <1>1, <1>2, <1>4, <2>1, ReturnedAccount DEF WmInv, OwnerExists
  <1>8. StaleIsMarked'
    <2> SUFFICES ASSUME NEW id \in Account \ trapped, ~Current(id)'
                 PROVE  \E i \in DOMAIN stack' : stack'[i].owner = id /\ stack'[i].data_updated
      BY <1>2 DEF StaleIsMarked
    <2>1. ~(id = top.owner /\ top.data_updated)
      BY <1>1, <1>2, ReturnedAccount DEF Current
    <2>2. account'[id] = account[id]
      BY <1>1, <1>2, <2>1, ReturnedAccount
    <2>3. ~Current(id)
      BY <1>2, <2>2 DEF Current
    <2>4. PICK i \in DOMAIN stack : stack[i].owner = id /\ stack[i].data_updated
      BY <2>3 DEF WmInv, StaleIsMarked
    <2>5. QED
      BY <1>4, <2>1, <2>4
  <1>9. QED
    BY <1>2, <1>6, <1>7, <1>8 DEF WmInv, CheckpointCurrent

(* A transaction that fails leaves the fork it began with. *)
LEMMA WmFail == ASSUME WmInv, Fail PROVE WmInv'
  <1>1. /\ account' = checkpoint.account /\ data' = checkpoint.data
        /\ stack' = <<>> /\ UNCHANGED <<checkpoint, trapped>>
    BY DEF Fail
  <1>2. stack' \in Seq(CallType) /\ Len(stack') <= MaxDepth /\ DOMAIN stack' = {}
    BY <1>1, EmptyStack, WmAssumption
  <1>3. TypeOK'
    BY <1>1, <1>2 DEF WmInv, TypeOK
  <1>4. OwnerExists' /\ CheckpointCurrent'
    BY <1>1, <1>2 DEF WmInv, OwnerExists, CheckpointCurrent
  <1>5. StaleIsMarked'
    BY <1>1 DEF WmInv, CheckpointCurrent, StaleIsMarked, Current
  <1>6. QED
    BY <1>1, <1>3, <1>4, <1>5 DEF WmInv

(* A nested call that traps is not followed by the code after the call: the *)
(* account whose data it changed is among the trapped ones from now on.     *)
LEMMA WmTrap == ASSUME WmInv, TrapNested PROVE WmInv'
  <1>1. stack \in Seq(CallType) /\ stack # <<>>
    BY DEF WmInv, TypeOK, TrapNested
  <1>2. /\ stack' = Front(stack) /\ UNCHANGED <<account, data, checkpoint>>
        /\ trapped' = IF top.data_updated THEN trapped \cup {top.owner} ELSE trapped
    BY DEF TrapNested
  <1>3. /\ stack' \in Seq(CallType) /\ Len(stack') = Len(stack) - 1
        /\ Len(stack) \in DOMAIN stack /\ top = stack[Len(stack)] /\ top \in CallType
        /\ \A i \in DOMAIN stack' : i \in DOMAIN stack /\ stack'[i] = stack[i]
        /\ \A i \in DOMAIN stack : i = Len(stack) \/ i \in DOMAIN stack'
    BY <1>1, <1>2, Popped DEF top
  <1>4. Len(stack') <= MaxDepth
    BY <1>1, <1>3, WmAssumption DEF WmInv, TypeOK
  <1>5. trapped \subseteq trapped' /\ trapped' \subseteq Account
    BY <1>2, <1>3 DEF WmInv, TypeOK, CallType
  <1>6. TypeOK'
    BY <1>2, <1>3, <1>4, <1>5 DEF WmInv, TypeOK
  <1>7. OwnerExists' /\ CheckpointCurrent'
    BY <1>2, <1>3, <1>5 DEF WmInv, OwnerExists, CheckpointCurrent
  <1>8. StaleIsMarked'
    <2> SUFFICES ASSUME NEW id \in Account \ trapped', ~Current(id)'
                 PROVE  \E i \in DOMAIN stack' : stack'[i].owner = id /\ stack'[i].data_updated
      BY DEF StaleIsMarked
    <2>1. ~Current(id) /\ id \in Account \ trapped /\ ~(id = top.owner /\ top.data_updated)
      BY <1>2, <1>5 DEF Current
    <2>2. PICK i \in DOMAIN stack : stack[i].owner = id /\ stack[i].data_updated
      BY <2>1 DEF WmInv, StaleIsMarked
    <2>3. QED
      BY <1>3, <2>1, <2>2
  <1>9. QED
    BY <1>2, <1>6, <1>7, <1>8 DEF WmInv

(* Every step of a transaction keeps the invariant. *)
LEMMA WmStep == WmInv /\ [Next]_vars => WmInv'
  <1> SUFFICES ASSUME WmInv, [Next]_vars
               PROVE  WmInv'
    OBVIOUS
  <1>1. CASE UNCHANGED vars
    BY <1>1 DEF vars, WmInv, TypeOK, OwnerExists, StaleIsMarked, Current,
                CheckpointCurrent
  <1>2. QED
    BY <1>1, WmTransaction, WmCall, WmData, WmAsset, WmReturn, WmFail, WmTrap DEF Next

-----------------------------------------------------------------------------
(* WmInv is an inductive invariant of the calls. *)
THEOREM WmInvariant == Spec => []WmInv
  BY WmInit, WmStep, PTL DEF Spec

(* The types of the code, at any depth of calls: app_hash_check never lets a *)
(* call through without a contract to run.                                   *)
THEOREM CallsWellTyped == Spec => []TypeOK
  <1>1. WmInv => TypeOK
    BY DEF WmInv
  <1>2. QED
    BY <1>1, WmInvariant, PTL

(* The "inconsistent state" error of `call` cannot arise. *)
THEOREM OwnerAlwaysExists == Spec => []OwnerExists
  <1>1. WmInv => OwnerExists
    BY DEF WmInv
  <1>2. QED
    BY <1>1, WmInvariant, PTL

(* The only data_hash that a finished transaction can leave stale is that of *)
(* an account whose data a trapped call changed.                             *)
THEOREM StaleAlwaysMarked == Spec => []StaleIsMarked
  <1>1. WmInv => StaleIsMarked
    BY DEF WmInv
  <1>2. QED
    BY <1>1, WmInvariant, PTL

(* As long as no nested call has trapped, the data_hash of every account is  *)
(* that of its data between transactions, as the documentation has it.       *)
THEOREM HashesCurrent == Spec => [](trapped = {} => DataHashCurrent)
  <1>1. WmInv => (trapped = {} => DataHashCurrent)
    BY EmptyStack DEF WmInv, StaleIsMarked, DataHashCurrent, Running
  <1>2. QED
    BY <1>1, WmInvariant, PTL
=============================================================================
