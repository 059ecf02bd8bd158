-------------------------------- MODULE Seed --------------------------------
(***************************************************************************)
(* The source of the pseudo random numbers that contracts draw: one mutex  *)
(* for each of its fields.  The executor draws numbers while it executes a *)
(* block and brings the fields up to date after each block, and dispatcher *)
(* tasks compute the seed meanwhile to answer GetSeedRequest.              *)
(***************************************************************************)
EXTENDS Integers, Sequences, FiniteSets

CONSTANTS
    Handlers,       \* the dispatcher tasks
    MaxTip,         \* blocks executed
    MaxDraws,       \* numbers drawn in the execution of a block
    MaxFaults       \* failed executions of a block

ASSUME SeedAssumption ==
    /\ "executor" \notin Handlers /\ "nobody" \notin Handlers
    /\ MaxTip \in Nat /\ MaxDraws \in Nat /\ MaxFaults \in Nat

VARIABLES
    field,          \* the fields of SeedSource that change
    owner,          \* who holds the mutex of each field
    task,           \* what the executor and the handlers are doing
    tip,            \* the last block in the database
    draws,          \* numbers drawn in this execution of the block
    faults          \* failed executions of this block

vars == <<field, owner, task, tip, draws, faults>>

Task == Handlers \cup {"executor"}
Mutex == {"nonce", "prev_hash", "txs_hash", "rxs_hash", "previous_seed"}
Hashes == {"prev_hash", "txs_hash", "rxs_hash"}

(***************************************************************************)
(* The three hashes are those of some block.  A number that was drawn is a *)
(* function of the seed that gave it: previous_seed stands for the seeds   *)
(* of the numbers drawn so far, and the empty sequence for zero.           *)
(***************************************************************************)
Idle == [pc |-> "idle", step |-> 1, seed |-> <<>>]
Init ==
    /\ field = [m \in Hashes \cup {"previous_seed"} |->
                   IF m \in Hashes THEN 0 ELSE <<>>]
    /\ owner = [m \in Mutex |-> "nobody"]
    /\ task = [p \in Task |-> Idle]
    /\ tip = 0 /\ draws = 0 /\ faults = 0

-----------------------------------------------------------------------------
(* The mutexes in the order in which each statement locks them.  The guards *)
(* of the first and of the third are all held to the end of the statement.  *)
SizeOrder == <<"nonce", "prev_hash", "txs_hash", "rxs_hash">>
CopyOrder == <<"nonce", "prev_hash", "txs_hash", "rxs_hash", "previous_seed">>
UpdateOrder_late ==                 \* mutant: prev_hash is locked after the others
    <<"rxs_hash", "txs_hash", "prev_hash", "previous_seed">>
UpdateOrder == <<"prev_hash", "rxs_hash", "txs_hash", "previous_seed">>

Free(m) == owner[m] = "nobody"
Unlocked(p) == [m \in Mutex |-> IF owner[m] = p THEN "nobody" ELSE owner[m]]

(* The mutex that a task waits for, if any. *)
Wanted(p) ==
    LET n == task[p].step IN
    CASE task[p].pc = "size" /\ n <= Len(SizeOrder) -> {SizeOrder[n]}
      [] task[p].pc = "copy" -> {CopyOrder[n]}
      [] task[p].pc = "draw" -> {"previous_seed"}
      [] task[p].pc = "update" /\ n <= Len(UpdateOrder) -> {UpdateOrder[n]}
      [] OTHER -> {}

(* One more guard of the statement that measures, or the one that updates. *)
Lock(p) ==
    /\ task[p].pc \in {"size", "update"}
    /\ \E m \in Wanted(p) :
           Free(m) /\ owner' = [owner EXCEPT ![m] = p]
    /\ task' = [task EXCEPT ![p].step = @ + 1]
    /\ UNCHANGED <<field, tip, draws, faults>>

(* get_seed: the statement that measures the fields ends. *)
Measured(p) ==
    /\ task[p].pc = "size" /\ task[p].step > Len(SizeOrder)
    /\ owner' = Unlocked(p)
    /\ task' = [task EXCEPT ![p] = [pc |-> "copy", step |-> 1, seed |-> @.seed]]
    /\ UNCHANGED <<field, tip, draws, faults>>

(* get_seed: the fields are copied one after the other. *)
Copy(p) ==
    LET m == CopyOrder[task[p].step] IN
    /\ task[p].pc = "copy" /\ Free(m)
    /\ task' = [task EXCEPT ![p] =
           [pc   |-> IF m # "previous_seed" THEN "copy"
                     ELSE IF p = "executor" THEN "draw" ELSE "answer",
            step |-> @.step + 1,
            seed |-> IF m = "nonce" THEN <<>> ELSE Append(@.seed, field[m])]]
    /\ UNCHANGED <<field, owner, tip, draws, faults>>

-----------------------------------------------------------------------------
(* get_seed_handler *)
GetSeed(p) ==
    /\ p \in Handlers /\ task[p] = Idle
    /\ task' = [task EXCEPT ![p].pc = "size"]
    /\ UNCHANGED <<field, owner, tip, draws, faults>>

Answer(p) ==
    /\ task[p].pc = "answer"
    /\ task' = [task EXCEPT ![p] = Idle]
    /\ UNCHANGED <<field, owner, tip, draws, faults>>

(* host_func::drand: a generator is made of the seed, and its first number *)
(* becomes the previous seed.  The reseeding that follows is of a          *)
(* generator that is dropped.                                              *)
Drand ==
    /\ task["executor"] = Idle /\ tip < MaxTip /\ draws < MaxDraws
    /\ task' = [task EXCEPT !["executor"].pc = "size"]
    /\ UNCHANGED <<field, owner, tip, draws, faults>>

UpdateSeed ==
    /\ task["executor"].pc = "draw" /\ Free("previous_seed")
    /\ field' = [field EXCEPT !["previous_seed"] =
                     Append(@, SubSeq(task["executor"].seed, 1, Cardinality(Hashes)))]
    /\ draws' = draws + 1
    /\ task' = [task EXCEPT !["executor"] = Idle]
    /\ UNCHANGED <<owner, tip, faults>>

(* exec_block returns: Ok once the fork is merged, and the seed is brought *)
(* up to date, or Err.                                                     *)
BlockOk ==
    /\ task["executor"] = Idle /\ tip < MaxTip
    /\ tip' = tip + 1
    /\ task' = [task EXCEPT !["executor"].pc = "update"]
    /\ UNCHANGED <<field, owner, draws, faults>>

BlockErr ==
    /\ task["executor"] = Idle /\ tip < MaxTip /\ faults < MaxFaults
    /\ draws' = 0
    /\ faults' = faults + 1
    /\ UNCHANGED <<field, owner, task, tip>>

(* The four fields are set under their mutexes. *)
Updated_partly ==                   \* mutant: the receipts hash is left behind
    [field EXCEPT !["prev_hash"] = tip, !["txs_hash"] = tip, !["previous_seed"] = <<>>]
Updated_seed_kept ==                \* mutant: the previous seed is left behind
    [m \in DOMAIN field |-> IF m \in Hashes THEN tip ELSE field[m]]
Updated == [m \in DOMAIN field |-> IF m \in Hashes THEN tip ELSE <<>>]

Update ==
    /\ task["executor"].pc = "update" /\ task["executor"].step > Len(UpdateOrder)
    /\ field' = Updated
    /\ owner' = Unlocked("executor")
    /\ task' = [task EXCEPT !["executor"] = Idle]
    /\ draws' = 0 /\ faults' = 0
    /\ UNCHANGED tip

Next ==
    \/ \E p \in Task : Lock(p) \/ Measured(p) \/ Copy(p)
    \/ \E p \in Handlers : GetSeed(p) \/ Answer(p)
    \/ Drand \/ UpdateSeed \/ BlockOk \/ BlockErr \/ Update

Spec == Init /\ [][Next]_vars

-----------------------------------------------------------------------------
(* The fields are numbers of blocks and seeds, and a mutex that is held is *)
(* held by a task.                                                         *)
TypeOK ==
    /\ \A m \in Hashes : field[m] \in 0 .. MaxTip
    /\ field["previous_seed"] \in Seq(Seq(0 .. MaxTip))
    /\ owner \in [Mutex -> Task \cup {"nobody"}]
    /\ \A p \in Task :
           /\ task[p].pc \in {"idle", "size", "copy", "draw", "answer", "update"}
           /\ task[p].step \in 1 .. Len(CopyOrder) + 1
    /\ tip \in 0 .. MaxTip /\ draws \in 0 .. MaxDraws /\ faults \in 0 .. MaxFaults

(* No tasks wait for one another, in a circle of any length: among any of    *)
(* them there is one that waits for none of them.  get_seed locks txs_hash   *)
(* before rxs_hash and the executor rxs_hash before txs_hash, while it holds *)
(* the write lock of the pool; both lock prev_hash first.                    *)
NoCircularWait ==
    \A S \in (SUBSET Task) \ {{}} :
        \E p \in S : \A m \in Wanted(p) : owner[m] \notin S

(* The numbers of a block are drawn from the three hashes of the block       *)
(* before it, though the fields are read one by one while tasks run.         *)
DrawnFromTip ==
    task["executor"].pc = "draw" =>
        SubSeq(task["executor"].seed, 1, Cardinality(Hashes)) =
            [i \in 1 .. Cardinality(Hashes) |-> tip]

(* "Generate a pseudo random number deterministically, based on the seed":   *)
(* what the executor draws depends on the last block and on how many numbers *)
(* this execution of the block has drawn, so every node draws the same.  Not *)
(* so in the retry of a block whose execution failed.                        *)
DrawsRepeatable ==
    task["executor"].pc = "draw" =>
        Len(task["executor"].seed[Cardinality(Hashes) + 1]) = draws

(* It is so in the first execution of a block, whatever failed before it.    *)
FirstDrawsRepeatable == faults = 0 => DrawsRepeatable
=============================================================================
