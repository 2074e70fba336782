------------------------------ MODULE SyncPush ------------------------------
(***************************************************************************)
(* SyncService: mobile clients replay their offline queue.  A push looks   *)
(* up once which of its mutations were processed, then runs the others one *)
(* after the other, each in a transaction that also records its clientId.  *)
(* What a mutation does to the business tables is abstracted to its        *)
(* identity: effects is the history of the mutations that took effect.     *)
(* The client is external: it pushes what is still in its queue, again     *)
(* when no answer came, and deletes what the server says it has.           *)
(***************************************************************************)
EXTENDS Integers, Sequences, FiniteSets

CONSTANTS
    Mutations,      \* clientIds
    Pushes,         \* POST /sync/push requests
    Batches,        \* the batches clients send: sequences of mutations
    PoolSize,       \* transactions open at one time
    MaxOpen,        \* pushes in progress at one time
    MayFail,        \* whether a handler, a transaction or the process may fail
    None            \* the SQL NULL of a push that works on no mutation

ASSUME SyncAssumption ==
    /\ Batches \subseteq Seq(Mutations)
    /\ PoolSize \in Nat \ {0}
    /\ MaxOpen \in Nat \ {0}
    /\ MayFail \in BOOLEAN
    /\ None \notin Mutations

VARIABLES
    effects,        \* committed effects, in commit order
    processed,      \* client_mutations: the clientIds recorded
    deleted,        \* mutations the clients deleted from their queues
    push            \* what each push is doing

vars == <<effects, processed, deleted, push>>

-----------------------------------------------------------------------------
\* cached: what findProcessed() returned; done: how many mutations of the batch
\* are answered; inserts: the open transaction inserted its clientId; saved: the
\* mutations answered as applied or duplicate; overlaps (auxiliary): another push
\* was in progress when this one arrived.
Push == [pc : {"idle", "lookup", "item", "handle", "find", "insert", "commit",
               "answered", "failed"},
         batch : Seq(Mutations), cached : SUBSET Mutations, done : Nat,
         inserts : BOOLEAN, saved : SUBSET Mutations, overlaps : BOOLEAN]

Waiting == [pc |-> "idle", batch |-> <<>>, cached |-> {}, done |-> 0,
            inserts |-> FALSE, saved |-> {}, overlaps |-> FALSE]

InTx(p) == push[p].pc \in {"handle", "find", "insert", "commit"}

InProgress(p) == push[p].pc \notin {"idle", "answered", "failed"}

\* The mutation a push is at, while its batch is not over.
Current(p) ==
    IF push[p].done < Len(push[p].batch) THEN push[p].batch[push[p].done + 1] ELSE None

Goto(p, label) == push' = [push EXCEPT ![p].pc = label]

Happened == {effects[i] : i \in DOMAIN effects}

Init ==
    /\ effects = <<>>
    /\ processed = {}
    /\ deleted = {}
    /\ push = [p \in Pushes |-> Waiting]

-----------------------------------------------------------------------------
(* pushMutations().                                                        *)

\* The client sends a batch of mutations it still has.
Send(p, batch) ==
    /\ push[p].pc = "idle"
    /\ Cardinality({q \in Pushes : InProgress(q)}) < MaxOpen
    /\ \A i \in DOMAIN batch : batch[i] \notin deleted
    /\ push' = [push EXCEPT ![p] = [Waiting EXCEPT !.pc = "lookup", !.batch = batch,
                                       !.overlaps = \E q \in Pushes : InProgress(q)]]
    /\ UNCHANGED <<effects, processed, deleted>>

\* Mutant: nothing is looked up.
BugFindProcessed(p) ==
    /\ push[p].pc = "lookup"
    /\ Goto(p, "item")
    /\ UNCHANGED <<effects, processed, deleted>>

\* One query for the whole batch, before its first mutation.
FindProcessed(p) ==
    /\ push[p].pc = "lookup"
    /\ push' = [push EXCEPT ![p].pc = "item",
                            ![p].cached = {m \in processed : \E i \in DOMAIN push[p].batch :
                                                               push[p].batch[i] = m}]
    /\ UNCHANGED <<effects, processed, deleted>>

\* Mutant: the loop does not move past a duplicate.
BugAnswerDuplicate(p) ==
    /\ push[p].pc = "item"
    /\ Current(p) \in push[p].cached
    /\ push' = [push EXCEPT ![p].saved = @ \cup {Current(p)}]
    /\ UNCHANGED <<effects, processed, deleted>>

AnswerDuplicate(p) ==
    /\ push[p].pc = "item"
    /\ Current(p) \in push[p].cached
    /\ push' = [push EXCEPT ![p].done = @ + 1, ![p].saved = @ \cup {Current(p)}]
    /\ UNCHANGED <<effects, processed, deleted>>

Answer(p) ==
    /\ push[p].pc = "item"
    /\ Current(p) = None
    /\ Goto(p, "answered")
    /\ UNCHANGED <<effects, processed, deleted>>

-----------------------------------------------------------------------------
(* executeMutation(): one transaction per mutation.                        *)

BeginMutation(p) ==
    /\ push[p].pc = "item"
    /\ Current(p) # None
    /\ Current(p) \notin push[p].cached
    /\ Cardinality({q \in Pushes : InTx(q)}) < PoolSize
    /\ Goto(p, "handle")
    /\ UNCHANGED <<effects, processed, deleted>>

\* The handler of the endpoint has written what it writes.
HandleMutation(p) ==
    /\ push[p].pc = "handle"
    /\ Goto(p, "find")
    /\ UNCHANGED <<effects, processed, deleted>>

\* clientMutation.upsert with an empty update: a SELECT ...
FindRecord(p) ==
    /\ push[p].pc = "find"
    /\ Goto(p, IF Current(p) \in processed THEN "commit" ELSE "insert")
    /\ UNCHANGED <<effects, processed, deleted>>

\* ... then an INSERT, which waits while another transaction holds the same
\* key uncommitted.
KeyFree(p) ==
    \A q \in Pushes \ {p} :
        push[q].pc = "commit" /\ push[q].inserts => Current(q) # Current(p)

\* Mutant: the clientId is recorded outside the transaction.
BugInsertRecord(p) ==
    /\ push[p].pc = "insert"
    /\ processed' = processed \cup {Current(p)}
    /\ push' = [push EXCEPT ![p].pc = "commit", ![p].inserts = TRUE]
    /\ UNCHANGED <<effects, deleted>>

InsertRecord(p) ==
    /\ push[p].pc = "insert"
    /\ KeyFree(p)
    /\ push' = [push EXCEPT ![p].pc = "commit", ![p].inserts = Current(p) \notin processed]
    /\ UNCHANGED <<effects, processed, deleted>>

\* The client engine may report the key inserted meanwhile as an error
\* instead of taking the empty update.
RefuseRecord(p) ==
    /\ push[p].pc = "insert"
    /\ KeyFree(p)
    /\ Current(p) \in processed
    /\ push' = [push EXCEPT ![p].pc = "item", ![p].done = @ + 1]
    /\ UNCHANGED <<effects, processed, deleted>>

CommitMutation(p) ==
    /\ push[p].pc = "commit"
    /\ effects' = Append(effects, Current(p))
    /\ processed' = processed \cup {Current(p)}
    /\ push' = [push EXCEPT ![p].pc = "item", ![p].done = @ + 1, ![p].inserts = FALSE,
                            ![p].saved = @ \cup {Current(p)}]
    /\ UNCHANGED deleted

\* The handler throws, or the transaction times out: it is rolled back, the
\* mutation is answered with status error and the batch goes on.
FailMutation(p) ==
    /\ MayFail
    /\ InTx(p)
    /\ push' = [push EXCEPT ![p].pc = "item", ![p].done = @ + 1, ![p].inserts = FALSE]
    /\ UNCHANGED <<effects, processed, deleted>>

\* The lookup fails or the process dies.  An answer lost on its way is one
\* whose DeleteAnswered never happens.
LosePush(p) ==
    /\ MayFail
    /\ InProgress(p)
    /\ push' = [push EXCEPT ![p].pc = "failed", ![p].inserts = FALSE]
    /\ UNCHANGED <<effects, processed, deleted>>

-----------------------------------------------------------------------------
(* The client's queue.                                                     *)

\* It deletes what an answer reports as applied or duplicate ...
DeleteAnswered(p) ==
    /\ push[p].pc = "answered"
    /\ deleted' = deleted \cup push[p].saved
    /\ UNCHANGED <<effects, processed, push>>

\* Mutant: the ids of mutations in progress are acknowledged too.
BugGetAcknowledged(ids) ==
    {m \in ids : m \in processed \/ \E p \in Pushes : InTx(p) /\ Current(p) = m}

\* getAcknowledged(): the clientIds recorded among those asked for.
GetAcknowledged(ids) == ids \cap processed

\* ... and what POST /sync/ack reports.
DeleteAcknowledged(ids) ==
    /\ deleted' = deleted \cup GetAcknowledged(ids)
    /\ UNCHANGED <<effects, processed, push>>

-----------------------------------------------------------------------------
Work(p) ==
    \/ FindProcessed(p)
    \/ AnswerDuplicate(p)
    \/ Answer(p)
    \/ BeginMutation(p)
    \/ HandleMutation(p)
    \/ FindRecord(p)
    \/ InsertRecord(p)
    \/ RefuseRecord(p)
    \/ CommitMutation(p)

Next ==
    \/ \E p \in Pushes :
         \/ \E batch \in Batches : Send(p, batch)
         \/ Work(p)
         \/ FailMutation(p)
         \/ LosePush(p)
         \/ DeleteAnswered(p)
    \/ \E ids \in SUBSET Mutations : DeleteAcknowledged(ids)

Spec == Init /\ [][Next]_vars

\* The event loop and the database never abandon a push; no failure is forced.
FairSpec == Spec /\ \A p \in Pushes : WF_vars(Work(p))

-----------------------------------------------------------------------------
(* Properties.                                                             *)

\* The log of effects, the table and the queues hold client ids; a push that
\* works on none has no transaction open.
TypeOK ==
    /\ effects \in Seq(Mutations)
    /\ processed \subseteq Mutations
    /\ deleted \subseteq Mutations
    /\ push \in [Pushes -> Push]

\* A mutation is recorded exactly when it took effect: the effect and its
\* record commit together or not at all.
RecordedIffApplied == processed = Happened

\* What a client deleted from its queue took effect ('without risk of data
\* loss'), whatever failed or was retried.
DeletedTookEffect == deleted \subseteq Happened

\* As long as no push arrives while another is in progress, failures, lost
\* answers and retries never make a mutation take effect twice
\* ('full idempotency').
AppliedOnceWithoutOverlap ==
    (\A p \in Pushes : ~ push[p].overlaps) =>
        \A i, j \in DOMAIN effects : effects[i] = effects[j] => i = j

\* Every push is answered, unless it is lost.
EveryPushAnswered ==
    \A p \in Pushes : push[p].pc = "lookup" ~> push[p].pc \in {"answered", "failed"}

=============================================================================
