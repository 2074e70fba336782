--------------------------- MODULE SyncPushProofs ---------------------------
(***************************************************************************)
(* What the offline queue may rely on, for every queue, every number of    *)
(* overlapping pushes and every failure: the record and the effect of a    *)
(* mutation are one, and what a client deletes has happened.               *)
(***************************************************************************)
EXTENDS SyncPush, TLAPS

\* Every answer of a push, cached or new, is about a mutation that happened.
AnswersHappened(p) ==
    /\ push[p].saved \subseteq Happened
    /\ push[p].cached \subseteq Happened
    /\ InTx(p) => Current(p) \in Mutations

IInv ==
    /\ TypeOK
    /\ RecordedIffApplied
    /\ DeletedTookEffect
    /\ \A p \in Pushes : AnswersHappened(p)

-----------------------------------------------------------------------------
LEMMA CurrentType ==
    ASSUME TypeOK, NEW p \in Pushes, Current(p) # None
    PROVE  Current(p) \in Mutations
  <1>1. push[p].batch \in Seq(Mutations) /\ push[p].done \in Nat
    BY DEF TypeOK, Push
  <1>2. push[p].done < Len(push[p].batch)
    BY DEF Current
  <1> QED
    BY <1>1, <1>2 DEF Current

LEMMA InitSound == Init => IInv
  <1> SUFFICES ASSUME Init PROVE IInv
    OBVIOUS
  <1>1. Happened = {}
    BY DEF Init, Happened
  <1>2. Waiting \in Push /\ Waiting.saved = {} /\ Waiting.cached = {} /\ Waiting.pc = "idle"
    BY DEF Waiting, Push
  <1> QED
    BY <1>1, <1>2 DEF Init, IInv, TypeOK, RecordedIffApplied, DeletedTookEffect,
                      AnswersHappened, InTx

\* Nothing that happened is ever undone; a step of p moves p only.
LEMMA MoveKeeps ==
    ASSUME IInv, NEW p \in Pushes, NEW q \in Push, push' = [push EXCEPT ![p] = q],
           effects' \in Seq(Mutations), processed' = Happened',
           Happened \subseteq Happened', deleted' \subseteq Happened',
           q.saved \subseteq Happened', q.cached \subseteq Happened',
           InTx(p)' => Current(p)' \in Mutations
    PROVE  IInv'
  <1>1. Happened' \subseteq Mutations
    BY DEF Happened
  <1>2. TypeOK'
    BY <1>1 DEF IInv, TypeOK
  <1>3. push'[p] = q /\ \A s \in Pushes \ {p} : push'[s] = push[s]
    BY DEF IInv, TypeOK
  <1>4. \A s \in Pushes \ {p} : AnswersHappened(s)'
    BY <1>3 DEF IInv, AnswersHappened, InTx, Current
  <1>5. AnswersHappened(p)'
    BY <1>3 DEF AnswersHappened
  <1> QED
    BY <1>2, <1>4, <1>5 DEF IInv, RecordedIffApplied, DeletedTookEffect

\* Steps before the commit, and failures: nothing happens.
LEMMA QuietKeeps ==
    ASSUME IInv, NEW p \in Pushes, NEW q \in Push, push' = [push EXCEPT ![p] = q],
           UNCHANGED <<effects, processed, deleted>>,
           q.saved \subseteq Happened, q.cached \subseteq Happened,
           q.pc \in {"handle", "find", "insert", "commit"} =>
                q.batch = push[p].batch /\ q.done = push[p].done /\ Current(p) \in Mutations
    PROVE  IInv'
  <1>1. Happened' = Happened
    BY DEF Happened
  <1>2. push'[p] = q
    BY DEF IInv, TypeOK
  <1>3. InTx(p)' => Current(p)' \in Mutations
    BY <1>2 DEF InTx, Current
  <1> QED
    BY <1>1, <1>3, MoveKeeps DEF IInv, TypeOK, RecordedIffApplied, DeletedTookEffect

LEMMA SendKeeps ==
    ASSUME IInv, NEW p \in Pushes, NEW batch \in Batches, Send(p, batch)
    PROVE  IInv'
  <1> DEFINE others == \E o \in Pushes : InProgress(o)
             q == [Waiting EXCEPT !.pc = "lookup", !.batch = batch, !.overlaps = others]
  <1>1. batch \in Seq(Mutations)
    BY SyncAssumption
  <1>2. Waiting \in Push /\ Waiting.saved = {} /\ Waiting.cached = {}
    BY DEF Waiting, Push
  <1>3. others \in BOOLEAN
    OBVIOUS
  <1>4. push' = [push EXCEPT ![p] = q] /\ UNCHANGED <<effects, processed, deleted>>
    BY DEF Send
  <1> HIDE DEF others
  <1>5. q \in Push /\ q.pc = "lookup" /\ q.saved = {} /\ q.cached = {}
    BY <1>1, <1>2, <1>3 DEF Push
  <1> HIDE DEF q
  <1> QED
    BY <1>4, <1>5, QuietKeeps

LEMMA WorkKeeps ==
    ASSUME IInv, NEW p \in Pushes, Work(p) \/ FailMutation(p) \/ LosePush(p)
    PROVE  IInv'
  <1>1. push[p] \in Push /\ AnswersHappened(p) /\ processed = Happened
    BY DEF IInv, TypeOK, RecordedIffApplied
  <1>2. push[p].done \in Nat /\ push[p].done + 1 \in Nat
    BY <1>1 DEF Push
  <1>3. CASE FindProcessed(p)
    <2> DEFINE found == {m \in processed : \E i \in DOMAIN push[p].batch : push[p].batch[i] = m}
               q == [push[p] EXCEPT !.pc = "item", !.cached = found]
    <2>1. found \subseteq Happened /\ found \subseteq Mutations
      BY <1>1 DEF IInv, TypeOK
    <2> HIDE DEF found
    <2>2. q \in Push /\ q.pc = "item" /\ q.saved = push[p].saved /\ q.cached = found
      BY <1>1, <2>1 DEF Push
    <2>3. push' = [push EXCEPT ![p] = q] /\ UNCHANGED <<effects, processed, deleted>>
      BY <1>3 DEF FindProcessed, found
    <2> HIDE DEF q
    <2> QED
      BY <1>1, <2>1, <2>2, <2>3, QuietKeeps DEF AnswersHappened
  <1>4. CASE AnswerDuplicate(p)
    <2> DEFINE m == Current(p)
               q == [push[p] EXCEPT !.done = @ + 1, !.saved = @ \cup {m}]
    <2>1. m \in Happened /\ m \in Mutations /\ push[p].pc = "item"
      BY <1>1, <1>4 DEF AnswerDuplicate, AnswersHappened, Push
    <2> HIDE DEF m
    <2>2. /\ q \in Push /\ q.pc = "item" /\ q.saved = push[p].saved \cup {m}
          /\ q.cached = push[p].cached
      BY <1>1, <1>2, <2>1 DEF Push
    <2>3. push' = [push EXCEPT ![p] = q] /\ UNCHANGED <<effects, processed, deleted>>
      BY <1>4 DEF AnswerDuplicate, m
    <2> HIDE DEF q
    <2> QED
      BY <1>1, <2>1, <2>2, <2>3, QuietKeeps DEF AnswersHappened
  <1>5. CASE Answer(p) \/ BeginMutation(p) \/ HandleMutation(p) \/ FindRecord(p)
    <2>1. PICK label \in {"answered", "handle", "find", "insert", "commit"} : Goto(p, label)
      BY <1>5 DEF Answer, BeginMutation, HandleMutation, FindRecord
    <2>2. UNCHANGED <<effects, processed, deleted>>
      BY <1>5 DEF Answer, BeginMutation, HandleMutation, FindRecord
    <2>3. label # "answered" => Current(p) \in Mutations
      <3>1. CASE Answer(p)
        <4>1. push'[p].pc = "answered" /\ push'[p].pc = label
          BY <3>1, <2>1, <1>1 DEF Answer, Goto, IInv, TypeOK, Push
        <4> QED
          BY <4>1
      <3>2. CASE BeginMutation(p)
        BY <3>2, CurrentType DEF BeginMutation, IInv
      <3>3. CASE HandleMutation(p) \/ FindRecord(p)
        BY <3>3, <1>1 DEF HandleMutation, FindRecord, AnswersHappened, InTx
      <3> QED
        BY <1>5, <3>1, <3>2, <3>3
    <2> DEFINE q == [push[p] EXCEPT !.pc = label]
    <2>4. /\ q \in Push /\ q.pc = label /\ q.saved = push[p].saved /\ q.cached = push[p].cached
          /\ q.batch = push[p].batch /\ q.done = push[p].done
      BY <1>1 DEF Push
    <2>5. push' = [push EXCEPT ![p] = q]
      BY <2>1 DEF Goto
    <2> HIDE DEF q
    <2> QED
      BY <1>1, <2>2, <2>3, <2>4, <2>5, QuietKeeps DEF AnswersHappened
  <1>6. CASE InsertRecord(p)
    <2> DEFINE q == [push[p] EXCEPT !.pc = "commit", !.inserts = Current(p) \notin processed]
    <2>1. (Current(p) \notin processed) \in BOOLEAN
      OBVIOUS
    <2>2. /\ q \in Push /\ q.pc = "commit" /\ q.saved = push[p].saved
          /\ q.cached = push[p].cached /\ q.batch = push[p].batch /\ q.done = push[p].done
      BY <1>1, <2>1 DEF Push
    <2>3. push' = [push EXCEPT ![p] = q] /\ UNCHANGED <<effects, processed, deleted>>
      BY <1>6 DEF InsertRecord
    <2>4. Current(p) \in Mutations
      BY <1>1, <1>6 DEF InsertRecord, AnswersHappened, InTx
    <2> HIDE DEF q
    <2> QED
      BY <1>1, <2>2, <2>3, <2>4, QuietKeeps DEF AnswersHappened
  <1>7. CASE RefuseRecord(p) \/ FailMutation(p) \/ LosePush(p)
    <2>1. PICK label \in {"item", "failed"}, done \in {push[p].done, push[p].done + 1},
               inserts \in {push[p].inserts, FALSE} :
             push' = [push EXCEPT ![p] = [push[p] EXCEPT !.pc = label, !.done = done,
                                                         !.inserts = inserts]]
      <3>1. CASE RefuseRecord(p)
        <4>1. push' = [push EXCEPT ![p] = [push[p] EXCEPT !.pc = "item", !.done = push[p].done + 1,
                                                          !.inserts = push[p].inserts]]
          BY <3>1, <1>1 DEF RefuseRecord, Push
        <4> QED
          BY <4>1
      <3>2. CASE FailMutation(p)
        BY <3>2 DEF FailMutation
      <3>3. CASE LosePush(p)
        <4>1. push' = [push EXCEPT ![p] = [push[p] EXCEPT !.pc = "failed", !.done = push[p].done,
                                                          !.inserts = FALSE]]
          BY <3>3, <1>1 DEF LosePush, Push
        <4> QED
          BY <4>1
      <3> QED
        BY <1>7, <3>1, <3>2, <3>3
    <2> DEFINE q == [push[p] EXCEPT !.pc = label, !.done = done, !.inserts = inserts]
    <2>2. push[p].inserts \in BOOLEAN
      BY <1>1 DEF Push
    <2>3. q \in Push /\ q.pc = label /\ q.saved = push[p].saved /\ q.cached = push[p].cached
      BY <1>1, <1>2, <2>2 DEF Push
    <2>4. UNCHANGED <<effects, processed, deleted>>
      BY <1>7 DEF RefuseRecord, FailMutation, LosePush
    <2> HIDE DEF q
    <2> QED
      BY <1>1, <2>1, <2>3, <2>4, QuietKeeps DEF AnswersHappened, q
  <1>8. CASE CommitMutation(p)
    <2> DEFINE m == Current(p)
               q == [push[p] EXCEPT !.pc = "item", !.done = @ + 1, !.inserts = FALSE,
                                    !.saved = @ \cup {m}]
    <2>1. m \in Mutations
      BY <1>1, <1>8 DEF CommitMutation, AnswersHappened, InTx
    <2>2. /\ effects' = Append(effects, m) /\ processed' = processed \cup {m}
          /\ push' = [push EXCEPT ![p] = q] /\ UNCHANGED deleted
      BY <1>8 DEF CommitMutation
    <2> PICK n \in Mutations : n = m
      BY <2>1
    <2> HIDE DEF m
    <2>3. effects \in Seq(Mutations)
      BY DEF IInv, TypeOK
    <2>4. effects' \in Seq(Mutations) /\ DOMAIN effects' = 1..(Len(effects) + 1)
          /\ effects'[Len(effects) + 1] = m
          /\ \A i \in DOMAIN effects : effects'[i] = effects[i]
      BY <2>1, <2>2, <2>3
    <2>5. DOMAIN effects = 1..Len(effects) /\ Len(effects) \in Nat
      BY <2>3
    <2>6. {effects'[i] : i \in DOMAIN effects'} = {effects[i] : i \in DOMAIN effects} \cup {m}
      BY <2>4, <2>5
    <2>7. Happened' = Happened \cup {n}
      BY <2>6 DEF Happened
    <2>8. /\ q \in Push /\ q.pc = "item" /\ q.saved = push[p].saved \cup {n}
          /\ q.cached = push[p].cached
      BY <1>1, <1>2, <2>1 DEF Push
    <2> HIDE DEF q
    <2>9. ~InTx(p)'
      BY <2>2, <2>8 DEF InTx, IInv, TypeOK
    <2>10. deleted \subseteq Happened
      BY DEF IInv, DeletedTookEffect
    <2> QED
      BY <1>1, <2>2, <2>4, <2>7, <2>8, <2>9, <2>10, MoveKeeps DEF AnswersHappened
  <1> QED
    BY <1>3, <1>4, <1>5, <1>6, <1>7, <1>8 DEF Work

LEMMA ClientKeeps ==
    ASSUME IInv,
           \/ \E p \in Pushes : DeleteAnswered(p)
           \/ \E ids \in SUBSET Mutations : DeleteAcknowledged(ids)
    PROVE  IInv'
  <1>1. UNCHANGED <<effects, processed, push>> /\ deleted' \subseteq deleted \cup Happened
    BY DEF IInv, DeleteAnswered, DeleteAcknowledged, GetAcknowledged, AnswersHappened,
           RecordedIffApplied
  <1>2. Happened' = Happened /\ Happened \subseteq Mutations
    BY <1>1 DEF Happened, IInv, TypeOK
  <1> QED
    BY <1>1, <1>2 DEF IInv, TypeOK, RecordedIffApplied, DeletedTookEffect, AnswersHappened,
                      InTx, Current

LEMMA StepKeeps == IInv /\ [Next]_vars => IInv'
  <1> SUFFICES ASSUME IInv, [Next]_vars PROVE IInv'
    OBVIOUS
  <1>1. CASE UNCHANGED vars
    BY <1>1 DEF vars, IInv, TypeOK, RecordedIffApplied, DeletedTookEffect, AnswersHappened,
                InTx, Current, Happened
  <1>2. CASE Next
    BY <1>2, SendKeeps, WorkKeeps, ClientKeeps DEF Next
  <1> QED
    BY <1>1, <1>2

\* The inductive invariant holds in every state of SyncPush.
THEOREM InductiveInvariant == Spec => []IInv
  BY InitSound, StepKeeps, PTL DEF Spec

\* A mutation is recorded as processed exactly when it took effect.
THEOREM RecordIsEffect == Spec => []RecordedIffApplied
  BY InductiveInvariant, PTL DEF IInv

\* A client never deletes a mutation that did not take effect.
THEOREM NothingDeletedEarly == Spec => []DeletedTookEffect
  BY InductiveInvariant, PTL DEF IInv

-----------------------------------------------------------------------------
(* Idempotency: what a push knows when no other was in progress.           *)

NoOverlap == \A p \in Pushes : ~ push[p].overlaps

Distinct(seq) == \A i, j \in DOMAIN seq : seq[i] = seq[j] => i = j

\* A push that has looked up knows which of the mutations still to come happened.
KnowsHappened(p) ==
    push[p].pc \in {"item", "handle", "find", "insert", "commit"} =>
        \A i \in DOMAIN push[p].batch :
            i > push[p].done /\ push[p].batch[i] \in Happened =>
                push[p].batch[i] \in push[p].cached

\* A transaction is open for a mutation that was not answered from the lookup.
HandlesNew(p) ==
    InTx(p) => Current(p) \notin push[p].cached /\ push[p].done < Len(push[p].batch)

AloneInv ==
    /\ \A p, q \in Pushes : (InProgress(p) /\ InProgress(q) /\ p # q) =>
                               push[p].overlaps \/ push[q].overlaps
    /\ \A p \in Pushes : Distinct(push[p].batch) /\ HandlesNew(p)
    /\ \A p \in Pushes : push[p].pc = "idle" => ~ push[p].overlaps
    /\ NoOverlap => Distinct(effects) /\ \A p \in Pushes : KnowsHappened(p)

LEMMA InitAlone == Init => AloneInv
  BY DEF Init, AloneInv, Waiting, InProgress, Distinct, HandlesNew, KnowsHappened, InTx, NoOverlap

\* A step of a push in progress: it inserts at most the effect of the mutation it
\* handles, and then what it knows of the mutations to come is still true.
LEMMA AloneMoves ==
    ASSUME IInv, AloneInv, NEW p \in Pushes, NEW q \in Push,
           InProgress(p), push' = [push EXCEPT ![p] = q],
           q.pc # "idle", q.overlaps = push[p].overlaps, q.batch = push[p].batch,
           HandlesNew(p)',
           \/ effects' = effects
           \/ effects' = Append(effects, Current(p)) /\ InTx(p),
           NoOverlap => KnowsHappened(p)'
    PROVE  AloneInv'
  <1>1. push'[p] = q /\ \A s \in Pushes \ {p} : push'[s] = push[s]
    BY DEF IInv, TypeOK
  <1>2. \A s \in Pushes : push'[s].overlaps = push[s].overlaps /\ (InProgress(s)' => InProgress(s))
    BY <1>1 DEF InProgress
  <1>3. \A s \in Pushes : Distinct(push[s].batch)' /\ HandlesNew(s)'
    BY <1>1 DEF AloneInv, Distinct, HandlesNew, InTx, Current
  <1>4. \A s, t \in Pushes : (InProgress(s)' /\ InProgress(t)' /\ s # t) =>
                                push'[s].overlaps \/ push'[t].overlaps
    BY <1>2 DEF AloneInv
  <1>5. ASSUME NoOverlap' PROVE Distinct(effects)' /\ \A s \in Pushes : KnowsHappened(s)'
    <2>1. NoOverlap
      BY <1>2, <1>5 DEF NoOverlap
    <2>2. \A s \in Pushes \ {p} : ~ InProgress(s)
      BY <2>1 DEF AloneInv, NoOverlap
    <2>3. \A s \in Pushes \ {p} : KnowsHappened(s)'
      BY <1>1, <2>2 DEF InProgress, KnowsHappened
    <2>4. Distinct(effects) /\ KnowsHappened(p)
      BY <2>1 DEF AloneInv
    <2>5. CASE effects' = effects
      BY <2>1, <2>3, <2>4, <2>5 DEF Distinct
    <2>6. CASE effects' = Append(effects, Current(p)) /\ InTx(p)
      <3>1. /\ push[p].batch \in Seq(Mutations) /\ push[p].done \in Nat
            /\ push[p].done < Len(push[p].batch) /\ Current(p) \notin push[p].cached
        BY <2>6 DEF IInv, TypeOK, Push, AloneInv, HandlesNew
      <3>2. /\ push[p].done + 1 \in DOMAIN push[p].batch
            /\ Current(p) = push[p].batch[push[p].done + 1]
        BY <3>1 DEF Current
      <3>3. Current(p) \notin Happened
        BY <2>4, <2>6, <3>1, <3>2 DEF KnowsHappened, InTx
      <3>4. PICK m \in Mutations : m = Current(p)
        BY <2>6 DEF IInv, AnswersHappened
      <3>5. effects \in Seq(Mutations)
        BY DEF IInv, TypeOK
      <3>6. /\ DOMAIN effects' = 1 .. (Len(effects) + 1) /\ effects'[Len(effects) + 1] = m
            /\ \A i \in DOMAIN effects : effects'[i] = effects[i]
        BY <2>6, <3>4, <3>5
      <3>7. \A i \in DOMAIN effects : effects[i] # m
        BY <3>3, <3>4 DEF Happened
      <3>8. Distinct(effects)'
        <4> SUFFICES ASSUME NEW i \in DOMAIN effects', NEW j \in DOMAIN effects',
                            effects'[i] = effects'[j]
                     PROVE  i = j
          BY DEF Distinct
        <4>1. DOMAIN effects = 1 .. Len(effects) /\ Len(effects) \in Nat
          BY <3>5
        <4>2. i \in DOMAIN effects \/ i = Len(effects) + 1
          BY <3>6, <4>1
        <4>3. j \in DOMAIN effects \/ j = Len(effects) + 1
          BY <3>6, <4>1
        <4> QED
          BY <2>4, <3>6, <3>7, <4>2, <4>3 DEF Distinct
      <3> QED
        BY <2>1, <2>3, <3>8
    <2> QED
      BY <2>5, <2>6
  <1>6. \A s \in Pushes : push'[s].pc = "idle" => ~ push'[s].overlaps
    BY <1>1 DEF AloneInv
  <1> QED
    BY <1>3, <1>4, <1>5, <1>6 DEF AloneInv

\* A batch names a mutation once.
BatchesDistinct == \A batch \in Batches : Distinct(batch)

LEMMA AloneSend ==
    ASSUME IInv, AloneInv, BatchesDistinct, NEW p \in Pushes, NEW batch \in Batches, Send(p, batch)
    PROVE  AloneInv'
  <1>1. PICK others \in BOOLEAN :
          /\ others <=> \E o \in Pushes : InProgress(o)
          /\ push' = [push EXCEPT ![p] = [Waiting EXCEPT !.pc = "lookup", !.batch = batch,
                                                         !.overlaps = others]]
    BY DEF Send
  <1>2. /\ push'[p].pc = "lookup" /\ push'[p].batch = batch /\ push'[p].overlaps = others
        /\ \A s \in Pushes \ {p} : push'[s] = push[s]
    BY <1>1 DEF IInv, TypeOK, Waiting
  <1>3. \A s \in Pushes : Distinct(push[s].batch)' /\ HandlesNew(s)'
    BY <1>2 DEF AloneInv, BatchesDistinct, Distinct, HandlesNew, InTx, Current
  <1>4. \A s, t \in Pushes : (InProgress(s)' /\ InProgress(t)' /\ s # t) =>
                                push'[s].overlaps \/ push'[t].overlaps
    BY <1>1, <1>2 DEF AloneInv, InProgress
  <1>5. \A s \in Pushes : push'[s].pc = "idle" => ~ push'[s].overlaps
    BY <1>2 DEF AloneInv
  <1>6. ASSUME NoOverlap' PROVE Distinct(effects)' /\ \A s \in Pushes : KnowsHappened(s)'
    <2>1. NoOverlap
      BY <1>2, <1>6 DEF NoOverlap, AloneInv, Send
    <2> QED
      BY <1>2, <2>1 DEF AloneInv, Send, KnowsHappened, Distinct, Happened
  <1> QED
    BY <1>3, <1>4, <1>5, <1>6 DEF AloneInv

LEMMA AloneWork ==
    ASSUME IInv, AloneInv, NEW p \in Pushes, Work(p) \/ FailMutation(p) \/ LosePush(p)
    PROVE  AloneInv'
  <1>1. push[p] \in Push /\ processed = Happened
    BY DEF IInv, TypeOK, RecordedIffApplied
  <1>2. push[p].done \in Nat /\ push[p].done + 1 \in Nat
    BY <1>1 DEF Push
  <1>3. InProgress(p)
    BY DEF Work, FindProcessed, AnswerDuplicate, Answer, BeginMutation, HandleMutation,
           FindRecord, InsertRecord, RefuseRecord, CommitMutation, FailMutation, LosePush,
           InProgress, InTx
  <1>4. CASE FindProcessed(p)
    <2> DEFINE found == {m \in processed : \E i \in DOMAIN push[p].batch : push[p].batch[i] = m}
               q == [push[p] EXCEPT !.pc = "item", !.cached = found]
    <2>1. found \subseteq Mutations
      BY DEF IInv, TypeOK
    <2>2. \A i \in DOMAIN push[p].batch : push[p].batch[i] \in Happened => push[p].batch[i] \in found
      BY <1>1
    <2> HIDE DEF found
    <2>3. /\ q \in Push /\ q.pc = "item" /\ q.cached = found /\ q.batch = push[p].batch
          /\ q.overlaps = push[p].overlaps
      BY <1>1, <2>1 DEF Push
    <2>4. push' = [push EXCEPT ![p] = q] /\ UNCHANGED <<effects, processed, deleted>>
      BY <1>4 DEF FindProcessed, found
    <2> HIDE DEF q
    <2>5. push'[p] = q
      BY <2>4 DEF IInv, TypeOK
    <2>6. HandlesNew(p)' /\ KnowsHappened(p)'
      BY <2>2, <2>3, <2>4, <2>5 DEF HandlesNew, KnowsHappened, InTx, Happened
    <2> QED
      BY <1>3, <2>3, <2>4, <2>6, AloneMoves
  <1>5. ASSUME NEW label \in {"item", "answered", "failed", "handle", "find", "insert", "commit"},
               NEW done \in {push[p].done, push[p].done + 1}, NEW inserts \in BOOLEAN,
               NEW saved \in SUBSET Mutations,
               push' = [push EXCEPT ![p] = [push[p] EXCEPT !.pc = label, !.done = done,
                                                  !.inserts = inserts, !.saved = saved]],
               \/ effects' = effects
               \/ effects' = Append(effects, Current(p)) /\ InTx(p) /\ done = push[p].done + 1,
               label \in {"handle", "find", "insert", "commit"} =>
                 /\ done = push[p].done /\ Current(p) \notin push[p].cached
                 /\ push[p].done < Len(push[p].batch),
               label \in {"item", "handle", "find", "insert", "commit"} => push[p].pc # "lookup"
        PROVE  AloneInv'
    <2> DEFINE q == [push[p] EXCEPT !.pc = label, !.done = done, !.inserts = inserts,
                                    !.saved = saved]
    <2>1. /\ q \in Push /\ q.pc = label /\ q.done = done /\ q.batch = push[p].batch
          /\ q.cached = push[p].cached /\ q.overlaps = push[p].overlaps
      BY <1>1, <1>2, <1>5 DEF Push
    <2>2. push' = [push EXCEPT ![p] = q]
      BY <1>5
    <2> HIDE DEF q
    <2>3. push'[p] = q
      BY <2>2 DEF IInv, TypeOK
    <2>4. HandlesNew(p)'
      BY <1>5, <2>1, <2>3 DEF HandlesNew, InTx, Current
    <2>5. ASSUME NoOverlap PROVE KnowsHappened(p)'
      <3> SUFFICES ASSUME q.pc \in {"item", "handle", "find", "insert", "commit"},
                          NEW i \in DOMAIN push[p].batch, i > done,
                          push[p].batch[i] \in Happened'
                   PROVE  push[p].batch[i] \in push[p].cached
        BY <2>1, <2>3 DEF KnowsHappened
      <3>1. KnowsHappened(p) /\ Distinct(push[p].batch) /\ HandlesNew(p)
        BY <2>5 DEF AloneInv
      <3>2. push[p].batch \in Seq(Mutations)
        BY <1>1 DEF Push
      <3>3. i \in Nat /\ i > push[p].done
        BY <1>2, <1>5, <3>2
      <3>4. push[p].pc \in {"item", "handle", "find", "insert", "commit"}
        BY <1>1, <1>3, <1>5, <2>1 DEF Push, InProgress
      <3>5. push[p].batch[i] \in Happened => push[p].batch[i] \in push[p].cached
        BY <3>1, <3>3, <3>4 DEF KnowsHappened
      <3>6. CASE effects' = effects
        BY <3>5, <3>6 DEF Happened
      <3>7. CASE effects' = Append(effects, Current(p)) /\ InTx(p) /\ done = push[p].done + 1
        <4>1. /\ push[p].done + 1 \in DOMAIN push[p].batch
              /\ Current(p) = push[p].batch[push[p].done + 1]
          BY <1>2, <3>1, <3>2, <3>7 DEF HandlesNew, Current
        <4>2. push[p].batch[i] # Current(p)
          BY <1>2, <1>5, <3>1, <3>3, <3>7, <4>1 DEF Distinct
        <4>3. PICK m \in Mutations : m = Current(p)
          BY <3>7 DEF IInv, AnswersHappened
        <4>4. effects \in Seq(Mutations)
          BY DEF IInv, TypeOK
        <4>5. \A j \in DOMAIN effects' : effects'[j] = m \/ (j \in DOMAIN effects /\ effects'[j] = effects[j])
          BY <3>7, <4>3, <4>4
        <4>6. push[p].batch[i] \in Happened
          BY <4>2, <4>3, <4>5 DEF Happened
        <4> QED
          BY <3>5, <4>6
      <3> QED
        BY <1>5, <3>6, <3>7
    <2> QED
      BY <1>3, <1>5, <2>1, <2>2, <2>4, <2>5, AloneMoves
  <1>6. push[p].inserts \in BOOLEAN /\ push[p].saved \in SUBSET Mutations
    BY <1>1 DEF Push
  <1>7. CASE AnswerDuplicate(p)
    <2>1. PICK saved \in SUBSET Mutations : saved = push[p].saved \cup {Current(p)}
      BY <1>1, <1>7 DEF AnswerDuplicate, Push
    <2>2. push' = [push EXCEPT ![p] = [push[p] EXCEPT !.pc = "item", !.done = push[p].done + 1,
                                             !.inserts = push[p].inserts, !.saved = saved]]
      BY <1>1, <1>7, <2>1 DEF AnswerDuplicate, Push
    <2> QED
      BY <1>5, <1>6, <1>7, <2>2 DEF AnswerDuplicate
  <1>8. CASE Answer(p) \/ BeginMutation(p) \/ HandleMutation(p) \/ FindRecord(p)
    <2>1. PICK label \in {"answered", "handle", "find", "insert", "commit"} : Goto(p, label)
      BY <1>8 DEF Answer, BeginMutation, HandleMutation, FindRecord
    <2>2. push' = [push EXCEPT ![p] = [push[p] EXCEPT !.pc = label, !.done = push[p].done,
                                        !.inserts = push[p].inserts, !.saved = push[p].saved]]
      BY <1>1, <2>1 DEF Goto, Push
    <2>3. UNCHANGED effects /\ push[p].pc # "lookup"
      BY <1>8 DEF Answer, BeginMutation, HandleMutation, FindRecord
    <2>4. label # "answered" => /\ Current(p) \notin push[p].cached
                                /\ push[p].done < Len(push[p].batch)
      <3>1. CASE Answer(p)
        <4>1. push'[p].pc = "answered" /\ push'[p].pc = label
          BY <3>1, <2>1, <1>1 DEF Answer, Goto, IInv, TypeOK, Push
        <4> QED
          BY <4>1
      <3>2. CASE BeginMutation(p)
        BY <3>2 DEF BeginMutation, Current
      <3>3. CASE HandleMutation(p) \/ FindRecord(p)
        BY <3>3 DEF HandleMutation, FindRecord, AloneInv, HandlesNew, InTx
      <3> QED
        BY <1>8, <3>1, <3>2, <3>3
    <2> QED
      BY <1>5, <1>6, <2>2, <2>3, <2>4
  <1>9. CASE InsertRecord(p)
    <2>1. PICK inserts \in BOOLEAN : inserts <=> Current(p) \notin processed
      OBVIOUS
    <2>2. push' = [push EXCEPT ![p] = [push[p] EXCEPT !.pc = "commit", !.done = push[p].done,
                                        !.inserts = inserts, !.saved = push[p].saved]]
      BY <1>1, <1>9, <2>1 DEF InsertRecord, Push
    <2> QED
      BY <1>5, <1>6, <1>9, <2>2 DEF InsertRecord, AloneInv, HandlesNew, InTx
  <1>10. CASE RefuseRecord(p)
    <2>1. push' = [push EXCEPT ![p] = [push[p] EXCEPT !.pc = "item", !.done = push[p].done + 1,
                                        !.inserts = push[p].inserts, !.saved = push[p].saved]]
      BY <1>1, <1>10 DEF RefuseRecord, Push
    <2> QED
      BY <1>5, <1>6, <1>10, <2>1 DEF RefuseRecord
  <1>11. CASE FailMutation(p)
    <2>1. push' = [push EXCEPT ![p] = [push[p] EXCEPT !.pc = "item", !.done = push[p].done + 1,
                                        !.inserts = FALSE, !.saved = push[p].saved]]
      BY <1>1, <1>11 DEF FailMutation, Push
    <2> QED
      BY <1>5, <1>6, <1>11, <2>1 DEF FailMutation, InTx
  <1>12. CASE LosePush(p)
    <2>1. push' = [push EXCEPT ![p] = [push[p] EXCEPT !.pc = "failed", !.done = push[p].done,
                                        !.inserts = FALSE, !.saved = push[p].saved]]
      BY <1>1, <1>12 DEF LosePush, Push
    <2> QED
      BY <1>5, <1>6, <1>12, <2>1 DEF LosePush
  <1>13. CASE CommitMutation(p)
    <2>1. InTx(p)
      BY <1>13 DEF CommitMutation, InTx
    <2>2. PICK saved \in SUBSET Mutations : saved = push[p].saved \cup {Current(p)}
      BY <1>1, <2>1 DEF IInv, AnswersHappened, Push
    <2>3. push' = [push EXCEPT ![p] = [push[p] EXCEPT !.pc = "item", !.done = push[p].done + 1,
                                        !.inserts = FALSE, !.saved = saved]]
      BY <1>1, <1>13, <2>2 DEF CommitMutation, Push
    <2> QED
      BY <1>5, <1>13, <2>1, <2>3 DEF CommitMutation
  <1> QED
    BY <1>4, <1>7, <1>8, <1>9, <1>10, <1>11, <1>12, <1>13 DEF Work

LEMMA AloneStays ==
    ASSUME AloneInv, UNCHANGED <<effects, push>>
    PROVE  AloneInv'
  BY DEF AloneInv, InProgress, Distinct, HandlesNew, KnowsHappened, InTx, Current, NoOverlap,
         Happened

\* Where no push arrives while another is in progress no mutation takes effect twice,
\* whatever fails, is lost or is sent again, if clients name a mutation once in a batch.
THEOREM AppliedOnce == BatchesDistinct => (Spec => []AppliedOnceWithoutOverlap)
  <1> SUFFICES ASSUME BatchesDistinct PROVE Spec => []AppliedOnceWithoutOverlap
    OBVIOUS
  <1>1. Init => AloneInv
    BY InitAlone
  <1>2. IInv /\ AloneInv /\ [Next]_vars => AloneInv'
    BY AloneSend, AloneWork, AloneStays DEF Next, vars, DeleteAnswered, DeleteAcknowledged
  <1>3. AloneInv => AppliedOnceWithoutOverlap
    BY DEF AloneInv, AppliedOnceWithoutOverlap, NoOverlap, Distinct
  <1> QED
    BY <1>1, <1>2, <1>3, InductiveInvariant, PTL DEF Spec

=============================================================================
