----------------------------- MODULE LedgerProofs -----------------------------
(***************************************************************************)
(* Proofs about Ledger.  For any number of writing and flushing threads:   *)
(* nothing hangs off a missing block, and what the ring took comes out     *)
(* once.  For a single writing thread: the ledger is a HashChain, and with *)
(* a single flushing thread besides, every batch verifies.                 *)
(***************************************************************************)
EXTENDS Ledger, SequenceTheorems, TLAPS

-----------------------------------------------------------------------------
(* The ring as a queue: what push and pop do to the entries pushed so far. *)

\* A push makes the sequence of all entries pushed one longer.
LEMMA PushAppends ==
    ASSUME NEW S, NEW p \in Seq(S), NEW r \in Seq(S), NEW e \in S
    PROVE  p \o Append(r, e) = Append(p \o r, e)
  OBVIOUS

\* A pop moves an entry and leaves that sequence as it was.
LEMMA PopMoves ==
    ASSUME NEW S, NEW p \in Seq(S), NEW r \in Seq(S), r # <<>>
    PROVE  Append(p, Head(r)) \o Tail(r) = p \o r
  OBVIOUS

-----------------------------------------------------------------------------
(***************************************************************************)
(* The inductive invariant.                                                *)
(*                                                                         *)
(* Numbering: an id belongs to one call of write, so to one entry pushed   *)
(* or one thread that is still to push.                                    *)
(*                                                                         *)
(* Linked: whatever a thread may still chain an entry to has been pushed,  *)
(* although the tip it has read may be an old one by now.                  *)
(*                                                                         *)
(* Drained: the batches share the popped entries out among themselves. Two *)
(* threads that drain hold nothing in common (their batches may be equal   *)
(* only if they are empty), nor does a thread with a batch returned.       *)
(***************************************************************************)
Busy(w) == writer[w].pc # "idle"
Draining == {f \in Flushers : flusher[f].pc = "draining"}

Exists(h, s) == h = GENESIS \/ \E j \in 1..Len(s) : s[j].id = h

Numbering ==
    /\ \A i \in 1..Len(Pushed) : Pushed[i].id <= calls
    /\ \A i, j \in 1..Len(Pushed) : Pushed[i].id = Pushed[j].id => i = j
    /\ \A w \in Writers : Busy(w) => writer[w].id \in 1..calls
    /\ \A w \in Writers : writer[w].pc = "read" =>
          \A i \in 1..Len(Pushed) : Pushed[i].id # writer[w].id
    /\ \A v, w \in Writers : v # w /\ Busy(v) /\ Busy(w) => writer[v].id # writer[w].id

Linked ==
    /\ Exists(last_hash, Pushed)
    /\ \A w \in Writers : Busy(w) => Exists(writer[w].previous_hash, Pushed)
    /\ \A w \in Writers : writer[w].pc = "pushed" => Exists(writer[w].id, Pushed)
    /\ NoDanglingPrevious

Apart(b, c) == \A k \in 1..Len(b), m \in 1..Len(c) : b[k] # c[m]
NoRepeats(b) == \A k, m \in 1..Len(b) : b[k] = b[m] => k = m
FromRing(b, p) == \A k \in 1..Len(b) : \E i \in 1..Len(p) : b[k] = p[i]
Holds(b, e) == \E k \in 1..Len(b) : b[k] = e

Drained ==
    /\ \A f \in Draining : FromRing(flusher[f].batch, popped) /\ NoRepeats(flusher[f].batch)
    /\ \A b \in batches : FromRing(b, popped) /\ NoRepeats(b)
    /\ \A f, g \in Draining : f # g => Apart(flusher[f].batch, flusher[g].batch)
    /\ \A f \in Draining : \A b \in batches : Apart(flusher[f].batch, b)
    /\ \A b, c \in batches : b # c => Apart(b, c)
    /\ \A i \in 1..Len(popped) :
          \/ \E f \in Draining : Holds(flusher[f].batch, popped[i])
          \/ \E b \in batches : Holds(b, popped[i])

LedgerInv == TypeOK /\ Numbering /\ Linked /\ Drained

\* What an action does to the sequence of all entries pushed.
LEMMA PushedType == ASSUME TypeOK PROVE Pushed \in Seq(LedgerEntry)
  BY DEF TypeOK, Pushed

LEMMA PushedAfterPush ==
    ASSUME TypeOK, Numbering, NEW w \in Writers, push(w)
    PROVE  NewEntry(w) \in LedgerEntry /\ Pushed' = Append(Pushed, NewEntry(w))
  <1>1. NewEntry(w) \in LedgerEntry
    BY LedgerAssumption
       DEF TypeOK, Numbering, Busy, push, NewEntry, LedgerEntry, Ids, Hashes
  <1> HIDE DEF NewEntry
  <1>2. QED BY <1>1, PushAppends DEF TypeOK, push, Pushed

LEMMA PushedAfterPop ==
    ASSUME TypeOK, NEW f \in Flushers, pop(f)
    PROVE  Pushed' = Pushed
  BY PopMoves DEF TypeOK, pop, Pushed

LEMMA PushedAfterOthers ==
    ASSUME UNCHANGED <<popped, ring>>
    PROVE  Pushed' = Pushed
  BY DEF Pushed

-----------------------------------------------------------------------------
(* The type invariant *)

LEMMA TypeStep ==
    ASSUME TypeOK, Numbering, [Next]_vars
    PROVE  TypeOK'
  <1> USE LedgerAssumption
  <1>1. ASSUME NEW w \in Writers, readTip(w) PROVE TypeOK'
    BY <1>1 DEF TypeOK, readTip, Hashes, Ids
  <1>2. ASSUME NEW w \in Writers, rejectEntry(w) PROVE TypeOK'
    BY <1>2 DEF TypeOK, rejectEntry
  <1>3. ASSUME NEW w \in Writers, push(w) PROVE TypeOK'
    <2>1. NewEntry(w) \in LedgerEntry BY <1>3, PushedAfterPush
    <2>2. ring' \in Seq(LedgerEntry) /\ Len(ring') = Len(ring) + 1
      BY <1>3, <2>1 DEF TypeOK, push
    <2>3. Len(ring') <= RING_BUFFER_CAPACITY
      BY <1>3, <2>2 DEF TypeOK, push
    <2>4. writer' \in [Writers -> [pc : {"idle", "read", "pushed"},
                                   previous_hash : Hashes, id : Hashes]]
      BY <1>3 DEF TypeOK, push
    <2>5. QED BY <1>3, <2>2, <2>3, <2>4 DEF TypeOK, push
  <1>4. ASSUME NEW w \in Writers, bufferFull(w) PROVE TypeOK'
    BY <1>4 DEF TypeOK, bufferFull
  <1>5. ASSUME NEW w \in Writers, storeTip(w) PROVE TypeOK'
    BY <1>5 DEF TypeOK, storeTip
  <1>6. ASSUME NEW f \in Flushers, startFlush(f) PROVE TypeOK'
    BY <1>6 DEF TypeOK, startFlush
  <1>7. ASSUME NEW f \in Flushers, pop(f) PROVE TypeOK'
    <2>1. Head(ring) \in LedgerEntry
      BY <1>7 DEF TypeOK, pop
    <2>2. ring' \in Seq(LedgerEntry) /\ Len(ring') = Len(ring) - 1
      BY <1>7 DEF TypeOK, pop
    <2>3. popped' \in Seq(LedgerEntry) BY <1>7, <2>1 DEF TypeOK, pop
    <2>4. Append(flusher[f].batch, Head(ring)) \in Seq(LedgerEntry)
      BY <1>7, <2>1 DEF TypeOK, pop
    <2>5. flusher' \in [Flushers -> [pc : {"idle", "draining"}, batch : Seq(LedgerEntry)]]
      BY <1>7, <2>4 DEF TypeOK, pop
    <2>6. Len(ring') <= RING_BUFFER_CAPACITY
      BY <2>2 DEF TypeOK
    <2>7. QED BY <1>7, <2>2, <2>3, <2>5, <2>6 DEF TypeOK, pop
  <1>8. ASSUME NEW f \in Flushers, endFlush(f) PROVE TypeOK'
    BY <1>8 DEF TypeOK, endFlush
  <1>9. CASE UNCHANGED vars
    BY <1>9 DEF TypeOK, vars
  <1>10. QED BY <1>1, <1>2, <1>3, <1>4, <1>5, <1>6, <1>7, <1>8, <1>9 DEF Next

-----------------------------------------------------------------------------
(* One id, one entry *)

LEMMA NumberingStep ==
    ASSUME TypeOK, Numbering, [Next]_vars
    PROVE  Numbering'
  <1> USE DEF Busy
  <1>0. Pushed \in Seq(LedgerEntry) BY PushedType
  <1>1. ASSUME NEW w \in Writers, readTip(w) PROVE Numbering'
    <2>1. Pushed' = Pushed BY <1>1, PushedAfterOthers DEF readTip
    <2>2. \A i \in 1..Len(Pushed) : Pushed[i].id \in Nat /\ Pushed[i].id <= calls
      <3>1. ASSUME NEW i \in 1..Len(Pushed) PROVE Pushed[i] \in LedgerEntry
        BY <1>0, <3>1, ElementOfSeq
      <3>2. QED BY <3>1, LedgerAssumption DEF Numbering, LedgerEntry, Ids
    <2>3. QED BY <1>1, <2>1, <2>2 DEF TypeOK, Numbering, readTip
  <1>2. ASSUME NEW w \in Writers, rejectEntry(w) PROVE Numbering'
    <2>1. Pushed' = Pushed BY <1>2, PushedAfterOthers DEF rejectEntry
    <2>2. QED BY <1>2, <2>1 DEF TypeOK, Numbering, rejectEntry
  <1>3. ASSUME NEW w \in Writers, push(w) PROVE Numbering'
    <2>1. Pushed' = Append(Pushed, NewEntry(w)) BY <1>3, PushedAfterPush
    <2>2. QED BY <1>0, <1>3, <2>1 DEF TypeOK, Numbering, push, NewEntry
  <1>4. ASSUME NEW w \in Writers, bufferFull(w) PROVE Numbering'
    <2>1. Pushed' = Pushed BY <1>4, PushedAfterOthers DEF bufferFull
    <2>2. QED BY <1>4, <2>1 DEF TypeOK, Numbering, bufferFull
  <1>5. ASSUME NEW w \in Writers, storeTip(w) PROVE Numbering'
    <2>1. Pushed' = Pushed BY <1>5, PushedAfterOthers DEF storeTip
    <2>2. QED BY <1>5, <2>1 DEF TypeOK, Numbering, storeTip
  <1>6. ASSUME NEW f \in Flushers, startFlush(f) PROVE Numbering'
    <2>1. Pushed' = Pushed BY <1>6, PushedAfterOthers DEF startFlush
    <2>2. QED BY <1>6, <2>1 DEF Numbering, startFlush
  <1>7. ASSUME NEW f \in Flushers, pop(f) PROVE Numbering'
    <2>1. Pushed' = Pushed BY <1>7, PushedAfterPop
    <2>2. QED BY <1>7, <2>1 DEF Numbering, pop
  <1>8. ASSUME NEW f \in Flushers, endFlush(f) PROVE Numbering'
    <2>1. Pushed' = Pushed BY <1>8, PushedAfterOthers DEF endFlush
    <2>2. QED BY <1>8, <2>1 DEF Numbering, endFlush
  <1>9. CASE UNCHANGED vars
    <2>1. Pushed' = Pushed BY <1>9, PushedAfterOthers DEF vars
    <2>2. QED BY <1>9, <2>1 DEF Numbering, vars
  <1>10. QED BY <1>1, <1>2, <1>3, <1>4, <1>5, <1>6, <1>7, <1>8, <1>9 DEF Next

-----------------------------------------------------------------------------
(* No dangling references *)

\* Pushed only grows, so what exists goes on existing.
LEMMA PushedGrows ==
    ASSUME TypeOK, Numbering, [Next]_vars
    PROVE  \/ Pushed' = Pushed
           \/ \E w \in Writers : push(w) /\ Pushed' = Append(Pushed, NewEntry(w))
  <1>1. ASSUME NEW w \in Writers, push(w)
        PROVE  Pushed' = Append(Pushed, NewEntry(w))
    BY <1>1, PushedAfterPush
  <1>2. ASSUME NEW f \in Flushers, pop(f) PROVE Pushed' = Pushed
    BY <1>2, PushedAfterPop
  <1>3. CASE UNCHANGED <<popped, ring>>
    BY <1>3, PushedAfterOthers
  <1>4. QED
    BY <1>1, <1>2, <1>3
       DEF Next, vars, readTip, rejectEntry, bufferFull, storeTip, startFlush, endFlush

LEMMA ExistsGrows ==
    ASSUME TypeOK, Numbering, [Next]_vars, NEW h, Exists(h, Pushed)
    PROVE  Exists(h, Pushed')
  <1>1. Pushed \in Seq(LedgerEntry) BY PushedType
  <1>2. CASE Pushed' = Pushed BY <1>2
  <1>3. ASSUME NEW w \in Writers, Pushed' = Append(Pushed, NewEntry(w))
        PROVE  Exists(h, Pushed')
    BY <1>1, <1>3 DEF Exists
  <1>4. QED BY <1>2, <1>3, PushedGrows

LEMMA NoDanglingStep ==
    ASSUME TypeOK, Numbering, Linked, [Next]_vars
    PROVE  NoDanglingPrevious'
  <1>1. Pushed \in Seq(LedgerEntry) BY PushedType
  <1>2. CASE Pushed' = Pushed BY <1>2 DEF Linked, NoDanglingPrevious
  <1>3. ASSUME NEW w \in Writers, push(w), Pushed' = Append(Pushed, NewEntry(w))
        PROVE  NoDanglingPrevious'
    <2>1. Exists(NewEntry(w).previous_hash, Pushed)
      BY <1>3 DEF Linked, Busy, push, NewEntry
    <2>2. QED BY <1>1, <1>3, <2>1 DEF Linked, NoDanglingPrevious, Exists
  <1>4. QED BY <1>2, <1>3, PushedGrows

LEMMA LinkedStep ==
    ASSUME TypeOK, Numbering, Linked, [Next]_vars
    PROVE  Linked'
  <1> USE DEF Busy
  <1>0. /\ NoDanglingPrevious'
        /\ Exists(last_hash, Pushed')
        /\ \A w \in Writers : Busy(w) => Exists(writer[w].previous_hash, Pushed')
        /\ \A w \in Writers : writer[w].pc = "pushed" => Exists(writer[w].id, Pushed')
    BY NoDanglingStep, ExistsGrows DEF Linked
  <1>1. ASSUME NEW w \in Writers, readTip(w) PROVE Linked'
    BY <1>0, <1>1 DEF TypeOK, Linked, readTip
  <1>2. ASSUME NEW w \in Writers, rejectEntry(w) PROVE Linked'
    BY <1>0, <1>2 DEF TypeOK, Linked, rejectEntry
  <1>3. ASSUME NEW w \in Writers, push(w) PROVE Linked'
    <2>1. Pushed \in Seq(LedgerEntry) BY PushedType
    <2>2. /\ Len(Pushed') = Len(Pushed) + 1
          /\ Pushed'[Len(Pushed) + 1] = NewEntry(w)
      BY <1>3, <2>1, PushedAfterPush
    <2>3. Exists(writer[w].id, Pushed')
      BY <2>1, <2>2 DEF NewEntry, Exists
    <2>4. QED BY <1>0, <1>3, <2>3 DEF TypeOK, Linked, push
  <1>4. ASSUME NEW w \in Writers, bufferFull(w) PROVE Linked'
    BY <1>0, <1>4 DEF TypeOK, Linked, bufferFull
  <1>5. ASSUME NEW w \in Writers, storeTip(w) PROVE Linked'
    BY <1>0, <1>5 DEF TypeOK, Linked, storeTip
  <1>6. CASE UNCHANGED <<last_hash, writer>>
    BY <1>0, <1>6 DEF Linked
  <1>7. QED
    BY <1>1, <1>2, <1>3, <1>4, <1>5, <1>6 DEF Next, vars, startFlush, pop, endFlush

-----------------------------------------------------------------------------
(* Every popped entry is in one batch *)

\* The entry at the head of the ring has not been popped before.
LEMMA HeadIsNew ==
    ASSUME TypeOK, Numbering, ring # <<>>
    PROVE  \A i \in 1..Len(popped) : popped[i] # Head(ring)
  <1>1. ASSUME NEW i \in 1..Len(popped)
        PROVE  /\ Pushed[i] = popped[i]
               /\ Pushed[Len(popped) + 1] = Head(ring)
               /\ i \in 1..Len(Pushed) /\ Len(popped) + 1 \in 1..Len(Pushed)
               /\ i # Len(popped) + 1
    BY <1>1 DEF TypeOK, Pushed
  <1>2. QED BY <1>1 DEF Numbering

\* An empty batch holds nothing, and Apart is symmetric.
LEMMA EmptyBatch ==
    /\ NoRepeats(<<>>)
    /\ \A p : FromRing(<<>>, p)
    /\ \A c : Apart(<<>>, c) /\ Apart(c, <<>>)
    /\ \A b, c : Apart(b, c) => Apart(c, b)
  BY DEF NoRepeats, FromRing, Apart

\* A batch that grows by an entry that is new to the ring, and another that does not.
LEMMA GrowingBatch ==
    ASSUME NEW b \in Seq(LedgerEntry), NEW c \in Seq(LedgerEntry), NEW p \in Seq(LedgerEntry),
           NEW e \in LedgerEntry,
           \A i \in 1..Len(p) : p[i] # e,
           FromRing(b, p), FromRing(c, p), NoRepeats(b)
    PROVE  /\ FromRing(Append(b, e), Append(p, e))
           /\ FromRing(c, Append(p, e))
           /\ NoRepeats(Append(b, e))
           /\ Apart(b, c) => Apart(Append(b, e), c)
           /\ Holds(Append(b, e), e)
           /\ \A x : Holds(b, x) => Holds(Append(b, e), x)
  <1>1. /\ Len(Append(b, e)) = Len(b) + 1
        /\ Append(b, e)[Len(b) + 1] = e
        /\ \A k \in 1..Len(b) : Append(b, e)[k] = b[k]
        /\ Len(Append(p, e)) = Len(p) + 1
        /\ Append(p, e)[Len(p) + 1] = e
        /\ \A k \in 1..Len(p) : Append(p, e)[k] = p[k]
    OBVIOUS
  <1>2. Len(b) \in Nat /\ Len(p) \in Nat /\ Len(c) \in Nat
    OBVIOUS
  <1> DEFINE b1 == Append(b, e)
             p1 == Append(p, e)
  <1>3. /\ 1..Len(b1) = 1..Len(b) \cup {Len(b) + 1}
        /\ b1[Len(b) + 1] = e
        /\ \A k \in 1..Len(b) : b1[k] = b[k]
        /\ 1..Len(p1) = 1..Len(p) \cup {Len(p) + 1}
        /\ p1[Len(p) + 1] = e
        /\ \A k \in 1..Len(p) : p1[k] = p[k]
    BY <1>1, <1>2
  <1> HIDE DEF b1, p1
  <1>4. /\ \A k \in 1..Len(b) : b[k] # e
        /\ \A k \in 1..Len(c) : c[k] # e
    <2>1. ASSUME NEW k \in 1..Len(b) PROVE b[k] # e
      <3>1. PICK i \in 1..Len(p) : b[k] = p[i] BY DEF FromRing
      <3>2. QED BY <3>1
    <2>2. ASSUME NEW k \in 1..Len(c) PROVE c[k] # e
      <3>1. PICK i \in 1..Len(p) : c[k] = p[i] BY DEF FromRing
      <3>2. QED BY <3>1
    <2>3. QED BY <2>1, <2>2
  <1>5. FromRing(b1, p1)
    <2> SUFFICES ASSUME NEW k \in 1..Len(b1) PROVE \E i \in 1..Len(p1) : b1[k] = p1[i]
      BY DEF FromRing
    <2>1. CASE k \in 1..Len(b)
      <3>1. PICK i \in 1..Len(p) : b[k] = p[i] BY <2>1 DEF FromRing
      <3>2. i \in 1..Len(p1) /\ b1[k] = p1[i] BY <1>3, <2>1, <3>1
      <3>3. QED BY <3>2
    <2>2. CASE k = Len(b) + 1
      <3>1. Len(p) + 1 \in 1..Len(p1) BY <1>3
      <3>2. QED BY <1>3, <2>2, <3>1
    <2>3. QED BY <1>3, <2>1, <2>2
  <1>6. FromRing(c, p1)
    <2> SUFFICES ASSUME NEW k \in 1..Len(c) PROVE \E i \in 1..Len(p1) : c[k] = p1[i]
      BY DEF FromRing
    <2>1. PICK i \in 1..Len(p) : c[k] = p[i] BY DEF FromRing
    <2>2. i \in 1..Len(p1) /\ c[k] = p1[i] BY <1>3, <2>1
    <2>3. QED BY <2>2
  <1>7. NoRepeats(b1)
    <2> SUFFICES ASSUME NEW k \in 1..Len(b1), NEW m \in 1..Len(b1), b1[k] = b1[m]
                 PROVE  k = m
      BY DEF NoRepeats
    <2>1. CASE k \in 1..Len(b) /\ m \in 1..Len(b) BY <1>3, <2>1 DEF NoRepeats
    <2>2. CASE k = Len(b) + 1 /\ m \in 1..Len(b) BY <1>3, <1>4, <2>2
    <2>3. CASE k \in 1..Len(b) /\ m = Len(b) + 1 BY <1>3, <1>4, <2>3
    <2>4. QED BY <1>3, <2>1, <2>2, <2>3
  <1>8. Apart(b, c) => Apart(b1, c)
    <2> SUFFICES ASSUME Apart(b, c), NEW k \in 1..Len(b1), NEW m \in 1..Len(c) PROVE b1[k] # c[m]
      BY DEF Apart
    <2>1. CASE k \in 1..Len(b) BY <1>3, <2>1 DEF Apart
    <2>2. CASE k = Len(b) + 1 BY <1>3, <1>4, <2>2
    <2>3. QED BY <1>3, <2>1, <2>2
  <1>9. Holds(b1, e) BY <1>3 DEF Holds
  <1>10. \A x : Holds(b, x) => Holds(b1, x)
    <2>1. \A k \in 1..Len(b) : k \in 1..Len(b1) /\ b1[k] = b[k] BY <1>3
    <2>2. QED BY <2>1 DEF Holds
  <1>11. QED BY <1>5, <1>6, <1>7, <1>8, <1>9, <1>10 DEF b1, p1

LEMMA DrainedStep ==
    ASSUME TypeOK, Numbering, Drained, [Next]_vars
    PROVE  Drained'
  <1>1. ASSUME NEW f \in Flushers, startFlush(f) PROVE Drained'
    <2>1. /\ Draining' = Draining \cup {f}
          /\ f \notin Draining
          /\ flusher'[f].batch = <<>>
          /\ \A g \in Draining : flusher'[g].batch = flusher[g].batch
      BY <1>1 DEF TypeOK, startFlush, Draining
    <2>2. UNCHANGED <<popped, batches>> BY <1>1 DEF startFlush
    <2>3. QED BY <2>1, <2>2, EmptyBatch DEF Drained
  <1>2. ASSUME NEW f \in Flushers, pop(f) PROVE Drained'
    <2> DEFINE e == Head(ring)
               old == flusher[f].batch
    <2>1. /\ Draining' = Draining
          /\ f \in Draining
          /\ flusher'[f].batch = Append(old, e)
          /\ \A g \in Draining \ {f} : flusher'[g].batch = flusher[g].batch
          /\ popped' = Append(popped, e)
          /\ batches' = batches
      BY <1>2 DEF TypeOK, pop, Draining
    <2>2. /\ old \in Seq(LedgerEntry)
          /\ popped \in Seq(LedgerEntry)
          /\ \A g \in Draining : flusher[g].batch \in Seq(LedgerEntry)
          /\ \A b \in batches : b \in Seq(LedgerEntry)
      BY DEF TypeOK, Draining
    <2>3. \A i \in 1..Len(popped) : popped[i] # e
      BY <1>2, HeadIsNew DEF pop
    <2>4. e \in LedgerEntry
      BY <1>2 DEF TypeOK, pop
    <2> HIDE DEF e, old
    <2>5. FromRing(old, popped) /\ NoRepeats(old)
      BY <2>1 DEF Drained, old
    <2>6. ASSUME NEW c \in Seq(LedgerEntry), FromRing(c, popped)
          PROVE  /\ FromRing(c, popped')
                 /\ Apart(old, c) => Apart(Append(old, e), c) /\ Apart(c, Append(old, e))
      BY <2>1, <2>2, <2>3, <2>4, <2>5, <2>6, GrowingBatch, EmptyBatch
    <2>7. /\ FromRing(Append(old, e), popped')
          /\ NoRepeats(Append(old, e))
          /\ Holds(Append(old, e), e)
          /\ \A x : Holds(old, x) => Holds(Append(old, e), x)
      BY <2>1, <2>2, <2>3, <2>4, <2>5, GrowingBatch
    <2>8. \A g \in Draining : FromRing(flusher'[g].batch, popped') /\ NoRepeats(flusher'[g].batch)
      BY <2>1, <2>2, <2>6, <2>7 DEF Drained
    <2>9. \A b \in batches : FromRing(b, popped') /\ NoRepeats(b)
      BY <2>2, <2>6 DEF Drained
    <2>10. \A g, h \in Draining : g # h => Apart(flusher'[g].batch, flusher'[h].batch)
      BY <2>1, <2>2, <2>6 DEF Drained, old
    <2>11. \A g \in Draining : \A b \in batches : Apart(flusher'[g].batch, b)
      BY <2>1, <2>2, <2>6 DEF Drained, old
    <2>12. ASSUME NEW i \in 1..Len(popped')
           PROVE  \/ \E g \in Draining : Holds(flusher'[g].batch, popped'[i])
                  \/ \E b \in batches : Holds(b, popped'[i])
      <3>1. CASE i \in 1..Len(popped)
        <4>1. popped'[i] = popped[i] BY <2>1, <2>2, <2>4, <3>1
        <4>2. QED BY <2>1, <2>7, <3>1, <4>1 DEF Drained, old
      <3>2. CASE i = Len(popped) + 1
        <4>1. popped'[i] = e BY <2>1, <2>2, <2>4, <3>2
        <4>2. QED BY <2>1, <2>7, <4>1
      <3>3. QED BY <2>1, <2>2, <2>4, <3>1, <3>2
    <2>13. QED BY <2>1, <2>8, <2>9, <2>10, <2>11, <2>12 DEF Drained
  <1>3. ASSUME NEW f \in Flushers, endFlush(f) PROVE Drained'
    <2>1. /\ Draining' = Draining \ {f}
          /\ f \in Draining
          /\ \A g \in Draining \ {f} : flusher'[g].batch = flusher[g].batch
          /\ batches' = batches \cup {flusher[f].batch}
          /\ popped' = popped
      BY <1>3 DEF TypeOK, endFlush, Draining
    <2>2. QED BY <2>1, EmptyBatch DEF Drained
  <1>4. CASE UNCHANGED <<flusher, popped, batches>>
    BY <1>4 DEF Drained, Draining
  <1>5. QED
    BY <1>1, <1>2, <1>3, <1>4
       DEF Next, vars, readTip, rejectEntry, push, bufferFull, storeTip

-----------------------------------------------------------------------------
(* The invariants, for any number of threads *)

(***************************************************************************)
(* LedgerInv is an invariant of the ledger, whatever the threads that      *)
(* write and flush do between the lock acquisitions of write and the pops  *)
(* of drain.                                                               *)
(***************************************************************************)
THEOREM LedgerInvariant == Spec => []LedgerInv
  <1>1. Init => LedgerInv
    <2> SUFFICES ASSUME Init PROVE LedgerInv
      OBVIOUS
    <2>1. Pushed = <<>> BY DEF Init, Pushed
    <2>2. TypeOK BY LedgerAssumption DEF Init, TypeOK, Hashes
    <2>3. Numbering BY <2>1 DEF Init, Numbering, Busy
    <2>4. Linked BY <2>1 DEF Init, Linked, Busy, Exists, NoDanglingPrevious
    <2>5. Drained BY DEF Init, Drained, Draining
    <2>6. QED BY <2>2, <2>3, <2>4, <2>5 DEF LedgerInv
  <1>2. LedgerInv /\ [Next]_vars => LedgerInv'
    BY TypeStep, NumberingStep, LinkedStep, DrainedStep DEF LedgerInv
  <1>3. QED BY <1>1, <1>2, PTL DEF Spec

(***************************************************************************)
(* No entry is chained to a block that does not exist, for any number of   *)
(* threads, although write may fail between its two uses of the lock and   *)
(* the tip it read may be stale when it pushes.                            *)
(***************************************************************************)
THEOREM NeverDangling == Spec => []NoDanglingPrevious
  <1>1. LedgerInv => NoDanglingPrevious BY DEF LedgerInv, Linked
  <1>2. QED BY <1>1, LedgerInvariant, PTL

\* The batches hold every popped entry once.
LEMMA DrainedOnce ==
    ASSUME TypeOK, Numbering, Drained
    PROVE  WrittenOnce
  <1> DEFINE taken == batches \cup {flusher[f].batch : f \in {g \in Flushers : flusher[g].pc = "draining"}}
  <1>1. taken = batches \cup {flusher[f].batch : f \in Draining}
    BY DEF Draining
  <1>2. \A b \in taken : NoRepeats(b)
    BY <1>1 DEF Drained
  <1>3. \A b, c \in taken : b # c => Apart(b, c)
    BY <1>1, EmptyBatch DEF Drained
  <1>4. \A i \in 1..Len(popped) : \E b \in taken : Holds(b, popped[i])
    BY <1>1 DEF Drained
  <1> HIDE DEF taken
  <1>5. ASSUME NEW i \in 1..Len(popped)
        PROVE  \E b \in taken : \E k \in 1..Len(b) :
                  /\ b[k] = popped[i]
                  /\ \A c \in taken : \A m \in 1..Len(c) : c[m] = popped[i] => c = b /\ m = k
    <2>1. PICK b \in taken : Holds(b, popped[i]) BY <1>4
    <2>2. PICK k \in 1..Len(b) : b[k] = popped[i] BY <2>1 DEF Holds
    <2>3. ASSUME NEW c \in taken, NEW m \in 1..Len(c), c[m] = popped[i]
          PROVE  c = b /\ m = k
      BY <1>2, <1>3, <2>2, <2>3 DEF NoRepeats, Apart
    <2>4. QED BY <2>2, <2>3
  <1>6. QED BY <1>5 DEF WrittenOnce, Numbering, taken

(***************************************************************************)
(* The ring stays within its capacity, and every entry it took is in the   *)
(* ring or in exactly one batch, once, for any number of flushing threads. *)
(***************************************************************************)
THEOREM RingLosesNothing == Spec => []RingKeepsEntries
  <1>1. LedgerInv => RingKeepsEntries
    BY DrainedOnce DEF LedgerInv, RingKeepsEntries
  <1>2. QED BY <1>1, LedgerInvariant, PTL

-----------------------------------------------------------------------------
(***************************************************************************)
(* A single writing thread.  Until it stores the tip the entry it has just *)
(* pushed is the last one, and at any other time the tip is.               *)
(***************************************************************************)
SingleWriter == \A v, w \in Writers : v = w

TipInv ==
    /\ (\A w \in Writers : writer[w].pc # "pushed") => last_hash = Chain!Tip(Pushed)
    /\ \A w \in Writers : writer[w].pc = "read" => writer[w].previous_hash = last_hash
    /\ \A w \in Writers : writer[w].pc = "pushed" => writer[w].id = Chain!Tip(Pushed)

ChainInv == TipInv /\ ChainContinuous

LEMMA ChainStep ==
    ASSUME SingleWriter, TypeOK, Numbering, ChainInv, [Next]_vars
    PROVE  /\ ChainInv'
           /\ [Chain!Next]_Pushed
  <1> USE DEF ChainInv, SingleWriter
  <1>0. Pushed \in Seq(LedgerEntry) BY PushedType
  <1>1. ASSUME NEW w \in Writers, push(w) PROVE ChainInv' /\ Chain!Next
    <2> DEFINE e == NewEntry(w)
    <2>1. e \in LedgerEntry /\ Pushed' = Append(Pushed, e) BY <1>1, PushedAfterPush
    <2>2. e = [id |-> writer[w].id, previous_hash |-> Chain!Tip(Pushed)]
      BY <1>1 DEF push, TipInv, NewEntry
    <2> HIDE DEF e
    <2>3. /\ Len(Pushed') = Len(Pushed) + 1
          /\ Pushed'[Len(Pushed) + 1] = e
          /\ \A i \in 1..Len(Pushed) : Pushed'[i] = Pushed[i]
          /\ Len(Pushed) \in Nat
          /\ Pushed' # <<>>
          /\ Pushed = <<>> <=> Len(Pushed) = 0
      BY <1>0, <2>1
    <2>4. Chain!Tip(Pushed') = writer[w].id
      BY <2>2, <2>3 DEF Chain!Tip
    <2>5. TipInv'
      BY <1>1, <2>4 DEF TypeOK, TipInv, push
    <2>6. verify_chain(Pushed')
      BY <2>2, <2>3 DEF ChainContinuous, verify_chain, Chain!Tip
    <2>7. Pushed'[1].previous_hash = GENESIS
      BY <2>2, <2>3 DEF ChainContinuous, Chain!Tip
    <2>8. writer[w].id \in Ids
      BY <2>1, <2>2 DEF LedgerEntry
    <2>9. Chain!Extend(writer[w].id)
      BY <1>1, <2>1, <2>2 DEF Chain!Extend, Numbering, push
    <2>10. QED BY <2>5, <2>6, <2>7, <2>8, <2>9 DEF ChainContinuous, Chain!Next
  <1>2. ASSUME Pushed' = Pushed PROVE ChainContinuous' /\ [Chain!Next]_Pushed
    BY <1>2 DEF ChainContinuous, verify_chain
  <1>3. ASSUME NEW w \in Writers, readTip(w) PROVE ChainInv' /\ [Chain!Next]_Pushed
    <2>1. Pushed' = Pushed BY <1>3, PushedAfterOthers DEF readTip
    <2>2. QED BY <1>2, <1>3, <2>1 DEF TypeOK, TipInv, readTip
  <1>4. ASSUME NEW w \in Writers, rejectEntry(w) PROVE ChainInv' /\ [Chain!Next]_Pushed
    <2>1. Pushed' = Pushed BY <1>4, PushedAfterOthers DEF rejectEntry
    <2>2. QED BY <1>2, <1>4, <2>1 DEF TypeOK, TipInv, rejectEntry
  <1>5. ASSUME NEW w \in Writers, bufferFull(w) PROVE ChainInv' /\ [Chain!Next]_Pushed
    <2>1. Pushed' = Pushed BY <1>5, PushedAfterOthers DEF bufferFull
    <2>2. QED BY <1>2, <1>5, <2>1 DEF TypeOK, TipInv, bufferFull
  <1>6. ASSUME NEW w \in Writers, storeTip(w) PROVE ChainInv' /\ [Chain!Next]_Pushed
    <2>1. Pushed' = Pushed BY <1>6, PushedAfterOthers DEF storeTip
    <2>2. QED BY <1>2, <1>6, <2>1 DEF TypeOK, TipInv, storeTip
  <1>7. ASSUME NEW f \in Flushers, pop(f) PROVE ChainInv' /\ [Chain!Next]_Pushed
    <2>1. Pushed' = Pushed BY <1>7, PushedAfterPop
    <2>2. QED BY <1>2, <1>7, <2>1 DEF TipInv, pop
  <1>8. CASE UNCHANGED <<ring, popped, last_hash, writer>>
    <2>1. Pushed' = Pushed BY <1>8, PushedAfterOthers
    <2>2. QED BY <1>2, <1>8, <2>1 DEF TipInv
  <1>9. QED
    BY <1>1, <1>3, <1>4, <1>5, <1>6, <1>7, <1>8 DEF Next, vars, startFlush, endFlush

LEMMA ChainInvariant ==
    ASSUME SingleWriter
    PROVE  Spec => [](LedgerInv /\ ChainInv)
  <1>1. Init => ChainInv
    BY DEF Init, ChainInv, TipInv, ChainContinuous, verify_chain, Pushed, Chain!Tip
  <1>2. LedgerInv /\ ChainInv /\ [Next]_vars => ChainInv'
    BY ChainStep DEF LedgerInv
  <1>3. QED BY <1>1, <1>2, LedgerInvariant, PTL DEF Spec

(***************************************************************************)
(* With one writing thread, and any number that flush, the ledger          *)
(* implements HashChain: a push extends the chain by one block, every      *)
(* other step of write and flush leaves it as it is.                       *)
(***************************************************************************)
THEOREM SingleWriterRefines == SingleWriter => (Spec => ImplementsHashChain)
  <1> SUFFICES ASSUME SingleWriter PROVE Spec => ImplementsHashChain
    OBVIOUS
  <1>1. Init => Chain!Init
    BY DEF Init, Pushed, Chain!Init
  <1>2. LedgerInv /\ ChainInv /\ [Next]_vars => [Chain!Next]_Pushed
    BY ChainStep DEF LedgerInv
  <1>3. QED
    BY <1>1, <1>2, ChainInvariant, PTL DEF Spec, ImplementsHashChain, Chain!Spec

-----------------------------------------------------------------------------
(***************************************************************************)
(* A single flushing thread besides: what it holds is the end of what was  *)
(* popped, so an unbroken piece of the chain.                              *)
(***************************************************************************)
SingleFlusher == \A f, g \in Flushers : f = g

IsSuffix(b, p) == Len(b) <= Len(p) /\ \A k \in 1..Len(b) : b[k] = p[Len(p) - Len(b) + k]

SuffixInv ==
    /\ \A f \in Draining : IsSuffix(flusher[f].batch, popped)
    /\ BatchesVerify

\* A suffix of what was popped is a piece of Pushed.
LEMMA SuffixVerifies ==
    ASSUME TypeOK, ChainContinuous, NEW b \in Seq(LedgerEntry), IsSuffix(b, popped)
    PROVE  verify_chain(b)
  <1> SUFFICES ASSUME NEW i \in 1..(Len(b) - 1)
               PROVE  b[i + 1].previous_hash = b[i].id
    BY DEF verify_chain
  <1> DEFINE n == Len(popped) - Len(b) + i
  <1>1. /\ popped \in Seq(LedgerEntry) /\ ring \in Seq(LedgerEntry)
        /\ Len(b) \in Nat /\ Len(popped) \in Nat
    BY DEF TypeOK
  <1>2. /\ n \in 1..(Len(popped) - 1)
        /\ b[i] = popped[n]
        /\ b[i + 1] = popped[n + 1]
    BY <1>1 DEF IsSuffix
  <1> HIDE DEF n
  <1>3. /\ n \in 1..(Len(Pushed) - 1)
        /\ Pushed[n] = popped[n]
        /\ Pushed[n + 1] = popped[n + 1]
    BY <1>1, <1>2 DEF Pushed
  <1>4. QED BY <1>2, <1>3 DEF ChainContinuous, verify_chain

LEMMA SuffixGrows ==
    ASSUME NEW b \in Seq(LedgerEntry), NEW p \in Seq(LedgerEntry), NEW e \in LedgerEntry,
           IsSuffix(b, p)
    PROVE  IsSuffix(Append(b, e), Append(p, e))
  <1> DEFINE b1 == Append(b, e)
             p1 == Append(p, e)
  <1>1. /\ Len(b) \in Nat /\ Len(b1) = Len(b) + 1
        /\ b1[Len(b) + 1] = e
        /\ \A k \in 1..Len(b) : b1[k] = b[k]
        /\ Len(p) \in Nat /\ Len(p1) = Len(p) + 1
        /\ p1[Len(p) + 1] = e
        /\ \A k \in 1..Len(p) : p1[k] = p[k]
    OBVIOUS
  <1> HIDE DEF b1, p1
  <1>2. ASSUME NEW k \in 1..Len(b1) PROVE b1[k] = p1[Len(p1) - Len(b1) + k]
    <2>1. CASE k = Len(b) + 1 BY <1>1, <2>1
    <2>2. CASE k \in 1..Len(b)
      <3> DEFINE j == Len(p) - Len(b) + k
      <3>1. j \in 1..Len(p) /\ j = Len(p1) - Len(b1) + k /\ b[k] = p[j]
        BY <1>1, <2>2 DEF IsSuffix
      <3>2. QED BY <1>1, <2>2, <3>1
    <2>3. QED BY <1>1, <2>1, <2>2
  <1>3. Len(b1) <= Len(p1) BY <1>1 DEF IsSuffix
  <1>4. QED BY <1>2, <1>3 DEF IsSuffix, b1, p1

LEMMA SuffixStep ==
    ASSUME SingleFlusher, TypeOK, ChainContinuous, SuffixInv, [Next]_vars
    PROVE  SuffixInv'
  <1>1. ASSUME NEW f \in Flushers, startFlush(f) PROVE SuffixInv'
    <2>1. IsSuffix(<<>>, popped) BY DEF TypeOK, IsSuffix
    <2>2. flusher'[f].batch = <<>> BY <1>1 DEF TypeOK, startFlush
    <2>3. QED BY <1>1, <2>1, <2>2 DEF SingleFlusher, startFlush, SuffixInv, Draining, BatchesVerify
  <1>2. ASSUME NEW f \in Flushers, pop(f) PROVE SuffixInv'
    <2> DEFINE b == flusher[f].batch
               e == Head(ring)
    <2>1. /\ b \in Seq(LedgerEntry) /\ popped \in Seq(LedgerEntry) /\ e \in LedgerEntry
          /\ IsSuffix(b, popped)
          /\ popped' = Append(popped, e)
          /\ flusher'[f].batch = Append(b, e)
      BY <1>2 DEF TypeOK, pop, SuffixInv, Draining
    <2> HIDE DEF b, e
    <2>2. IsSuffix(Append(b, e), Append(popped, e))
      BY <2>1, SuffixGrows
    <2>3. QED BY <1>2, <2>1, <2>2 DEF SingleFlusher, SuffixInv, Draining, BatchesVerify, pop
  <1>3. ASSUME NEW f \in Flushers, endFlush(f) PROVE SuffixInv'
    <2>1. flusher[f].batch \in Seq(LedgerEntry) /\ IsSuffix(flusher[f].batch, popped)
      BY <1>3 DEF TypeOK, endFlush, SuffixInv, Draining
    <2>2. verify_chain(flusher[f].batch) BY <2>1, SuffixVerifies
    <2>3. Draining' = {}
      BY <1>3 DEF SingleFlusher, TypeOK, endFlush, Draining
    <2>4. QED BY <1>3, <2>2, <2>3 DEF SuffixInv, BatchesVerify, endFlush
  <1>4. CASE UNCHANGED <<flusher, popped, batches>>
    BY <1>4 DEF SuffixInv, Draining, BatchesVerify
  <1>5. QED
    BY <1>1, <1>2, <1>3, <1>4
       DEF Next, vars, readTip, rejectEntry, push, bufferFull, storeTip

(***************************************************************************)
(* With one thread that writes and one that flushes, every batch that      *)
(* flush returns passes verify_chain, wherever the drain began and         *)
(* whatever was pushed during it.                                          *)
(***************************************************************************)
THEOREM SingleThreadsVerify ==
    SingleWriter /\ SingleFlusher => (Spec => []BatchesVerify)
  <1> SUFFICES ASSUME SingleWriter, SingleFlusher PROVE Spec => []BatchesVerify
    OBVIOUS
  <1>1. Init => SuffixInv
    BY DEF Init, SuffixInv, Draining, BatchesVerify
  <1>2. LedgerInv /\ ChainInv /\ SuffixInv /\ [Next]_vars => SuffixInv'
    BY SuffixStep DEF LedgerInv, ChainInv
  <1>3. SuffixInv => BatchesVerify BY DEF SuffixInv
  <1>4. QED BY <1>1, <1>2, <1>3, ChainInvariant, PTL DEF Spec

=============================================================================
