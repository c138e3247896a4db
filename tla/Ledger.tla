-------------------------------- MODULE Ledger --------------------------------
(***************************************************************************)
(* The ledger engine (crates/ledger/src/lib.rs): LedgerWriter chains new   *)
(* entries to the hash of the last one and puts them in a bounded ring     *)
(* buffer that flush drains.  The writer is a process-wide singleton       *)
(* (crates/bindings), shared by every thread that calls the addon.         *)
(*                                                                         *)
(* write takes the RwLock twice: to read the tip, and to store the new one *)
(* after the push.  Each of these and each operation of the lock-free      *)
(* queue is a step.                                                        *)
(***************************************************************************)
EXTENDS Integers, Sequences

CONSTANTS
    Writers,               \* threads calling write
    Flushers,              \* threads calling flush
    RING_BUFFER_CAPACITY,
    MaxWrites              \* bound: the number of calls of write

ASSUME LedgerAssumption ==
    /\ RING_BUFFER_CAPACITY \in Nat \ {0}
    /\ MaxWrites \in Nat

\* Entries are numbered by the call that made them; the hash of an entry is
\* identified with its number: the ids hashed are unique and SHA-256 injective.
GENESIS == 0
Ids == 1..MaxWrites
Hashes == Ids \cup {GENESIS}
LedgerEntry == [id : Ids, previous_hash : Hashes]

VARIABLES
    last_hash,  \* the tip, under the RwLock
    ring,       \* ArrayQueue<LedgerEntry>
    writer,     \* each thread's write: where it is, the tip it read, its entry id
    flusher,    \* each thread's drain: where it is, the batch so far
    calls,      \* calls of write so far
    popped,     \* history: entries taken from the ring, in order
    batches     \* history: batches that flush has returned

vars == <<last_hash, ring, writer, flusher, calls, popped, batches>>

TypeOK ==
    /\ last_hash \in Hashes
    /\ ring \in Seq(LedgerEntry) /\ Len(ring) <= RING_BUFFER_CAPACITY
    /\ writer \in [Writers -> [pc : {"idle", "read", "pushed"},
                               previous_hash : Hashes, id : Hashes]]
    /\ flusher \in [Flushers -> [pc : {"idle", "draining"}, batch : Seq(LedgerEntry)]]
    /\ calls \in 0..MaxWrites
    /\ popped \in Seq(LedgerEntry)
    /\ batches \subseteq Seq(LedgerEntry)

Init ==
    /\ last_hash = GENESIS
    /\ ring = <<>>
    /\ writer = [w \in Writers |-> [pc |-> "idle", previous_hash |-> GENESIS, id |-> GENESIS]]
    /\ flusher = [f \in Flushers |-> [pc |-> "idle", batch |-> <<>>]]
    /\ calls = 0
    /\ popped = <<>>
    /\ batches = {}

-----------------------------------------------------------------------------
(* LedgerWriter::write *)

\* let previous_hash = self.last_hash.read().clone()
readTip(w) ==
    /\ writer[w].pc = "idle"
    /\ calls < MaxWrites
    /\ calls' = calls + 1
    /\ writer' = [writer EXCEPT ![w] =
                    [pc |-> "read", previous_hash |-> last_hash, id |-> calls + 1]]
    /\ UNCHANGED <<last_hash, ring, flusher, popped, batches>>

\* LedgerEntry::new fails with InvalidAmount.
rejectEntry(w) ==
    /\ writer[w].pc = "read"
    /\ writer' = [writer EXCEPT ![w].pc = "idle"]
    /\ UNCHANGED <<last_hash, ring, flusher, calls, popped, batches>>

NewEntry(w) == [id |-> writer[w].id, previous_hash |-> writer[w].previous_hash]

\* self.buffer.push(entry)? when there is room.
push(w) ==
    /\ writer[w].pc = "read"
    /\ Len(ring) < RING_BUFFER_CAPACITY
    /\ ring' = Append(ring, NewEntry(w))
    /\ writer' = [writer EXCEPT ![w].pc = "pushed"]
    /\ UNCHANGED <<last_hash, flusher, calls, popped, batches>>

\* A plausible bug: the tip is stored although the push failed.
bufferFull_StoresTip(w) ==
    /\ writer[w].pc = "read"
    /\ Len(ring) >= RING_BUFFER_CAPACITY
    /\ last_hash' = writer[w].id
    /\ writer' = [writer EXCEPT ![w].pc = "idle"]
    /\ UNCHANGED <<ring, flusher, calls, popped, batches>>

\* push returns BufferFull, and so does write.
bufferFull(w) ==
    /\ writer[w].pc = "read"
    /\ Len(ring) >= RING_BUFFER_CAPACITY
    /\ writer' = [writer EXCEPT ![w].pc = "idle"]
    /\ UNCHANGED <<last_hash, ring, flusher, calls, popped, batches>>

\* A plausible bug: the tip is not stored.
storeTip_Forgotten(w) ==
    /\ writer[w].pc = "pushed"
    /\ writer' = [writer EXCEPT ![w].pc = "idle"]
    /\ UNCHANGED <<last_hash, ring, flusher, calls, popped, batches>>

\* *self.last_hash.write() = new_hash
storeTip(w) ==
    /\ writer[w].pc = "pushed"
    /\ last_hash' = writer[w].id
    /\ writer' = [writer EXCEPT ![w].pc = "idle"]
    /\ UNCHANGED <<ring, flusher, calls, popped, batches>>

-----------------------------------------------------------------------------
(* LedgerWriter::flush, LedgerBuffer::drain *)

startFlush(f) ==
    /\ flusher[f].pc = "idle"
    /\ flusher' = [flusher EXCEPT ![f] = [pc |-> "draining", batch |-> <<>>]]
    /\ UNCHANGED <<last_hash, ring, writer, calls, popped, batches>>

\* A plausible bug: the batch is built last in, first out.
pop_Reversed(f) ==
    /\ flusher[f].pc = "draining"
    /\ ring # <<>>
    /\ ring' = Tail(ring)
    /\ flusher' = [flusher EXCEPT ![f].batch = <<Head(ring)>> \o @]
    /\ popped' = Append(popped, Head(ring))
    /\ UNCHANGED <<last_hash, writer, calls, batches>>

\* A plausible bug: the entry is read and not removed.
pop_Peeks(f) ==
    /\ flusher[f].pc = "draining"
    /\ ring # <<>>
    /\ Len(popped) < MaxWrites
    /\ flusher' = [flusher EXCEPT ![f].batch = Append(@, Head(ring))]
    /\ popped' = Append(popped, Head(ring))
    /\ UNCHANGED <<last_hash, ring, writer, calls, batches>>

\* while let Some(entry) = self.ring.pop() { batch.push(entry) }
pop(f) ==
    /\ flusher[f].pc = "draining"
    /\ ring # <<>>
    /\ ring' = Tail(ring)
    /\ flusher' = [flusher EXCEPT ![f].batch = Append(@, Head(ring))]
    /\ popped' = Append(popped, Head(ring))
    /\ UNCHANGED <<last_hash, writer, calls, batches>>

\* pop returned None: the batch goes to the caller.
endFlush(f) ==
    /\ flusher[f].pc = "draining"
    /\ ring = <<>>
    /\ flusher' = [flusher EXCEPT ![f].pc = "idle"]
    /\ batches' = batches \cup {flusher[f].batch}
    /\ UNCHANGED <<last_hash, ring, writer, calls, popped>>

Next ==
    \/ \E w \in Writers :
          readTip(w) \/ rejectEntry(w) \/ push(w) \/ bufferFull(w) \/ storeTip(w)
    \/ \E f \in Flushers : startFlush(f) \/ pop(f) \/ endFlush(f)

Spec == Init /\ [][Next]_vars

-----------------------------------------------------------------------------
(* Properties *)

\* Every entry pushed so far, in the order the ring received them.
Pushed == popped \o ring

\* LedgerWriter::verify_chain on entries nobody has tampered with.
verify_chain(entries) ==
    \A i \in 1..(Len(entries) - 1) : entries[i + 1].previous_hash = entries[i].id

(***************************************************************************)
(* No entry is chained to a block that does not exist: previous_hash is    *)
(* GENESIS or the hash of an entry pushed before, although write may fail  *)
(* between reading the tip and storing it (invalid amount, full buffer),   *)
(* and whatever other threads do meanwhile.                                *)
(***************************************************************************)
NoDanglingPrevious ==
    \A i \in 1..Len(Pushed) :
        \/ Pushed[i].previous_hash = GENESIS
        \/ \E j \in 1..(i - 1) : Pushed[j].id = Pushed[i].previous_hash

(***************************************************************************)
(* Nothing is lost or duplicated: an entry whose push succeeded is in the  *)
(* ring or in exactly one batch, once, however many threads flush.         *)
(***************************************************************************)
WrittenOnce ==
    /\ \A i, j \in 1..Len(Pushed) : Pushed[i].id = Pushed[j].id => i = j
    /\ LET taken == batches \cup {flusher[f].batch : f \in {g \in Flushers : flusher[g].pc = "draining"}}
       IN  \A i \in 1..Len(popped) :
              \E b \in taken : \E k \in 1..Len(b) :
                 /\ b[k] = popped[i]
                 /\ \A c \in taken : \A m \in 1..Len(c) : c[m] = popped[i] => c = b /\ m = k

(***************************************************************************)
(* A full ring refuses an entry and otherwise keeps it: the ring stays     *)
(* within its capacity, and what it took comes out once.                   *)
(***************************************************************************)
RingKeepsEntries == TypeOK /\ WrittenOnce

(***************************************************************************)
(* The chain is continuous from GENESIS over everything ever pushed, the   *)
(* property the RwLock is there for ("for chain continuity").              *)
(***************************************************************************)
ChainContinuous ==
    /\ verify_chain(Pushed)
    /\ Pushed # <<>> => Pushed[1].previous_hash = GENESIS

(***************************************************************************)
(* A batch returned by flush passes verify_chain.                          *)
(***************************************************************************)
BatchesVerify == \A b \in batches : verify_chain(b)

(***************************************************************************)
(* With one writing thread the ring and what was drained from it are one   *)
(* append-only hash chain.                                                 *)
(***************************************************************************)
Chain == INSTANCE HashChain WITH chain <- Pushed

ImplementsHashChain == Chain!Spec

=============================================================================
