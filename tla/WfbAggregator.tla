---------------------------- MODULE WfbAggregator -----------------------------
(***************************************************************************)
(* The wfb Aggregator: it opens the fragments that arrive, collects them   *)
(* by block in a ring of RingSize blocks, recovers missing ones with the   *)
(* FEC code and passes the packets on in order.                            *)
(*                                                                         *)
(* An operator takes the object and returns what it becomes; agg is the    *)
(* object.  fragments[f] and fragment_map[f] of a block are one field,     *)
(* frag[f]: None, or the body that was stored.  Packet sizes, RSSI and the *)
(* counters, the count of lost packets among them, are left out.           *)
(***************************************************************************)
EXTENDS WfbFec, FiniteSets

CONSTANT RingSize         \* RX_RING_SIZE

ASSUME RingAssumption == RingSize \in Nat \ {0}

VARIABLE agg

None == <<>>
Garbage == <<-1>>        \* what the FEC code makes of fragments that do not fit
NoBlock == -1            \* last_known_block before the first

Slot == 0 .. RingSize - 1
ModN(i) == i % RingSize

EmptySlot(b) ==
  [block |-> b, toSend |-> 0, has |-> 0, frag |-> [f \in 0 .. FecN - 1 |-> None]]

\* deinit_fec and init_fec; out starts afresh when the session is an older one.
InitFec(a, key, epoch) ==
  [a EXCEPT !.key = key, !.epoch = epoch, !.front = 0, !.alloc = 0,
            !.known = NoBlock, !.ring = [i \in Slot |-> EmptySlot(0)],
            !.out = IF key < a.key THEN <<>> ELSE @]

\* History: out, the packets passed on; failed, an assert of the code did not
\* hold.
RxInit ==
  agg = InitFec([key |-> 0, epoch |-> 0, front |-> 0, alloc |-> 0,
                 known |-> NoBlock, ring |-> <<>>, out |-> <<>>,
                 failed |-> FALSE], 0, 0)

Asserted(a, holds) == [a EXCEPT !.failed = @ \/ ~holds]

-----------------------------------------------------------------------------
\* A packet is passed on, unless it is an empty one.
RxSendPacket(out, body) == IF body[1] = Fill THEN out ELSE Append(out, body[1])

\* The same for the data fragments of a block from toSend to end - 1 that are
\* there.
SendThere(out, s, end) ==
  LET upTo[f \in 0 .. FecK] ==
        IF f <= s.toSend THEN out
        ELSE IF s.frag[f - 1] = None THEN upTo[f - 1]
        ELSE RxSendPacket(upTo[f - 1], s.frag[f - 1])
  IN upTo[end]

\* What is there of the oldest block, and on to the next block.
FlushFront(a) ==
  [a EXCEPT !.out = SendThere(@, a.ring[a.front], FecK), !.front = ModN(@ + 1)]

\* A slot at the end of the ring, if need be the one of the oldest block.
RxRingPush(a) ==
  IF a.alloc < RingSize THEN [a EXCEPT !.alloc = @ + 1] ELSE FlushFront(a)

Newest(a) == ModN(a.front + a.alloc - 1)

\* Variant: the slot keeps the fragments of the block it held.
PushBlockStale(a, b) ==
  LET p == RxRingPush(a)
  IN [p EXCEPT !.ring[Newest(p)] = [@ EXCEPT !.block = b, !.toSend = 0, !.has = 0]]

PushBlock(a, b) ==
  LET p == RxRingPush(a) IN [p EXCEPT !.ring[Newest(p)] = EmptySlot(b)]

\* The ring positions that hold block b.
Holding(a, b) == {c \in 0 .. a.alloc - 1 : a.ring[ModN(a.front + c)].block = b}

Processed(a, b) == Holding(a, b) = {} /\ a.known # NoBlock /\ b <= a.known

\* get_block_ring_idx: the ring with block b in it, a slot for every block
\* skipped, as many as the ring has.
RingWith(a, b) ==
  IF Holding(a, b) # {} THEN a
  ELSE LET gap == IF a.known = NoBlock THEN 1 ELSE b - a.known
           new == IF gap < RingSize THEN gap ELSE RingSize
           push[j \in 0 .. new] ==
             IF j = 0 THEN [Asserted(a, gap > 0) EXCEPT !.known = b]
             ELSE PushBlock(push[j - 1], b - new + j)
       IN push[new]

SlotOf(a, b) ==
  ModN(a.front + CHOOSE c \in Holding(a, b) : \A d \in Holding(a, b) : c <= d)

-----------------------------------------------------------------------------
\* The k fragments apply_fec works on: the data fragments that are there, and
\* for the others the first parity fragments, in order.
Parities(s) == {f \in FecK .. FecN - 1 : s.frag[f] # None}
Missing(s) == {f \in 0 .. FecK - 1 : s.frag[f] = None}

\* A parity fragment holds the code word; any k fragments of one word give it.
Recover(s) ==
  LET word == s.frag[CHOOSE f \in Parities(s) : TRUE]
      fits == /\ \A f \in Parities(s) : s.frag[f] = word
              /\ \A f \in (0 .. FecK - 1) \ Missing(s) : s.frag[f] = <<word[f + 1]>>
  IN [s EXCEPT !.frag = [f \in DOMAIN @ |->
        IF f \notin Missing(s) THEN @[f]
        ELSE IF fits THEN <<word[f + 1]>> ELSE Garbage]]

ApplyFec(a, i) ==
  LET s == a.ring[i]
  IN IF Missing(s) = {} THEN a
     ELSE IF Cardinality(Parities(s)) < Cardinality(Missing(s)) THEN Asserted(a, FALSE)
     ELSE [a EXCEPT !.ring[i] = Recover(s)]

RemoveFront(a) == [a EXCEPT !.front = ModN(@ + 1), !.alloc = @ - 1]

\* The first data fragment from toSend on that is not there; FecK if all are.
Gap(s) ==
  CHOOSE g \in s.toSend .. FecK :
    /\ g = FecK \/ s.frag[g] = None
    /\ \A f \in s.toSend .. g - 1 : s.frag[f] # None

\* The data fragments of slot i without a gap from toSend on.
SendContiguous(a, i) ==
  LET s == a.ring[i]
  IN [a EXCEPT !.out = SendThere(@, s, Gap(s)), !.ring[i].toSend = Gap(s)]

\* What is there of the n oldest blocks, which are then removed.
FlushBlocks(a, n) ==
  LET flush[j \in 0 .. n] ==
        IF j = 0 THEN a ELSE [FlushFront(flush[j - 1]) EXCEPT !.alloc = @ - 1]
  IN flush[n]

\* Variant: the unfinished blocks before the recovered one stay in the ring.
RecoverOutOfOrder(a, i) ==
  LET b == SendContiguous(ApplyFec(a, i), i)
  IN IF i = a.front THEN RemoveFront(b) ELSE b

\* Variant: the block is passed on as far as it goes.
RecoverBlockNoFec(a, i) ==
  RemoveFront(SendContiguous(FlushBlocks(a, ModN(i - a.front)), i))

\* Block i has k fragments: what is there of the blocks before it goes out,
\* then the whole of it.
RecoverBlock(a, i) ==
  LET before == FlushBlocks(a, ModN(i - a.front))
      here   == Asserted(before, before.alloc > 0 /\ before.front = i)
      rest   == SendContiguous(ApplyFec(here, i), i)
  IN RemoveFront(rest)

Stored(a, i, f, body) ==
  [a EXCEPT !.ring[i].frag[f] = body, !.ring[i].has = @ + 1]

\* Fragment f of block b, opened.
AddFragment(a, b, f, body) ==
  LET r == RingWith(a, b)
      i == SlotOf(r, b)
      stored == Stored(r, i, f, body)
      sent == IF i = r.front THEN SendContiguous(stored, i) ELSE stored
  IN IF r.ring[i].frag[f] # None THEN r
     ELSE IF sent.ring[i].toSend = FecK THEN RemoveFront(sent)
     ELSE IF sent.ring[i].has = FecK THEN RecoverBlock(sent, i)
     ELSE sent

(***************************************************************************)
(* process_packet, a fragment: it opens only under the key it was sealed   *)
(* with, and is ignored when its block has left the ring.                  *)
(***************************************************************************)
TakeData(m) ==
  /\ m.key = agg.key /\ m.frag < FecN /\ ~Processed(agg, m.block)
  /\ agg' = AddFragment(agg, m.block, m.frag, m.body)

\* process_packet, an announcement of another session than the current one.
TakeSession(m) ==
  /\ m.key # agg.key /\ m.epoch >= agg.epoch
  /\ agg' = InitFec(agg, m.key, m.epoch)

=============================================================================
