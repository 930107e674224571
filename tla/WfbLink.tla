------------------------------- MODULE WfbLink --------------------------------
(***************************************************************************)
(* A wfb transmitter and a receiver, over a link that loses, repeats,      *)
(* delays and reorders what was sent.                                      *)
(***************************************************************************)
EXTENDS WfbTransmitter, WfbAggregator

\* History, of the session the receiver is in: the packets it has stored, and
\* the packets of the blocks of which it has stored FecK fragments.
VARIABLES stored, complete

linkVars == <<txVars, agg, stored, complete>>

LinkInit == TxInit /\ RxInit /\ stored = {} /\ complete = {}

\* The packets of the block that m belongs to, if its code word was sent.
PacketsOf(m) ==
  UNION {{q.body[j] : j \in 1 .. Len(q.body)} \ {Fill} :
           q \in {x \in air : x.type = "data" /\ x.key = m.key /\ x.block = m.block}}

\* The slot m goes to, and whether m is the last of k fragments in it.
Target(m) == LET r == RingWith(agg, m.block) IN r.ring[SlotOf(r, m.block)]

Completes(m) ==
  LET s == Target(m)
  IN /\ s.frag[m.frag] = None
     /\ Cardinality({f \in DOMAIN s.frag : s.frag[f] # None}) = FecK - 1

ReceiveData(m) ==
  /\ m.type = "data"
  /\ TakeData(m)
  /\ stored' = IF m.frag < FecK THEN stored \cup ({m.body[1]} \ {Fill}) ELSE stored
  /\ complete' = IF Completes(m) THEN complete \cup PacketsOf(m) ELSE complete
  /\ UNCHANGED txVars

ReceiveSession(m) ==
  /\ m.type = "session"
  /\ TakeSession(m)
  /\ stored' = {} /\ complete' = {}
  /\ UNCHANGED txVars

Receive == \E m \in air : ReceiveData(m) \/ ReceiveSession(m)

LinkNext == (Transmit /\ UNCHANGED <<agg, stored, complete>>) \/ Receive

LinkSpec == LinkInit /\ [][LinkNext]_linkVars

\* Fairness: dataSource keeps polling, and a poll ends at fecCloseTs.
LinkFairSpec == LinkSpec /\ WF_linkVars(FecTimeout /\ UNCHANGED <<agg, stored, complete>>)

-----------------------------------------------------------------------------
(***************************************************************************)
(* The link implements an ordered lossy channel: what the Aggregator       *)
(* passes on is what the application sent, in order and at most once,      *)
(* through loss, repetition, reordering, ring overflow and FEC recovery.   *)
(***************************************************************************)
Channel == INSTANCE LossyFifo WITH stream <- agg.out

ImplementsFifo == Channel!Fifo

\* Packets in the ring that have not been passed on.
Pending ==
  UNION {LET s == agg.ring[ModN(agg.front + c)]
         IN {s.frag[f][1] : f \in {g \in s.toSend .. FecK - 1 : s.frag[g] # None}} :
           c \in 0 .. agg.alloc - 1}

(***************************************************************************)
(* Nothing the receiver has stored is lost: it is passed on or still in    *)
(* the ring, although blocks are overridden and flushed; and a block of    *)
(* which k fragments were stored has been passed on completely.            *)
(***************************************************************************)
NothingDropped ==
  LET out == {agg.out[i] : i \in 1 .. Len(agg.out)}
  IN stored \subseteq out \cup Pending /\ complete \subseteq out

(***************************************************************************)
(* No assert of the receiver fails, and the ring holds consecutive blocks, *)
(* the last of them last_known_block, none of which has k fragments.       *)
(***************************************************************************)
RingConsistent ==
  /\ ~agg.failed
  /\ agg.alloc \in 0 .. RingSize /\ agg.front \in Slot
  /\ \A c \in 0 .. agg.alloc - 1 :
       LET s == agg.ring[ModN(agg.front + c)]
       IN /\ s.block = agg.known - (agg.alloc - 1 - c)
          /\ s.has = Cardinality({f \in DOMAIN s.frag : s.frag[f] # None})
          /\ s.has < FecK

(***************************************************************************)
(* A block that was begun is completed although no packet follows.         *)
(***************************************************************************)
BlockCloses == (fragmentIndex # 0) ~> (fragmentIndex = 0)

=============================================================================
