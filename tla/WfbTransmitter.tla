---------------------------- MODULE WfbTransmitter ----------------------------
(***************************************************************************)
(* The wfb Transmitter and the loop that feeds it (TxFrame::dataSource):   *)
(* packets are sent at once as the data fragments of a block of FecK, and  *)
(* FecN - FecK parity fragments follow the last of them.                   *)
(*                                                                         *)
(* A packet is its number, 1 being the first the application hands in;     *)
(* Fill is the empty packet that closes a block at the FEC timeout.  The   *)
(* erasure code is taken for what it promises: a parity fragment carries   *)
(* the whole code word, the FecK data fragments of its block.  A session   *)
(* key is the number of its session; a fragment is sealed with it.         *)
(*                                                                         *)
(* What was sent stays in air: it may arrive late, in any order, any       *)
(* number of times, or never.  A failing send_packet is such a loss.       *)
(***************************************************************************)
EXTENDS WfbFec

CONSTANTS
  MaxBlockIdx,     \* MAX_BLOCK_IDX, the last block of a session
  MaxPackets,      \* bound: packets the application hands in
  MaxRestarts,     \* bound: restarts of the transmitter
  Epochs           \* the epochs it may be restarted with; the first is 0

ASSUME TransmitterAssumption ==
  /\ MaxBlockIdx \in Nat /\ MaxPackets \in Nat /\ MaxRestarts \in Nat
  /\ Epochs \subseteq Nat

VARIABLES
  blockIndex, fragmentIndex,
  block,           \* the data fragments of the block under way
  epochs,          \* the epoch of each session; the last is the one under way
  restarts,
  sent,            \* packets the application has handed in
  air              \* everything sent so far

txVars == <<blockIndex, fragmentIndex, block, epochs, restarts, sent, air>>

Session == Len(epochs)

\* sessionKeyPacket_
Announcement(s) == [type |-> "session", key |-> s, epoch |-> epochs[s]]

\* The nonce of a fragment is its block and its index.
Fragment(f, body) ==
  [type |-> "data", key |-> Session, block |-> blockIndex, frag |-> f, body |-> body]

TxInit ==
  /\ blockIndex = 0 /\ fragmentIndex = 0 /\ block = <<>>
  /\ epochs = <<0>> /\ restarts = 0
  /\ sent = 0 /\ air = {}

\* Parity fragments have the indices from FecK to FecN - 1.
Parity(word) == {Fragment(f, word) : f \in FecK .. FecN - 1}

\* After the last block of a session a new key is made and announced.
NextBlock ==
  IF blockIndex + 1 > MaxBlockIdx
  THEN blockIndex' = 0 /\ epochs' = Append(epochs, epochs[Session])
  ELSE blockIndex' = blockIndex + 1 /\ UNCHANGED epochs

NewKeys ==
  {[type |-> "session", key |-> s, epoch |-> epochs'[s]] :
     s \in Session + 1 .. Len(epochs')}

(***************************************************************************)
(* sendPacket.                                                             *)
(***************************************************************************)
SendPacket(p, announced) ==
  LET word == Append(block, p)
      frag == Fragment(fragmentIndex, <<p>>)
  IN IF fragmentIndex + 1 < FecK
     THEN /\ block' = word /\ fragmentIndex' = fragmentIndex + 1
          /\ air' = air \cup announced \cup {frag}
          /\ UNCHANGED <<blockIndex, epochs>>
     ELSE /\ block' = <<>> /\ fragmentIndex' = 0
          /\ NextBlock
          /\ air' = air \cup announced \cup {frag} \cup Parity(word) \cup NewKeys

\* dataSource: a packet of the application.  The session is announced before
\* the first, and again every second in which one arrives.
DataArrives ==
  /\ sent < MaxPackets
  /\ sent' = sent + 1
  /\ SendPacket(sent + 1, {Announcement(Session)})
  /\ UNCHANGED restarts

\* Variant: the empty packet is sent and not counted in.
FecTimeoutUncounted ==
  /\ fragmentIndex # 0
  /\ air' = air \cup {Fragment(fragmentIndex, <<Fill>>)}
  /\ UNCHANGED <<blockIndex, fragmentIndex, block, epochs, restarts, sent>>

\* dataSource: poll timed out at fecCloseTs.  An empty block is left alone;
\* one call adds one empty packet.
FecTimeout ==
  /\ fragmentIndex # 0
  /\ SendPacket(Fill, {})
  /\ UNCHANGED <<restarts, sent>>

\* TxFrame::run ends and is started again: a new Transmitter, a new key.  The
\* caller does not lower the epoch.
Restart(e) ==
  /\ restarts < MaxRestarts /\ e >= epochs[Session]
  /\ restarts' = restarts + 1
  /\ blockIndex' = 0 /\ fragmentIndex' = 0 /\ block' = <<>>
  /\ epochs' = Append(epochs, e)
  /\ UNCHANGED <<sent, air>>

Transmit == DataArrives \/ FecTimeout \/ \E e \in Epochs : Restart(e)

=============================================================================
