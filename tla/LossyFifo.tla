------------------------------ MODULE LossyFifo ------------------------------
(***************************************************************************)
(* What the wfb link promises its application: the packets that come out   *)
(* are packets that went in, in the order they went in, none twice; any of *)
(* them may be missing.  The receiver cannot order two transmitter         *)
(* sessions of one epoch, so an old announcement of such a session starts  *)
(* the stream afresh.                                                      *)
(***************************************************************************)
EXTENDS Integers, Sequences

VARIABLES
  sent,      \* packets handed to the transmitter, numbered from 1
  epochs,    \* the epochs of the transmitter's sessions
  stream     \* the packets delivered since the stream was last started afresh

fifoVars == <<sent, epochs, stream>>

Init == sent = 0 /\ Len(epochs) = 1 /\ stream = <<>>

Send ==
  /\ sent' = sent + 1
  /\ UNCHANGED stream

\* One arrival may release several packets.
Deliver ==
  /\ Len(stream') > Len(stream)
  /\ SubSeq(stream', 1, Len(stream)) = stream
  /\ \A i \in Len(stream) + 1 .. Len(stream') :
       /\ stream'[i] \in 1 .. sent
       /\ i > 1 => stream'[i - 1] < stream'[i]
  /\ UNCHANGED <<sent, epochs>>

NewSession ==
  /\ Len(epochs') = Len(epochs) + 1
  /\ SubSeq(epochs', 1, Len(epochs)) = epochs

\* Two sessions share an epoch.
Ambiguous == \E i, j \in DOMAIN epochs : i # j /\ epochs[i] = epochs[j]

Afresh == Ambiguous /\ stream' = <<>> /\ UNCHANGED <<sent, epochs>>

\* The packet that fills the last block of a session starts the next one.
Next ==
  \/ Send /\ (NewSession \/ UNCHANGED epochs)
  \/ NewSession /\ UNCHANGED <<sent, stream>>
  \/ Deliver
  \/ Afresh

Fifo == Init /\ [][Next]_fifoVars

=============================================================================
