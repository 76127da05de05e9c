---------------------------- MODULE ReliableChannel ----------------------------
(***************************************************************************)
(* What RakNet promises for messages sent RELIABLE_ORDERED on one channel: *)
(* they are returned in the order they were sent, each of them once.       *)
(***************************************************************************)
EXTENDS Naturals, Sequences, SequencesExt

CONSTANT Messages

VARIABLES sent,        \* the messages passed to Send, in order
          delivered    \* those returned to the application, in order

channelVars == <<sent, delivered>>

ChannelInit == sent = << >> /\ delivered = << >>

Send(m) == sent' = Append(sent, m) /\ UNCHANGED delivered

\* One or more of the messages that wait, the oldest first.
Deliver == /\ delivered' # delivered
           /\ IsPrefix(delivered, delivered')
           /\ IsPrefix(delivered', sent)
           /\ UNCHANGED sent

ChannelSpec == ChannelInit /\ [][(\E m \in Messages : Send(m)) \/ Deliver]_channelVars
================================================================================
