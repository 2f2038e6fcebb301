---------------------------- MODULE RfsChannel ----------------------------
(***************************************************************************)
(* What a receive path of the RFS group promises the RFS handlers above   *)
(* it: every message handed up is a message the modem sent, intact, with  *)
(* its own aseq, in the order they were sent, and none twice.  A message  *)
(* may be dropped (the receive returns -1 and the caller calls again):    *)
(* the framing-error rule says a partial message is discarded, not that   *)
(* every message arrives.                                                 *)
(***************************************************************************)
EXTENDS Naturals, Sequences

CONSTANTS Payloads,   \* the payloads the modem may send
          MaxMsgs     \* how many messages the modem sends

VARIABLES sent,       \* the messages the modem has sent, in order
          got         \* the messages handed to the RFS handlers, in order

Msg(i, d) == [aseq |-> i, data |-> d]

Init == sent = <<>> /\ got = <<>>

\* The modem sends its next message.
Send ==
    /\ Len(sent) < MaxMsgs
    /\ \E d \in Payloads : sent' = Append(sent, Msg(Len(sent) + 1, d))
    /\ UNCHANGED got

\* A receive returns a sent message later than the last one it returned;
\* the ones in between are dropped.
Deliver ==
    /\ \E i \in 1..Len(sent) :
          /\ \A j \in 1..Len(got) : got[j].aseq < i
          /\ got' = Append(got, sent[i])
    /\ UNCHANGED sent

Spec == Init /\ [][Send \/ Deliver]_<<sent, got>>
=============================================================================
