---------------------------- MODULE FifoChannel ----------------------------
(* What the framing of the wire promises to both ends of a connection: the  *)
(* messages accepted for sending come out once, whole and in order, until   *)
(* one end is gone.                                                         *)
EXTENDS Naturals, Sequences

CONSTANTS Sendable, MaxSent

VARIABLES sent, delivered

vars == <<sent, delivered>>

Init == sent = <<>> /\ delivered = <<>>

Send(m) ==
    /\ Len(sent) < MaxSent
    /\ sent' = Append(sent, m)
    /\ UNCHANGED delivered

Deliver ==
    /\ Len(delivered) < Len(sent)
    /\ delivered' = Append(delivered, sent[Len(delivered) + 1])
    /\ UNCHANGED sent

Next == Deliver \/ \E m \in Sendable : Send(m)

Spec == Init /\ [][Next]_vars /\ WF_vars(Deliver)
=============================================================================
