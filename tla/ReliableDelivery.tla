--------------------------- MODULE ReliableDelivery ---------------------------
(***************************************************************************)
(* What the Reliability layer promises the application, without slots,     *)
(* deadlines or repairs: a transaction is submitted at most MaxRetries + 1 *)
(* times and receives one verdict, which is final.  A deinitialisation     *)
(* drops every open transaction without a verdict.                         *)
(***************************************************************************)
EXTENDS Naturals

CONSTANTS Packets, NoPacket, MaxRetries, MaxSends

VARIABLE log  \* what became of each transaction, in order of creation

Sends    == 1..MaxSends
Verdicts == {"DELIVERED", "FAILED", "CANCELLED"}
Unused   == [status |-> "none", packet |-> NoPacket, submits |-> 0]

Open(t) == log[t].status = "open"

\* The application hands over a packet; the first submission may be refused.
Accept(t, p) ==
  /\ log[t].status = "none"
  /\ \A u \in Sends : u < t => log[u].status # "none"
  /\ \E status \in {"open", "FAILED"} :
       log' = [log EXCEPT ![t] = [status |-> status, packet |-> p,
                                  submits |-> 1]]

\* One more submission; a refused one ends the transaction.
Retransmit(t) ==
  /\ Open(t)
  /\ log[t].submits <= MaxRetries
  /\ \E status \in {"open", "FAILED"} :
       log' = [log EXCEPT ![t].submits = @ + 1, ![t].status = status]

Conclude(t) ==
  /\ Open(t)
  /\ \E verdict \in Verdicts : log' = [log EXCEPT ![t].status = verdict]

DropAll ==
  log' = [t \in Sends |->
            IF Open(t) THEN [log[t] EXCEPT !.status = "DROPPED"] ELSE log[t]]

Init == log = [t \in Sends |-> Unused]

Next ==
  \/ \E t \in Sends, p \in Packets : Accept(t, p)
  \/ \E t \in Sends : Retransmit(t) \/ Conclude(t)
  \/ DropAll

Spec == Init /\ [][Next]_log
=============================================================================
