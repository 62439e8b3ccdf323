-------------------------- MODULE AtLeastOnceMail --------------------------
(***************************************************************************)
(* What the mail pipeline promises the API, which hears nothing back after *)
(* enqueueEmail: an accepted e-mail is handed to SES at least once or ends *)
(* up, sooner or later, where an operator finds it.                        *)
(***************************************************************************)
CONSTANT Messages

VARIABLES accepted,   \* e-mails the queue has taken
          delivered,  \* e-mails SES has taken, once or more
          abandoned   \* e-mails given up and kept for an operator

vars == <<accepted, delivered, abandoned>>

Init == accepted = {} /\ delivered = {} /\ abandoned = {}

Accept(m) ==
  /\ accepted' = accepted \cup {m}
  /\ UNCHANGED <<delivered, abandoned>>

Deliver(m) ==
  /\ m \in accepted
  /\ delivered' = delivered \cup {m}
  /\ UNCHANGED <<accepted, abandoned>>

\* One failing e-mail takes its batch along: several are given up at once, of
\* which some may have been delivered.
Abandon(M) ==
  /\ M \subseteq accepted
  /\ abandoned' = abandoned \cup M
  /\ UNCHANGED <<accepted, delivered>>

Settle(m) == m \notin delivered \cup abandoned /\
             (Deliver(m) \/ \E M \in SUBSET accepted : m \in M /\ Abandon(M))

Next == \/ \E m \in Messages : Accept(m) \/ Deliver(m)
        \/ \E M \in SUBSET accepted : Abandon(M)

Spec == Init /\ [][Next]_vars /\ \A m \in Messages : WF_vars(Settle(m))
=============================================================================
