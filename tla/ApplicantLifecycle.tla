------------------------- MODULE ApplicantLifecycle -------------------------
(***************************************************************************)
(* What the API promises about an applicant id: it names nobody until a    *)
(* registration draws it, one applicant until a deletion, and nobody ever  *)
(* after.  What an applicant leaves with the API is kept until that        *)
(* deletion, goes with it in the same step, and never comes back; a        *)
(* deletion request, when there is one, is recorded in that step too.      *)
(***************************************************************************)
EXTENDS Naturals

CONSTANTS Ids, Kinds   \* applicant ids; kinds of data an applicant leaves

VARIABLES
  life,      \* each id: ahead of the sequence, registered or gone
  holdings,  \* the kinds of data the database holds under each id
  recorded   \* the ids whose deletion is on record

vars == <<life, holdings, recorded>>

Init ==
  /\ life \in [Ids -> {"ahead", "registered", "gone"}]
  /\ holdings \in [Ids -> SUBSET Kinds]
  /\ \A i \in Ids : life[i] # "registered" => holdings[i] = {}
  /\ recorded = {}

\* A registration draws an id; the ids it skips name nobody.
Register(i) ==
  /\ life[i] = "ahead"
  /\ life' = [j \in Ids |-> IF j = i THEN "registered"
                            ELSE IF j < i /\ life[j] = "ahead" THEN "gone" ELSE life[j]]
  /\ UNCHANGED <<holdings, recorded>>

Acquire(i, kind) ==
  /\ life[i] = "registered"
  /\ holdings' = [holdings EXCEPT ![i] = @ \cup {kind}]
  /\ UNCHANGED <<life, recorded>>

\* On the applicant's own request, which is recorded, or by an administrator.
Erase(i) ==
  /\ life[i] = "registered"
  /\ life' = [life EXCEPT ![i] = "gone"]
  /\ holdings' = [holdings EXCEPT ![i] = {}]
  /\ recorded' \in {recorded, recorded \cup {i}}

Next ==
  \/ \E i \in Ids : Register(i)
  \/ \E i \in Ids, kind \in Kinds : Acquire(i, kind)
  \/ \E i \in Ids : Erase(i)

Spec == Init /\ [][Next]_vars
=============================================================================
