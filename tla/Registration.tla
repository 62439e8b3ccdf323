---------------------------- MODULE Registration ----------------------------
(***************************************************************************)
(* POST /applicants: createApplicant checks who is asking, creates the     *)
(* Auth0 user, inserts the row and sends the welcome e-mail.  Nothing      *)
(* spans Auth0 and Postgres, so a registration that stops half-way leaves  *)
(* what it has done.                                                       *)
(***************************************************************************)
EXTENDS CommonAppState

\* The identity provider (external): somebody signs up with a social login.
\* A social account keeps its user id for good; a new one gets a fresh id, and may
\* come without an e-mail.
SocialSignUp(u, e) ==
  LET user == [user_id |-> u, email |-> e, connection |-> "social"]
  IN  /\ "registerWithJwt" \in Ops
      /\ user \in jwt \/ \A t \in jwt : t.user_id # u
      /\ \A t \in auth0 : t.user_id # u
      /\ auth0' = auth0 \cup {user}
      /\ jwt' = jwt \cup {user}
      /\ UNCHANGED <<tables, bucket, mail, req, missed>>

\* With a JWT, the registered e-mail must be the token's.
StartRegisterWithJwt(r, t, e) ==
  /\ t \in jwt
  /\ Issue(r, "registerWithJwt",
       IF t.email = e
       THEN [NoRequest EXCEPT !.op = "registerWithJwt", !.pc = "insert",
                              !.who = e, !.email = e, !.sub = t.user_id]
       ELSE [NoRequest EXCEPT !.op = "registerWithJwt", !.pc = "done",
                              !.email = e, !.status = 400])

\* Without one, userExists must find nobody with this e-mail, on any connection.
StartRegister(r, e) ==
  Issue(r, "register",
    IF \E u \in auth0 : u.email = e
    THEN [NoRequest EXCEPT !.op = "register", !.pc = "done", !.email = e, !.status = 409]
    ELSE [NoRequest EXCEPT !.op = "register", !.pc = "createUser", !.who = e,
                       !.email = e])

\* Auth0 refuses a second user of the same e-mail on the password connection;
\* a social user that appeared after the check does not stop it.
CreateUser(r) ==
  /\ At(r, "createUser")
  /\ IF \E u \in auth0 : u.email = req[r].email /\ u.connection = "password"
     THEN Reject(r, 409) /\ UNCHANGED services
     ELSE \E u \in Auth0Ids :
            LET user == [user_id |-> u, email |-> req[r].email, connection |-> "password"]
            IN  /\ \A t \in jwt : t.user_id # u
                /\ auth0' = auth0 \cup {user}
                /\ jwt' = jwt \cup {user}
                /\ req' = [req EXCEPT ![r] = [@ EXCEPT !.pc = "insert", !.sub = u]]
                /\ UNCHANGED <<bucket, mail, missed>>
  /\ UNCHANGED tables

\* Faulty variant: the row takes any id no present row has, so that the id of
\* a deleted applicant is used again.
ReusableApplicantIds == {i \in ApplicantIds : ~Registered(i)}

\* A SERIAL column never goes back; values lost to failed inserts leave gaps.
FreshApplicantIds == {i \in ApplicantIds : i > lastApplicantId}

InsertApplicant(r) ==
  /\ At(r, "insert")
  /\ \A a \in applicant : a.email # req[r].email /\ a.auth0Id # req[r].sub
  /\ \E i \in FreshApplicantIds :
       /\ applicant' = applicant \cup {[id |-> i, email |-> req[r].email,
                                        auth0Id |-> req[r].sub, isPaused |-> FALSE]}
       /\ lastApplicantId' = i
       /\ req' = [req EXCEPT ![r] = [@ EXCEPT
                    !.pc = IF req[r].op = "register" THEN "welcome" ELSE "respond",
                    !.id = i]]
  /\ UNCHANGED <<upload, lastUploadId, draft, submission, deletionRequests,
                 session, services>>

\* Faulty variant: "rolling back" the Auth0 user of a refused insert with the
\* helper that deletes by e-mail takes the other applicant's login with it.
InsertConflictCleansUpByEmail(r) ==
  /\ At(r, "insert")
  /\ \E a \in applicant : a.email = req[r].email \/ a.auth0Id = req[r].sub
  /\ auth0' = {u \in auth0 : u.email # req[r].email}
  /\ Reject(r, 409)
  /\ UNCHANGED <<tables, jwt, bucket, mail, missed>>

\* P2002, a unique constraint on email or auth0Id: answered 409, and the Auth0
\* user created above stays.
InsertConflict(r) ==
  /\ At(r, "insert")
  /\ \E a \in applicant : a.email = req[r].email \/ a.auth0Id = req[r].sub
  /\ Reject(r, 409)
  /\ UNCHANGED <<tables, services>>

\* generatePasswordReset needs the user; its failure, or the queue's, is logged
\* and swallowed.
SendWelcome(r) ==
  /\ At(r, "welcome")
  /\ \/ UNCHANGED mail
     \/ /\ \E u \in auth0 : u.user_id = req[r].sub
        /\ mail' = mail \cup {[kind |-> "welcome", to |-> req[r].email,
                               id |-> req[r].id, by |-> r]}
  /\ Goto(r, "respond")
  /\ UNCHANGED <<tables, auth0, jwt, bucket, missed>>

Registering(r) ==
  \/ \E e \in Emails : StartRegister(r, e)
  \/ \E t \in jwt, e \in Emails : StartRegisterWithJwt(r, t, e)
  \/ CreateUser(r)
  \/ InsertApplicant(r)
  \/ InsertConflict(r)
  \/ SendWelcome(r)
=============================================================================
