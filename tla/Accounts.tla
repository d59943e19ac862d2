------------------------------ MODULE Accounts ------------------------------
(***************************************************************************)
(* Registration, contact methods ("gadgets"), password changes and profile   *)
(* deletion (whimo/auth/registration, whimo/users/services), the nightly     *)
(* cleanup (whimo/contrib/tasks/cleanup.py) and the edits of the admin site. *)
(***************************************************************************)
EXTENDS SignIn

\* RegistrationService.register: the transaction inserts the user first; the
\* check reads what is committed, so it is a step of its own.
Register(w, is, pw) ==
  /\ req[w] = Idle
  /\ ~Taken(is)
  /\ Continue(w, [Idle EXCEPT !.step = "register", !.identifiers = is, !.password = pw])
  /\ UNCHANGED <<directory, doomed, token>>

\* Its commit.  If an identifier was taken meanwhile the unique index fails the
\* insert and the user goes with it.
RegisterCommit(w) ==
  /\ req[w].step = "register"
  /\ \/ /\ Taken(req[w].identifiers)
        /\ UNCHANGED directory
     \/ \E u \in Users \ member :
          /\ Insert(u, req[w].identifiers, FALSE)
          /\ member' = member \cup {u}
          /\ password' = [password EXCEPT ![u] = req[w].password]
          /\ UNCHANGED deleted
  /\ Done(w)
  /\ UNCHANGED <<doomed, token>>

-----------------------------------------------------------------------------
\* create_gadget: check, then insert.
CreateGadget(w, u, i) ==
  /\ req[w] = Idle
  /\ Authenticated(u)
  /\ ~Taken({i})
  /\ Continue(w, [Idle EXCEPT !.step = "create", !.user = u, !.identifiers = {i}])
  /\ UNCHANGED <<directory, doomed, token>>

CreateGadgetInsert(w) ==
  /\ req[w].step = "create"
  /\ \/ /\ Taken(req[w].identifiers)
        /\ UNCHANGED gadget
     \/ Insert(req[w].user, req[w].identifiers, FALSE)
  /\ Done(w)
  /\ UNCHANGED <<member, deleted, password, doomed, token>>

\* delete_gadget: a verified one is counted against the others first.
DeleteGadget(w, u, i) ==
  /\ req[w] = Idle
  /\ Authenticated(u)
  /\ \E g \in Named(i) :
       /\ gadget[g].user = u
       /\ Continue(w, [Idle EXCEPT !.step = IF gadget[g].verified THEN "count" ELSE "delete",
                                   !.user = u, !.identifiers = {i}, !.gadget = g])
  /\ UNCHANGED <<directory, doomed, token>>

\* Mutant: any gadget counts as one that remains.
CountAnyGadget(w) ==
  /\ req[w].step = "count"
  /\ IF GadgetsOf(req[w].user) \ {req[w].gadget} = {}
     THEN Done(w)
     ELSE Continue(w, [req[w] EXCEPT !.step = "delete"])
  /\ UNCHANGED <<directory, doomed, token>>

CountRemaining(w) ==
  /\ req[w].step = "count"
  /\ IF VerifiedOf(req[w].user) \ {req[w].gadget} = {}
     THEN Done(w)
     ELSE Continue(w, [req[w] EXCEPT !.step = "delete"])
  /\ UNCHANGED <<directory, doomed, token>>

\* DELETE by primary key: a row that is gone already is no error.  The owner may be
\* another one by now.
DeleteGadgetRow(w) ==
  /\ req[w].step = "delete"
  /\ gadget' = Without({req[w].gadget})
  /\ DoneWith(w, {gadget[g].user : g \in {req[w].gadget} \cap Present})
  /\ UNCHANGED <<member, deleted, password, doomed, token>>

-----------------------------------------------------------------------------
\* change_password: the user is loaded and checked ...
ChangePassword(w, u, current, new) ==
  /\ req[w] = Idle
  /\ Authenticated(u)
  /\ password[u] = current
  /\ Continue(w, [Idle EXCEPT !.step = "password", !.user = u, !.password = new,
                              !.deleted = FALSE])
  /\ UNCHANGED <<directory, doomed, token>>

ChangePasswordSave(w) ==
  /\ req[w].step = "password"
  /\ SaveUser(w)
  /\ Done(w)
  /\ UNCHANGED <<member, gadget, doomed, token>>

\* delete_profile: the user is loaded ...
DeleteProfile(w, u) ==
  /\ req[w] = Idle
  /\ Authenticated(u)
  /\ Continue(w, [Idle EXCEPT !.step = "profile", !.user = u])
  /\ UNCHANGED <<directory, doomed, token>>

\* Mutant: the profile is only marked.
DeleteProfileKeepingGadgets(w) ==
  /\ req[w].step = "profile"
  /\ deleted' = deleted \cup {req[w].user}
  /\ Done(w)
  /\ UNCHANGED <<member, password, gadget, doomed, token>>

\* ... then one transaction marks it and deletes its gadgets.
DeleteProfileCommit(w) ==
  /\ req[w].step = "profile"
  /\ deleted' = deleted \cup {req[w].user}
  /\ gadget' = Without(GadgetsOf(req[w].user))
  /\ Done(w)
  /\ UNCHANGED <<member, password, doomed, token>>

-----------------------------------------------------------------------------
\* Thirty days go by.
GadgetAges(g) ==
  /\ g \in Present
  /\ ~gadget[g].old
  /\ gadget' = [gadget EXCEPT ![g].old = TRUE]
  /\ UNCHANGED <<member, deleted, password, doomed, req, token>>

\* The filter of cleanup_unverified_gadgets.
Unconfirmed == {g \in Present : gadget[g].old /\ ~gadget[g].verified}

\* History rows are written for what is deleted, so Django selects the rows ...
CleanupSelect ==
  /\ doomed = {}
  /\ Unconfirmed # {}
  /\ doomed' = Unconfirmed
  /\ UNCHANGED <<directory, req, token>>

\* ... and deletes them by primary key.
CleanupDelete ==
  /\ doomed # {}
  /\ gadget' = Without(doomed)
  /\ doomed' = {}
  /\ Intrude((UNION {{gadget[g].user, gadget[g].identifier} : g \in doomed}) \ {NoUser})
  /\ UNCHANGED <<member, deleted, password, token>>

\* The database is out of reach; Celery tries again, or the next night does.
CleanupFails ==
  /\ doomed # {}
  /\ doomed' = {}
  /\ UNCHANGED <<directory, req, token>>

-----------------------------------------------------------------------------
\* UserAdmin: the mark and the password are fields of the form.
AdminSavesUser(u, mark, pw) ==
  /\ u \in member
  /\ deleted' = IF mark THEN deleted \cup {u} ELSE deleted \ {u}
  /\ password' = [password EXCEPT ![u] = pw]
  /\ Intrude({u})
  /\ UNCHANGED <<member, gadget, doomed, token>>

\* GadgetAdmin and GadgetInline: is_verified, and the owner.  The form has identifier
\* and type too; a gadget keeps these here, as requests and codes are told apart by them.
AdminSavesGadget(g, u, verified) ==
  /\ g \in Present
  /\ u \in member
  /\ gadget' = [gadget EXCEPT ![g].user = u, ![g].verified = verified]
  /\ Intrude({gadget[g].user, u, gadget[g].identifier})
  /\ UNCHANGED <<member, deleted, password, doomed, token>>

AdminDeletesGadget(g) ==
  /\ g \in Present
  /\ gadget' = Without({g})
  /\ Intrude({gadget[g].user, gadget[g].identifier})
  /\ UNCHANGED <<member, deleted, password, doomed, token>>

\* generate_access_token, for any user.
AdminToken(u) ==
  /\ u \in member
  /\ token' = token \cup {u}
  /\ UNCHANGED <<directory, doomed, req>>
=============================================================================
