------------------------------ MODULE Identity ------------------------------
(***************************************************************************)
(* Accounts, one-time codes and sign-in over the same two tables and the     *)
(* same cache.  Nothing in the code keeps two requests on one user or one    *)
(* identifier apart, so they overlap freely here; where an overlap costs a   *)
(* guarantee the property names it ("alone").                               *)
(***************************************************************************)
EXTENDS Accounts, OneTimeCodes

CONSTANT MaxRequests   \* bound: requests and admin edits of one behaviour

ASSUME RequestsAssumption == MaxRequests \in Nat

VARIABLE requests      \* how many of them have begun

vars == <<directory, doomed, req, token, codeVars, requests>>

\* Some users have registered, with any gadgets, and nothing is in progress.
Init ==
  /\ member \in SUBSET Users
  /\ deleted = {}
  /\ password \in [Users -> Passwords \cup {NoPassword}]
  /\ \A u \in Users : password[u] = NoPassword \/ u \in member
  /\ \E owned \in SUBSET Identifiers :
       \E key \in Injection(owned, Gadgets), row \in [owned -> [user : member, verified : BOOLEAN]] :
         gadget = [g \in Gadgets |->
                     IF \E i \in owned : key[i] = g
                     THEN LET i == CHOOSE j \in owned : key[j] = g IN
                          [user |-> row[i].user, identifier |-> i,
                           verified |-> row[i].verified, old |-> FALSE]
                     ELSE Absent]
  /\ doomed = {}
  /\ req = [w \in Workers |-> Idle]
  /\ token = {}
  /\ CodesInit
  /\ requests = 0

-----------------------------------------------------------------------------
AdminStep ==
  \/ \E u \in Users, mark \in BOOLEAN : AdminSavesUser(u, mark, password[u])
  \/ \E g \in Gadgets, u \in Users, verified \in BOOLEAN : AdminSavesGadget(g, u, verified)
  \/ \E g \in Gadgets : AdminDeletesGadget(g)
  \/ \E u \in Users : AdminToken(u)

\* First statements of the requests of modules Accounts and SignIn ...
Begin(w) ==
  \/ \E is \in Registrations, pw \in Passwords \cup {NoPassword} : Register(w, is, pw)
  \/ \E provider \in Providers, i \in Emails : SocialFetch(w, provider, i)
  \/ \E u \in Users :
       \/ \E i \in Identifiers : CreateGadget(w, u, i) \/ DeleteGadget(w, u, i)
       \/ \E current, new \in Passwords : ChangePassword(w, u, current, new)
       \/ DeleteProfile(w, u)

\* ... and their later ones.
Proceed(w) ==
  \/ RegisterCommit(w)
  \/ SocialCreate(w)
  \/ CreateGadgetInsert(w)
  \/ CountRemaining(w)
  \/ DeleteGadgetRow(w)
  \/ ChangePasswordSave(w)
  \/ DeleteProfileCommit(w)
  \/ WorkerDies(w) /\ UNCHANGED token

\* Codes a client can type: one it received, or the one settings allow.
Known(i) == {m.code : m \in {n \in received : n.to = i}} \cup ({MockCode} \ {NoCode})

BeginCode(w) ==
  \E purpose \in Purposes, i \in Identifiers, pw \in Passwords : \E c \in Known(i) :
    PresentCode(w, purpose, i, c, pw)

ProceedCode(w) == BurnCode(w) \/ VerifySave(w) \/ ResetSave(w)

TokenStep ==
  \/ \E i \in Identifiers, pw \in Passwords : ObtainTokenPair(i, pw)
  \/ \E u \in Users : TokenExpires(u)

CleanupStep ==
  \/ \E g \in Gadgets : GadgetAges(g)
  \/ CleanupSelect
  \/ CleanupDelete
  \/ CleanupFails

Next ==
  \/ /\ requests < MaxRequests
     /\ requests' = requests + 1
     /\ \/ (AdminStep \/ \E w \in Workers : Begin(w)) /\ UNCHANGED codeVars
        \/ \E w \in Workers : BeginCode(w)
        \/ \E purpose \in Purposes, i \in Identifiers : SendCode(purpose, i)
  \/ /\ UNCHANGED requests
     /\ \/ /\ TokenStep \/ CleanupStep \/ \E w \in Workers : Proceed(w)
           /\ UNCHANGED codeVars
        \/ \E w \in Workers : ProceedCode(w)
        \/ \E k \in Keys : CodeExpires(k)

Spec == Init /\ [][Next]_vars

-----------------------------------------------------------------------------
\* Types of all variables.
TypeOK ==
  /\ DirectoryTypeOK
  /\ token \subseteq member
  /\ cache \in [Keys -> Codes \cup {NoCode}]
  /\ received \subseteq [code : Codes, purpose : Purposes, to : Identifiers]
  /\ used \in [Codes \cup {NoCode, MockCode} -> Nat]
  /\ requests \in 0 .. MaxRequests

\* The step ended a request that met another one on the same user or identifier.
Overlapped == \E w \in Workers : req[w].step # "idle" /\ req'[w] = Idle /\ ~req[w].alone

\* A user who can sign in keeps a verified gadget: delete_gadget refuses the last
\* one.  Only deleting the profile takes it; so does the admin site, a deletion
\* that another request overlapped, and a cleanup whose selection was verified
\* since (gadgets.py:27, cleanup.py:19).
KeepsVerifiedGadget ==
  [][\A u \in Users : VerifiedOf(u) # {} /\ VerifiedOf(u)' = {} =>
       \/ u \in deleted'
       \/ AdminStep
       \/ Overlapped
       \/ CleanupDelete /\ \E g \in doomed : gadget[g].verified]_vars

\* A deleted profile stays deleted.  Saving a whole user row, as change_password
\* and the password reset do, brings it back only when it was loaded before the
\* deletion (users.py:34, reset_password.py:49).
DeletedStaysDeleted ==
  [][deleted \subseteq deleted' \/ AdminStep \/ Overlapped]_vars

\* delete_profile leaves nobody a way in: a profile that becomes deleted has no
\* gadget, and one that is deleted gets none, so its identifiers are free again.
DeletedProfilesAreEmptied ==
  [][\A u \in deleted' :
       \/ GadgetsOf(u)' = {}
       \/ u \in deleted /\ GadgetsOf(u)' \subseteq GadgetsOf(u)
       \/ AdminStep
       \/ Overlapped]_vars

\* A gadget is verified, and a password reset, only with a code that was sent
\* for that purpose to that identifier.
CodesServeTheirPurpose ==
  \A w \in Workers :
    req[w].step \in {"burn", "verify", "reset"} /\ req[w].code # MockCode =>
      \E m \in received : /\ m.code = req[w].code
                          /\ m.purpose = req[w].purpose
                          /\ m.to \in req[w].identifiers

\* A code works once.  It is read and deleted in two calls, so a request that
\* overlaps another one may use it again (verify_gadget.py:33).
CodesWorkOnce ==
  [][\A w \in Workers :
       req[w].step = "burn" /\ req[w].code # MockCode /\ used[req[w].code] > 0
         => req'[w] = req[w] \/ ~req[w].alone \/ used' = used]_vars

\* A code that was sent stays good until it is presented, replaced or expires; a
\* request takes away another code than its own only if that one was sent while
\* it ran.
LiveCodesSurvive ==
  [][\A w \in Workers, k \in Keys :
       BurnCode(w) /\ cache[k] # NoCode /\ cache'[k] = NoCode
         => req[w].code \in {cache[k], MockCode} \/ ~req[w].alone]_vars
=============================================================================
