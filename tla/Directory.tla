------------------------------ MODULE Directory ------------------------------
(***************************************************************************)
(* Tables users and gadgets of whimo/db/models/users.py, the queries other   *)
(* parts make on them, the guards of whimo/common/authentication.py, and the *)
(* requests of the web workers.                                             *)
(*                                                                         *)
(* A request is a record: the step it will take next and what it has read.  *)
(* Every action of the modules that extend this one is one stretch of a      *)
(* request between two statements; rows may change between two stretches.    *)
(***************************************************************************)
EXTENDS FiniteSets, Naturals, FiniteSetsExt, Functions

CONSTANTS
  Users,             \* primary keys of table users
  Gadgets,           \* primary keys of table gadgets
  Emails, Phones,    \* identifiers, normalised
  Passwords,         \* passwords clients choose
  Codes,             \* one-time codes, in the model all different
  Workers,           \* web workers
  NoUser, NoGadget, NoIdentifier, NoPassword, NoCode

Identifiers == Emails \cup Phones

ASSUME DirectoryAssumption ==
  /\ NoUser \notin Users \cup Identifiers
  /\ NoGadget \notin Gadgets /\ NoIdentifier \notin Identifiers
  /\ NoPassword \notin Passwords /\ NoCode \notin Codes
  /\ Emails \cap Phones = {}

VARIABLES
  member,      \* users that have a row
  deleted,     \* users whose is_deleted is set
  password,    \* column password; NoPassword is an unusable one
  gadget,      \* rows of table gadgets, Absent where there is none
  doomed,      \* rows a run of cleanup_unverified_gadgets selected
  req          \* what each web worker is doing

directory == <<member, deleted, password, gadget>>

-----------------------------------------------------------------------------
\* Columns that matter here: whether the row is there, is_deleted, password.
UserTable == [there : SUBSET Users, deleted : SUBSET Users,
              password : [Users -> Passwords \cup {NoPassword}]]

\* old stands for a created_at more than thirty days ago.
GadgetRow == [user : Users, identifier : Identifiers, verified : BOOLEAN, old : BOOLEAN]

Absent == [user |-> NoUser, identifier |-> NoIdentifier, verified |-> FALSE, old |-> FALSE]

Present == {g \in Gadgets : gadget[g] # Absent}
GadgetsOf(u) == {g \in Present : gadget[g].user = u}
VerifiedOf(u) == {g \in GadgetsOf(u) : gadget[g].verified}

\* Gadget.objects.get(identifier=...): at most one, identifiers are unique.
Named(i) == {g \in Present : gadget[g].identifier = i}

\* check_identifier_exists and the checks before each insert.
Taken(is) == \E g \in Present : gadget[g].identifier \in is

\* Primary keys nobody holds: keys are random and never come back.
Unused == {g \in Gadgets : /\ gadget[g] = Absent
                           /\ g \notin doomed
                           /\ \A w \in Workers : req[w].gadget # g}

\* INSERT INTO gadgets, in one transaction, of rows for identifiers is.
Insert(u, is, verified) ==
  /\ ~Taken(is)
  /\ \E key \in Injection(is, Unused) :
       gadget' = [g \in Gadgets |->
                    IF \E i \in is : key[i] = g
                    THEN [user |-> u, identifier |-> CHOOSE i \in is : key[i] = g,
                          verified |-> verified, old |-> FALSE]
                    ELSE gadget[g]]

Without(gs) == [g \in Gadgets |-> IF g \in gs THEN Absent ELSE gadget[g]]

\* Identifiers one registration may bring: an e-mail, a phone or both.
Registrations ==
  {is \in SUBSET Identifiers : is # {} /\ Cardinality(is \cap Emails) <= 1
                                       /\ Cardinality(is \cap Phones) <= 1}

-----------------------------------------------------------------------------
Steps == {"idle", "register", "create", "count", "delete", "password", "profile",
          "social", "burn", "verify", "reset"}
Purposes == {"otp", "password_reset"}

RequestRow ==
  [step : Steps, user : Users \cup {NoUser}, gadget : Gadgets \cup {NoGadget},
   identifiers : SUBSET Identifiers, password : Passwords \cup {NoPassword}, deleted : BOOLEAN,
   code : Codes \cup {NoCode}, purpose : Purposes, alone : BOOLEAN]

Idle == [step |-> "idle", user |-> NoUser, gadget |-> NoGadget, identifiers |-> {},
         password |-> NoPassword, deleted |-> FALSE, code |-> NoCode, purpose |-> "otp",
         alone |-> TRUE]

\* The rows and codes a request works on, named by their users and identifiers.
Concerns(r) == {r.user} \cup r.identifiers

Others(w, r) == {v \in Workers \ {w} : Concerns(req[v]) \cap (Concerns(r) \ {NoUser}) # {}}

\* The requests after w moved on to r.  "alone" says that no other request on
\* the same user or identifier ran at the same time; nothing in the code sees
\* to that, and the properties say what is lost when it does not hold.
Continue(w, r) ==
  req' = [v \in Workers |->
            IF v = w THEN [r EXCEPT !.alone = @ /\ Others(w, r) = {}]
            ELSE [req[v] EXCEPT !.alone = @ /\ v \notin Others(w, r)]]

\* A response was sent.
Done(w) == req' = [req EXCEPT ![w] = Idle]

\* The same after a write to rows of users the request may not have named.
DoneWith(w, concerns) ==
  req' = [v \in Workers |->
            IF v = w THEN Idle
            ELSE [req[v] EXCEPT !.alone = @ /\ Concerns(req[v]) \cap concerns = {}]]

\* A write that is not part of a request of several steps overlaps those.
Intrude(concerns) ==
  req' = [v \in Workers |-> [req[v] EXCEPT !.alone = @ /\ Concerns(req[v]) \cap concerns = {}]]

\* Mutant: saving a password also reactivates the user.
SaveUserActive(w) ==
  /\ password' = [password EXCEPT ![req[w].user] = req[w].password]
  /\ deleted' = deleted \ {req[w].user}

\* user.save(): every column of the row becomes what was loaded.
SaveUser(w) ==
  /\ password' = [password EXCEPT ![req[w].user] = req[w].password]
  /\ deleted' = IF req[w].deleted THEN deleted \cup {req[w].user}
                                  ELSE deleted \ {req[w].user}

\* A worker is killed between two statements; what its transaction had not
\* committed is rolled back.
WorkerDies(w) ==
  /\ req[w].step # "idle"
  /\ Done(w)
  /\ UNCHANGED <<directory, doomed>>

-----------------------------------------------------------------------------
DirectoryTypeOK ==
  /\ [there |-> member, deleted |-> deleted, password |-> password] \in UserTable
  /\ deleted \subseteq member
  /\ \A g \in Present : gadget[g] \in GadgetRow /\ gadget[g].user \in member
  /\ doomed \subseteq Gadgets
  /\ req \in [Workers -> RequestRow]
=============================================================================
