--------------------------- MODULE IdentityProofs ---------------------------
(***************************************************************************)
(* What Identity guarantees for any number of users, gadgets, identifiers,   *)
(* codes and workers, overlaps and deaths included.                         *)
(***************************************************************************)
EXTENDS Identity, TLAPS

\* Users, tokens and the selection of the cleanup.
Profiles ==
  /\ member \subseteq Users
  /\ deleted \subseteq member
  /\ password \in [Users -> Passwords \cup {NoPassword}]
  /\ token \subseteq member
  /\ doomed \subseteq Gadgets

\* Every gadget has an owner with a row.
Owned ==
  /\ gadget \in [Gadgets -> GadgetRow \cup {Absent}]
  /\ \A g \in Gadgets : gadget[g] # Absent => gadget[g].user \in member

\* Some message brought the code that a request presented.
Sent(r) ==
  \E m \in received : m.code = r.code /\ m.purpose = r.purpose /\ m.to \in r.identifiers

\* What a request has in hand at each step.
Held(r) ==
  /\ r.user \in member \cup {NoUser}
  /\ r.step \in {"create", "password", "profile", "reset"} => r.user \in member
  /\ r.step \in {"burn", "verify", "reset"} /\ r.code # MockCode => Sent(r)

Work ==
  /\ req \in [Workers -> RequestRow]
  /\ \A w \in Workers : Held(req[w])

\* Codes in the cache were sent for the purpose and to the identifier of their key.
CachedCodesWereSent ==
  /\ cache \in [Keys -> Codes \cup {NoCode}]
  /\ received \subseteq [code : Codes, purpose : Purposes, to : Identifiers]
  /\ used \in [Codes \cup {NoCode, MockCode} -> Nat]
  /\ \A purpose \in Purposes, i \in Identifiers :
       cache[<<purpose, i>>] # NoCode =>
         \E m \in received : m.code = cache[<<purpose, i>>] /\ m.purpose = purpose /\ m.to = i

Sound == Profiles /\ Owned /\ Work /\ CachedCodesWereSent /\ requests \in 0 .. MaxRequests

-----------------------------------------------------------------------------
LEMMA SoundIsTyped == Sound => TypeOK
  <1> SUFFICES ASSUME Sound PROVE TypeOK
    OBVIOUS
  <1>1. [there |-> member, deleted |-> deleted, password |-> password] \in UserTable
    BY DEF Sound, Profiles, UserTable
  <1>2. \A g \in Present : gadget[g] \in GadgetRow /\ gadget[g].user \in member
    BY DEF Sound, Owned, Present
  <1>3. DirectoryTypeOK
    BY <1>1, <1>2 DEF Sound, Profiles, Work, DirectoryTypeOK
  <1> QED
    BY <1>3 DEF Sound, Profiles, CachedCodesWereSent, TypeOK

LEMMA SoundServes == Sound => CodesServeTheirPurpose
  BY DEF Sound, Work, Held, Sent, CodesServeTheirPurpose

LEMMA IdleRequest == Idle \in RequestRow /\ Held(Idle)
  BY DEF Idle, RequestRow, Steps, Purposes, Held

\* The flag that notes an overlap is of no other consequence.
LEMMA AloneRow ==
  ASSUME NEW r \in RequestRow, NEW b \in BOOLEAN
  PROVE  LET x == [r EXCEPT !.alone = b] IN
         /\ x \in RequestRow
         /\ x.user = r.user /\ x.step = r.step /\ x.code = r.code
         /\ x.purpose = r.purpose /\ x.identifiers = r.identifiers
  BY DEF RequestRow

-----------------------------------------------------------------------------
\* What steps of a request do to it and to the others.
LEMMA ContinueWork ==
  ASSUME Work, NEW w \in Workers, NEW r \in RequestRow, Continue(w, r),
         Held(r)', member \subseteq member', received \subseteq received'
  PROVE  Work'
  <1>1. req' = [v \in Workers |->
            IF v = w THEN [r EXCEPT !.alone = r.alone /\ Others(w, r) = {}]
            ELSE [req[v] EXCEPT !.alone = req[v].alone /\ v \notin Others(w, r)]]
    BY DEF Continue, Work
  <1> DEFINE x == [r EXCEPT !.alone = r.alone /\ Others(w, r) = {}]
             y(v) == [req[v] EXCEPT !.alone = req[v].alone /\ v \notin Others(w, r)]
  <1>2. x \in RequestRow
    BY AloneRow
  <1>3. ASSUME NEW v \in Workers PROVE y(v) \in RequestRow
    <2>1. req[v] \in RequestRow
      BY DEF Work
    <2>2. (req[v].alone /\ v \notin Others(w, r)) \in BOOLEAN
      OBVIOUS
    <2> QED BY <2>1, <2>2, AloneRow
  <1>4. req' \in [Workers -> RequestRow]
    BY <1>1, <1>2, <1>3
  <1>5. ASSUME NEW v \in Workers PROVE Held(req[v])'
    <2>1. CASE v = w
      <3>1. req'[v] = x
        BY <1>1, <2>1
      <3>2. /\ x.user = r.user /\ x.step = r.step /\ x.code = r.code
            /\ x.purpose = r.purpose /\ x.identifiers = r.identifiers
        BY DEF RequestRow
      <3> HIDE DEF x
      <3> QED BY <3>1, <3>2 DEF Held, Sent
    <2>2. CASE v # w
      <3>1. req'[v] = y(v)
        BY <1>1, <2>2
      <3>2. /\ y(v).user = req[v].user /\ y(v).step = req[v].step /\ y(v).code = req[v].code
            /\ y(v).purpose = req[v].purpose /\ y(v).identifiers = req[v].identifiers
        BY DEF RequestRow, Work
      <3>3. Held(req[v])
        BY DEF Work
      <3> HIDE DEF y
      <3> QED BY <3>1, <3>2, <3>3 DEF Held, Sent
    <2> QED BY <2>1, <2>2
  <1> QED BY <1>4, <1>5 DEF Work

LEMMA DoneWork ==
  ASSUME Work, NEW w \in Workers, Done(w), member \subseteq member', received \subseteq received'
  PROVE  Work'
  <1>1. req' \in [Workers -> RequestRow]
    BY IdleRequest DEF Work, Done
  <1>2. ASSUME NEW v \in Workers PROVE Held(req[v])'
    <2>1. CASE v = w
      BY <2>1 DEF Done, Work, Held, Idle
    <2>2. CASE v # w
      BY <2>2 DEF Done, Work, Held, Sent
    <2> QED BY <2>1, <2>2
  <1> QED BY <1>1, <1>2 DEF Work

LEMMA DoneWithWork ==
  ASSUME Work, NEW w \in Workers, NEW c, DoneWith(w, c), member \subseteq member',
         received \subseteq received'
  PROVE  Work'
  <1> DEFINE y(v) == [req[v] EXCEPT !.alone = req[v].alone /\ Concerns(req[v]) \cap c = {}]
  <1>1. req' = [v \in Workers |-> IF v = w THEN Idle ELSE y(v)]
    BY DEF DoneWith, Work
  <1>2. ASSUME NEW v \in Workers
        PROVE  /\ y(v) \in RequestRow
               /\ y(v).user = req[v].user /\ y(v).step = req[v].step /\ y(v).code = req[v].code
               /\ y(v).purpose = req[v].purpose /\ y(v).identifiers = req[v].identifiers
    <2>1. req[v] \in RequestRow
      BY DEF Work
    <2> QED BY <2>1 DEF RequestRow
  <1> HIDE DEF y
  <1>3. req' \in [Workers -> RequestRow]
    BY <1>1, <1>2, IdleRequest
  <1>4. ASSUME NEW v \in Workers PROVE Held(req[v])'
    <2>1. CASE v = w
      BY <1>1, <2>1 DEF Held, Idle
    <2>2. CASE v # w
      <3>1. req'[v] = y(v) /\ Held(req[v])
        BY <1>1, <2>2 DEF Work
      <3> QED BY <3>1, <1>2 DEF Held, Sent
    <2> QED BY <2>1, <2>2
  <1> QED BY <1>3, <1>4 DEF Work

LEMMA SameWork ==
  ASSUME Work, req' = req, member \subseteq member', received \subseteq received'
  PROVE  Work'
  BY DEF Work, Held, Sent

LEMMA IntrudeWork ==
  ASSUME Work, NEW c, Intrude(c), member \subseteq member', received \subseteq received'
  PROVE  Work'
  <1> DEFINE y(v) == [req[v] EXCEPT !.alone = req[v].alone /\ Concerns(req[v]) \cap c = {}]
  <1>1. req' = [v \in Workers |-> y(v)]
    BY DEF Intrude, Work
  <1>2. ASSUME NEW v \in Workers
        PROVE  /\ y(v) \in RequestRow
               /\ y(v).user = req[v].user /\ y(v).step = req[v].step /\ y(v).code = req[v].code
               /\ y(v).purpose = req[v].purpose /\ y(v).identifiers = req[v].identifiers
    <2>1. req[v] \in RequestRow
      BY DEF Work
    <2> QED BY <2>1 DEF RequestRow
  <1> HIDE DEF y
  <1>3. req' \in [Workers -> RequestRow]
    BY <1>1, <1>2
  <1>4. ASSUME NEW v \in Workers PROVE Held(req[v])'
    <2>1. req'[v] = y(v) /\ Held(req[v])
      BY <1>1 DEF Work
    <2> QED BY <2>1, <1>2 DEF Held, Sent
  <1> QED BY <1>3, <1>4 DEF Work

\* Deleting rows keeps the others as they are.
LEMMA WithoutOwned ==
  ASSUME Owned, NEW gs, gadget' = Without(gs), member' = member
  PROVE  Owned'
  BY DEF Owned, Without, Absent, GadgetRow

\* Inserted rows belong to the user they are inserted for.
LEMMA InsertOwned ==
  ASSUME Owned, NEW u \in Users, u \in member', NEW is \in SUBSET Identifiers, NEW verified \in BOOLEAN,
         Insert(u, is, verified), member \subseteq member'
  PROVE  Owned'
  <1>1. PICK key \in Injection(is, Unused) :
          gadget' = [g \in Gadgets |->
                       IF \E i \in is : key[i] = g
                       THEN [user |-> u, identifier |-> CHOOSE i \in is : key[i] = g,
                             verified |-> verified, old |-> FALSE]
                       ELSE gadget[g]]
    BY DEF Insert
  <1>2. ASSUME NEW g \in Gadgets, \E i \in is : key[i] = g
        PROVE  gadget'[g] \in GadgetRow /\ gadget'[g].user = u
    <2>1. (CHOOSE i \in is : key[i] = g) \in is
      BY <1>2
    <2> QED BY <1>1, <1>2, <2>1 DEF GadgetRow
  <1>3. ASSUME NEW g \in Gadgets, ~\E i \in is : key[i] = g
        PROVE  gadget'[g] = gadget[g]
    BY <1>1, <1>3
  <1>4. DOMAIN gadget' = Gadgets /\ gadget' = [g \in Gadgets |-> gadget'[g]]
    BY <1>1
  <1>5. \A g \in Gadgets : gadget'[g] \in GadgetRow \cup {Absent}
    BY <1>2, <1>3 DEF Owned
  <1>6. \A g \in Gadgets : gadget'[g] # Absent => gadget'[g].user \in member'
    BY <1>2, <1>3 DEF Owned
  <1> QED BY <1>4, <1>5, <1>6 DEF Owned, GadgetRow, Absent

-----------------------------------------------------------------------------
\* First statements of requests read tables and write none; all but those of
\* module OneTimeCodes.
LEMMA BeginKeeps ==
  ASSUME Sound, NEW w \in Workers, Begin(w), UNCHANGED codeVars
  PROVE  Profiles' /\ Owned' /\ Work'
  <1> USE DEF Sound, codeVars, directory
  <1>1. ASSUME NEW is \in Registrations, NEW pw \in Passwords \cup {NoPassword}, Register(w, is, pw)
        PROVE  Profiles' /\ Owned' /\ Work'
    <2> DEFINE r == [Idle EXCEPT !.step = "register", !.identifiers = is, !.password = pw]
    <2>1. r \in RequestRow /\ r.user = NoUser /\ r.step = "register"
      BY DEF RequestRow, Idle, Registrations, Steps, Purposes
    <2>2. UNCHANGED <<directory, doomed, token>> /\ Continue(w, r)
      BY <1>1 DEF Register
    <2> HIDE DEF r
    <2>3. Held(r)'
      BY <2>1 DEF Held
    <2>4. Work'
      BY <2>1, <2>2, <2>3, ContinueWork
    <2> QED BY <2>2, <2>4 DEF Profiles, Owned
  <1>2. ASSUME NEW provider \in Providers, NEW i \in Emails, SocialFetch(w, provider, i)
        PROVE  Profiles' /\ Owned' /\ Work'
    <2>1. UNCHANGED <<directory, doomed>>
      BY <1>2 DEF SocialFetch
    <2>2. CASE token' = token \cup {gadget[g].user : g \in Named(i)} /\ UNCHANGED req
      <3>1. \A g \in Named(i) : gadget[g].user \in member
        BY DEF Named, Present, Owned
      <3>2. Work'
        BY <2>1, <2>2, SameWork
      <3> QED BY <2>1, <2>2, <3>1, <3>2 DEF Profiles, Owned
    <2>3. CASE Continue(w, [Idle EXCEPT !.step = "social", !.identifiers = {i}]) /\ UNCHANGED token
      <3> DEFINE r == [Idle EXCEPT !.step = "social", !.identifiers = {i}]
      <3>1. r \in RequestRow /\ r.user = NoUser /\ r.step = "social"
        BY DEF RequestRow, Idle, Identifiers, Steps, Purposes
      <3>2. Continue(w, r)
        BY <2>3
      <3> HIDE DEF r
      <3>3. Held(r)'
        BY <3>1 DEF Held
      <3>4. Work'
        BY <2>1, <3>1, <3>2, <3>3, ContinueWork
      <3> QED BY <2>1, <2>3, <3>4 DEF Profiles, Owned
    <2> QED BY <1>2, <2>2, <2>3 DEF SocialFetch
  <1>3. ASSUME NEW u \in Users, NEW i \in Identifiers, CreateGadget(w, u, i)
        PROVE  Profiles' /\ Owned' /\ Work'
    <2> DEFINE r == [Idle EXCEPT !.step = "create", !.user = u, !.identifiers = {i}]
    <2>1. r \in RequestRow /\ r.user = u /\ r.step = "create"
      BY DEF RequestRow, Idle, Steps, Purposes
    <2>2. UNCHANGED <<directory, doomed, token>> /\ Continue(w, r) /\ u \in member
      BY <1>3 DEF CreateGadget, Authenticated, Profiles
    <2> HIDE DEF r
    <2>3. Held(r)'
      BY <2>1, <2>2 DEF Held
    <2>4. Work'
      BY <2>1, <2>2, <2>3, ContinueWork
    <2> QED BY <2>2, <2>4 DEF Profiles, Owned
  <1>4. ASSUME NEW u \in Users, NEW i \in Identifiers, DeleteGadget(w, u, i)
        PROVE  Profiles' /\ Owned' /\ Work'
    <2>1. PICK g \in Named(i) :
            Continue(w, [Idle EXCEPT !.step = IF gadget[g].verified THEN "count" ELSE "delete",
                                     !.user = u, !.identifiers = {i}, !.gadget = g])
      BY <1>4 DEF DeleteGadget
    <2> DEFINE x == [Idle EXCEPT !.step = IF gadget[g].verified THEN "count" ELSE "delete",
                                 !.user = u, !.identifiers = {i}, !.gadget = g]
    <2>x. x \in RequestRow /\ x.user = u /\ x.step \in {"count", "delete"} /\ Continue(w, x)
      BY <2>1 DEF RequestRow, Idle, Steps, Purposes, Named, Present
    <2> HIDE DEF x
    <2>2. PICK r \in RequestRow : r = x
      BY <2>x
    <2>3. UNCHANGED <<directory, doomed, token>> /\ u \in member
      BY <1>4 DEF DeleteGadget, Authenticated, Profiles
    <2>4. Continue(w, r)
      BY <2>x, <2>2
    <2>5. Held(r)'
      BY <2>x, <2>2, <2>3 DEF Held
    <2>6. Work'
      BY <2>2, <2>3, <2>4, <2>5, ContinueWork
    <2> QED BY <2>3, <2>6 DEF Profiles, Owned
  <1>5. ASSUME NEW u \in Users, NEW current \in Passwords, NEW new \in Passwords,
               ChangePassword(w, u, current, new)
        PROVE  Profiles' /\ Owned' /\ Work'
    <2> DEFINE r == [Idle EXCEPT !.step = "password", !.user = u, !.password = new, !.deleted = FALSE]
    <2>1. r \in RequestRow /\ r.user = u /\ r.step = "password"
      BY DEF RequestRow, Idle, Steps, Purposes
    <2>2. UNCHANGED <<directory, doomed, token>> /\ Continue(w, r) /\ u \in member
      BY <1>5 DEF ChangePassword, Authenticated, Profiles
    <2> HIDE DEF r
    <2>3. Held(r)'
      BY <2>1, <2>2 DEF Held
    <2>4. Work'
      BY <2>1, <2>2, <2>3, ContinueWork
    <2> QED BY <2>2, <2>4 DEF Profiles, Owned
  <1>6. ASSUME NEW u \in Users, DeleteProfile(w, u)
        PROVE  Profiles' /\ Owned' /\ Work'
    <2> DEFINE r == [Idle EXCEPT !.step = "profile", !.user = u]
    <2>1. r \in RequestRow /\ r.user = u /\ r.step = "profile"
      BY DEF RequestRow, Idle, Steps, Purposes
    <2>2. UNCHANGED <<directory, doomed, token>> /\ Continue(w, r) /\ u \in member
      BY <1>6 DEF DeleteProfile, Authenticated, Profiles
    <2> HIDE DEF r
    <2>3. Held(r)'
      BY <2>1, <2>2 DEF Held
    <2>4. Work'
      BY <2>1, <2>2, <2>3, ContinueWork
    <2> QED BY <2>2, <2>4 DEF Profiles, Owned
  <1> QED BY <1>1, <1>2, <1>3, <1>4, <1>5, <1>6 DEF Begin

\* Later statements of requests.
LEMMA ProceedKeeps ==
  ASSUME Sound, NEW w \in Workers, Proceed(w), UNCHANGED codeVars
  PROVE  Profiles' /\ Owned' /\ Work'
  <1> USE DEF Sound, codeVars, directory
  <1>r. req[w] \in RequestRow /\ Held(req[w])
    BY DEF Work
  <1>1. CASE RegisterCommit(w)
    <2>1. CASE UNCHANGED directory
      <3>1. Work'
        BY <1>1, <2>1, DoneWork DEF RegisterCommit
      <3> QED BY <1>1, <2>1, <3>1 DEF RegisterCommit, Profiles, Owned
    <2>2. ASSUME NEW u \in Users \ member, Insert(u, req[w].identifiers, FALSE),
                 member' = member \cup {u}, password' = [password EXCEPT ![u] = req[w].password],
                 UNCHANGED deleted
          PROVE  Profiles' /\ Owned' /\ Work'
      <3>1. req[w].identifiers \in SUBSET Identifiers /\ req[w].password \in Passwords \cup {NoPassword}
        BY <1>r DEF RequestRow
      <3>2. Owned'
        BY <2>2, <3>1, InsertOwned
      <3>3. Work'
        BY <1>1, <2>2, DoneWork DEF RegisterCommit
      <3>4. Profiles'
        BY <1>1, <2>2, <3>1 DEF RegisterCommit, Profiles
      <3> QED BY <3>2, <3>3, <3>4
    <2> QED BY <1>1, <2>1, <2>2 DEF RegisterCommit
  <1>2. CASE SocialCreate(w)
    <2>1. CASE UNCHANGED <<directory, token>>
      <3>1. Work'
        BY <1>2, <2>1, DoneWork DEF SocialCreate
      <3> QED BY <1>2, <2>1, <3>1 DEF SocialCreate, Profiles, Owned
    <2>2. ASSUME NEW u \in Users \ member, NEW confirmed \in BOOLEAN,
                 Insert(u, req[w].identifiers, confirmed), member' = member \cup {u},
                 token' = token \cup {u}, UNCHANGED <<deleted, password>>
          PROVE  Profiles' /\ Owned' /\ Work'
      <3>1. req[w].identifiers \in SUBSET Identifiers
        BY <1>r DEF RequestRow
      <3>2. Owned'
        BY <2>2, <3>1, InsertOwned
      <3>3. Work'
        BY <1>2, <2>2, DoneWork DEF SocialCreate
      <3>4. Profiles'
        BY <1>2, <2>2 DEF SocialCreate, Profiles
      <3> QED BY <3>2, <3>3, <3>4
    <2> QED BY <1>2, <2>1, <2>2 DEF SocialCreate
  <1>3. CASE CreateGadgetInsert(w)
    <2>1. Work'
      BY <1>3, DoneWork DEF CreateGadgetInsert
    <2>2. Profiles'
      BY <1>3 DEF CreateGadgetInsert, Profiles
    <2>3. CASE UNCHANGED gadget
      BY <1>3, <2>1, <2>2, <2>3 DEF CreateGadgetInsert, Owned
    <2>4. CASE Insert(req[w].user, req[w].identifiers, FALSE)
      <3>1. req[w].user \in member /\ member' = member /\ member \subseteq Users
        BY <1>3, <1>r DEF CreateGadgetInsert, Held, Profiles
      <3>2. req[w].identifiers \in SUBSET Identifiers
        BY <1>r DEF RequestRow
      <3>3. Owned'
        BY <2>4, <3>1, <3>2, InsertOwned
      <3> QED BY <2>1, <2>2, <3>3
    <2> QED BY <1>3, <2>3, <2>4 DEF CreateGadgetInsert
  <1>4. CASE CountRemaining(w)
    <2>1. UNCHANGED <<directory, doomed, token>>
      BY <1>4 DEF CountRemaining
    <2>2. CASE Done(w)
      <3>1. Work'
        BY <2>1, <2>2, DoneWork
      <3> QED BY <2>1, <3>1 DEF Profiles, Owned
    <2>3. CASE Continue(w, [req[w] EXCEPT !.step = "delete"])
      <3> DEFINE x == [req[w] EXCEPT !.step = "delete"]
      <3>x. x \in RequestRow /\ x.user = req[w].user /\ x.step = "delete" /\ Continue(w, x)
        BY <1>r, <2>3 DEF RequestRow, Steps
      <3> HIDE DEF x
      <3>1. PICK r \in RequestRow : r = x
        BY <3>x
      <3>2. Continue(w, r)
        BY <3>x, <3>1
      <3>3. Held(r)'
        BY <1>r, <2>1, <3>x, <3>1 DEF Held
      <3>4. Work'
        BY <2>1, <3>1, <3>2, <3>3, ContinueWork
      <3> QED BY <2>1, <3>4 DEF Profiles, Owned
    <2> QED BY <1>4, <2>2, <2>3 DEF CountRemaining
  <1>5. CASE DeleteGadgetRow(w)
    <2>0. PICK c : c = {gadget[g].user : g \in {req[w].gadget} \cap Present}
      OBVIOUS
    <2>1. Work'
      BY <1>5, <2>0, DoneWithWork DEF DeleteGadgetRow
    <2>2. Owned'
      BY <1>5, WithoutOwned DEF DeleteGadgetRow
    <2> QED BY <1>5, <2>1, <2>2 DEF DeleteGadgetRow, Profiles
  <1>6. CASE ChangePasswordSave(w)
    <2>1. Work'
      BY <1>6, DoneWork DEF ChangePasswordSave
    <2>2. req[w].user \in member /\ req[w].password \in Passwords \cup {NoPassword}
      BY <1>6, <1>r DEF ChangePasswordSave, Held, RequestRow
    <2>3. Profiles'
      BY <1>6, <2>2 DEF ChangePasswordSave, SaveUser, Profiles
    <2> QED BY <1>6, <2>1, <2>3 DEF ChangePasswordSave, Owned
  <1>7. CASE DeleteProfileCommit(w)
    <2>1. Work'
      BY <1>7, DoneWork DEF DeleteProfileCommit
    <2>2. req[w].user \in member
      BY <1>7, <1>r DEF DeleteProfileCommit, Held
    <2>3. Owned'
      BY <1>7, WithoutOwned DEF DeleteProfileCommit
    <2> QED BY <1>7, <2>1, <2>2, <2>3 DEF DeleteProfileCommit, Profiles
  <1>8. CASE WorkerDies(w) /\ UNCHANGED token
    <2>1. Work'
      BY <1>8, DoneWork DEF WorkerDies
    <2> QED BY <1>8, <2>1 DEF WorkerDies, Profiles, Owned
  <1> QED BY <1>1, <1>2, <1>3, <1>4, <1>5, <1>6, <1>7, <1>8 DEF Proceed

\* The admin site overlaps with whatever runs.
LEMMA AdminKeeps ==
  ASSUME Sound, AdminStep, UNCHANGED codeVars
  PROVE  Profiles' /\ Owned' /\ Work'
  <1> USE DEF Sound, codeVars, directory
  <1>1. ASSUME NEW u \in Users, NEW mark \in BOOLEAN, AdminSavesUser(u, mark, password[u])
        PROVE  Profiles' /\ Owned' /\ Work'
    <2>1. Work'
      BY <1>1, IntrudeWork DEF AdminSavesUser
    <2>2. Profiles'
      BY <1>1 DEF AdminSavesUser, Profiles
    <2> QED BY <1>1, <2>1, <2>2 DEF AdminSavesUser, Owned
  <1>2. ASSUME NEW g \in Gadgets, NEW u \in Users, NEW verified \in BOOLEAN, AdminSavesGadget(g, u, verified)
        PROVE  Profiles' /\ Owned' /\ Work'
    <2>1. PICK c : c = {gadget[g].user, u, gadget[g].identifier}
      OBVIOUS
    <2>2. Work'
      BY <1>2, <2>1, IntrudeWork DEF AdminSavesGadget
    <2>3. [gadget[g] EXCEPT !.user = u, !.verified = verified] \in GadgetRow /\ u \in member
      BY <1>2 DEF AdminSavesGadget, Present, Owned, GadgetRow
    <2>4. gadget' = [gadget EXCEPT ![g] = [gadget[g] EXCEPT !.user = u, !.verified = verified]]
      BY <1>2 DEF AdminSavesGadget, Owned
    <2>5. [gadget[g] EXCEPT !.user = u, !.verified = verified].user = u
      BY <1>2 DEF AdminSavesGadget, Present, Owned, GadgetRow
    <2>6. Owned'
      BY <1>2, <2>3, <2>4, <2>5 DEF AdminSavesGadget, Owned, GadgetRow, Absent
    <2> QED BY <1>2, <2>2, <2>6 DEF AdminSavesGadget, Profiles
  <1>3. ASSUME NEW g \in Gadgets, AdminDeletesGadget(g)
        PROVE  Profiles' /\ Owned' /\ Work'
    <2>1. PICK c : c = {gadget[g].user, gadget[g].identifier}
      OBVIOUS
    <2>2. Work'
      BY <1>3, <2>1, IntrudeWork DEF AdminDeletesGadget
    <2>3. Owned'
      BY <1>3, WithoutOwned DEF AdminDeletesGadget
    <2> QED BY <1>3, <2>2, <2>3 DEF AdminDeletesGadget, Profiles
  <1>4. ASSUME NEW u \in Users, AdminToken(u)
        PROVE  Profiles' /\ Owned' /\ Work'
    <2>1. Work'
      BY <1>4, SameWork DEF AdminToken
    <2> QED BY <1>4, <2>1 DEF AdminToken, Profiles, Owned
  <1> QED BY <1>1, <1>2, <1>3, <1>4 DEF AdminStep

LEMMA TokenKeeps ==
  ASSUME Sound, TokenStep, UNCHANGED codeVars
  PROVE  Profiles' /\ Owned' /\ Work'
  <1> USE DEF Sound, codeVars, directory
  <1>1. ASSUME NEW i \in Identifiers, NEW pw \in Passwords, ObtainTokenPair(i, pw)
        PROVE  Profiles' /\ Owned' /\ Work'
    <2>1. Work'
      BY <1>1, SameWork DEF ObtainTokenPair
    <2>2. PICK u \in Credentials(i, pw) : token' = token \cup {u}
      BY <1>1 DEF ObtainTokenPair
    <2>3. u \in member
      BY <2>2 DEF Credentials, Named, Present, Owned
    <2> QED BY <1>1, <2>1, <2>2, <2>3 DEF ObtainTokenPair, Profiles, Owned
  <1>2. ASSUME NEW u \in Users, TokenExpires(u)
        PROVE  Profiles' /\ Owned' /\ Work'
    <2>1. Work'
      BY <1>2, SameWork DEF TokenExpires
    <2> QED BY <1>2, <2>1 DEF TokenExpires, Profiles, Owned
  <1> QED BY <1>1, <1>2 DEF TokenStep

LEMMA CleanupKeeps ==
  ASSUME Sound, CleanupStep, UNCHANGED codeVars
  PROVE  Profiles' /\ Owned' /\ Work'
  <1> USE DEF Sound, codeVars, directory
  <1>1. ASSUME NEW g \in Gadgets, GadgetAges(g)
        PROVE  Profiles' /\ Owned' /\ Work'
    <2>1. Work'
      BY <1>1, SameWork DEF GadgetAges
    <2>2. [gadget[g] EXCEPT !.old = TRUE] \in GadgetRow /\ gadget[g].user \in member
      BY <1>1 DEF GadgetAges, Present, Owned, GadgetRow
    <2>3. gadget' = [gadget EXCEPT ![g] = [gadget[g] EXCEPT !.old = TRUE]]
      BY <1>1 DEF GadgetAges, Owned
    <2>4. [gadget[g] EXCEPT !.old = TRUE].user = gadget[g].user
      BY <1>1 DEF GadgetAges, Present, Owned, GadgetRow
    <2>5. Owned'
      BY <1>1, <2>2, <2>3, <2>4 DEF GadgetAges, Owned, GadgetRow, Absent
    <2> QED BY <1>1, <2>1, <2>5 DEF GadgetAges, Profiles
  <1>2. CASE CleanupSelect
    <2>1. Work'
      BY <1>2, SameWork DEF CleanupSelect
    <2> QED BY <1>2, <2>1 DEF CleanupSelect, Unconfirmed, Present, Profiles, Owned
  <1>3. CASE CleanupDelete
    <2>1. PICK c : c = (UNION {{gadget[g].user, gadget[g].identifier} : g \in doomed}) \ {NoUser}
      OBVIOUS
    <2>2. Work'
      BY <1>3, <2>1, IntrudeWork DEF CleanupDelete
    <2>3. Owned'
      BY <1>3, WithoutOwned DEF CleanupDelete
    <2> QED BY <1>3, <2>2, <2>3 DEF CleanupDelete, Profiles
  <1>4. CASE CleanupFails
    <2>1. Work'
      BY <1>4, SameWork DEF CleanupFails
    <2> QED BY <1>4, <2>1 DEF CleanupFails, Profiles, Owned
  <1> QED BY <1>1, <1>2, <1>3, <1>4 DEF CleanupStep

-----------------------------------------------------------------------------
\* A code that is presented was sent: it is in the cache under the purpose's key.
LEMMA PresentKeeps ==
  ASSUME Sound, NEW w \in Workers, BeginCode(w)
  PROVE  Profiles' /\ Owned' /\ Work' /\ CachedCodesWereSent'
  <1> USE DEF Sound
  <1>0. PICK purpose \in Purposes, i \in Identifiers, pw \in Passwords :
          \E c \in Known(i) : PresentCode(w, purpose, i, c, pw)
    BY DEF BeginCode
  <1>1. PICK c \in Known(i) : PresentCode(w, purpose, i, c, pw)
    BY <1>0
  <1>2. UNCHANGED <<directory, doomed, token, codeVars>>
    BY <1>1 DEF PresentCode
  <1>3. c \in Codes
    BY MockAssumption DEF Known, CachedCodesWereSent
  <1> DEFINE r == [Idle EXCEPT !.step = "burn", !.purpose = purpose, !.identifiers = {i},
                               !.code = c, !.password = pw]
  <1>4. /\ r \in RequestRow /\ r.user = NoUser /\ r.step = "burn"
        /\ r.code = c /\ r.purpose = purpose /\ r.identifiers = {i}
    BY <1>3 DEF RequestRow, Idle, Steps
  <1>5. Continue(w, r)
    BY <1>1 DEF PresentCode
  <1>6. c # MockCode => cache[<<purpose, i>>] = c
    BY <1>1 DEF PresentCode, Matches, Key
  <1>7. c # MockCode => \E m \in received : m.code = c /\ m.purpose = purpose /\ m.to = i
    BY <1>3, <1>6, DirectoryAssumption DEF CachedCodesWereSent
  <1> HIDE DEF r
  <1>8. Held(r)'
    BY <1>2, <1>4, <1>7 DEF Held, Sent, codeVars
  <1>9. Work'
    BY <1>2, <1>4, <1>5, <1>8, ContinueWork DEF directory, codeVars
  <1> QED BY <1>2, <1>9 DEF Profiles, Owned, CachedCodesWereSent, directory, codeVars

\* The code is burnt, and what it was sent for is done.
LEMMA BurnKeeps ==
  ASSUME Sound, NEW w \in Workers, BurnCode(w)
  PROVE  Profiles' /\ Owned' /\ Work' /\ CachedCodesWereSent'
  <1> USE DEF Sound
  <1>r. req[w] \in RequestRow /\ Held(req[w]) /\ req[w].step = "burn"
    BY DEF Work, BurnCode
  <1>1. UNCHANGED <<directory, doomed, token, received>>
    BY DEF BurnCode
  <1>2. used' \in [Codes \cup {NoCode, MockCode} -> Nat]
    <2>1. PICK c \in Codes \cup {NoCode, MockCode} : c = req[w].code
      BY <1>r DEF RequestRow
    <2>2. used' = [used EXCEPT ![c] = used[c] + 1]
      BY <2>1 DEF BurnCode
    <2>3. used[c] + 1 \in Nat
      BY DEF CachedCodesWereSent
    <2> QED BY <2>2, <2>3 DEF CachedCodesWereSent
  <1>3. PICK i \in req[w].identifiers :
          /\ cache' = [cache EXCEPT ![Key(req[w].purpose, i)] = NoCode]
          /\ \/ Named(i) = {} /\ Done(w)
             \/ \E g \in Named(i) :
                  Continue(w, IF req[w].purpose = "otp"
                              THEN [req[w] EXCEPT !.step = "verify", !.gadget = g]
                              ELSE [req[w] EXCEPT !.step = "reset", !.user = gadget[g].user,
                                                  !.deleted = gadget[g].user \in deleted])
    BY DEF BurnCode
  <1>4. CachedCodesWereSent'
    <2>1. cache' \in [Keys -> Codes \cup {NoCode}]
      BY <1>3 DEF CachedCodesWereSent
    <2>2. \A k \in Keys : cache'[k] # NoCode => cache'[k] = cache[k]
      BY <1>3 DEF CachedCodesWereSent
    <2>3. \A purpose \in Purposes, j \in Identifiers : <<purpose, j>> \in Keys
      BY DEF Keys
    <2> QED BY <1>1, <1>2, <2>1, <2>2, <2>3 DEF CachedCodesWereSent
  <1>5. Work'
    <2>1. CASE Done(w)
      BY <1>1, <2>1, DoneWork DEF directory
    <2>2. ASSUME NEW g \in Named(i), req[w].purpose = "otp",
                 Continue(w, [req[w] EXCEPT !.step = "verify", !.gadget = g])
          PROVE  Work'
      <3> DEFINE x == [req[w] EXCEPT !.step = "verify", !.gadget = g]
      <3>x. /\ x \in RequestRow /\ x.user = req[w].user /\ x.step = "verify"
            /\ x.code = req[w].code /\ x.purpose = req[w].purpose
            /\ x.identifiers = req[w].identifiers /\ Continue(w, x)
        BY <1>r, <2>2 DEF RequestRow, Steps, Named, Present
      <3> HIDE DEF x
      <3>1. PICK r \in RequestRow : r = x
        BY <3>x
      <3>2. Continue(w, r)
        BY <3>x, <3>1
      <3>3. /\ r.user = req[w].user /\ r.step = "verify" /\ r.code = req[w].code
            /\ r.purpose = req[w].purpose /\ r.identifiers = req[w].identifiers
        BY <3>x, <3>1
      <3>4. Held(r)
        BY <1>r, <3>3 DEF Held, Sent
      <3>5. Held(r)'
        BY <1>1, <3>4 DEF Held, Sent, directory
      <3> QED BY <1>1, <3>2, <3>5, ContinueWork DEF directory
    <2>3. ASSUME NEW g \in Named(i), req[w].purpose # "otp",
                 Continue(w, [req[w] EXCEPT !.step = "reset", !.user = gadget[g].user,
                                            !.deleted = gadget[g].user \in deleted])
          PROVE  Work'
      <3>0. gadget[g].user \in member /\ gadget[g].user \in Users
        BY DEF Named, Present, Owned, Profiles
      <3> DEFINE b == gadget[g].user \in deleted
                 x == [req[w] EXCEPT !.step = "reset", !.user = gadget[g].user, !.deleted = b]
      <3>y. Continue(w, x)
        BY <2>3
      <3>b. b \in BOOLEAN
        OBVIOUS
      <3>u. PICK u \in Users : u = gadget[g].user
        BY <3>0
      <3> HIDE DEF b
      <3>x. /\ x \in RequestRow /\ x.user = u /\ x.step = "reset"
            /\ x.code = req[w].code /\ x.purpose = req[w].purpose
            /\ x.identifiers = req[w].identifiers
        BY <1>r, <3>b, <3>u DEF RequestRow, Steps
      <3> HIDE DEF x
      <3>1. PICK r \in RequestRow : r = x
        BY <3>x
      <3>2. Continue(w, r)
        BY <3>y, <3>1
      <3>3. /\ r.user = u /\ r.step = "reset" /\ r.code = req[w].code
            /\ r.purpose = req[w].purpose /\ r.identifiers = req[w].identifiers
        BY <3>x, <3>1
      <3>4. Held(r)
        BY <1>r, <3>0, <3>u, <3>3 DEF Held, Sent
      <3>5. Held(r)'
        BY <1>1, <3>4 DEF Held, Sent, directory
      <3> QED BY <1>1, <3>2, <3>5, ContinueWork DEF directory
    <2> QED BY <1>3, <2>1, <2>2, <2>3
  <1> QED BY <1>1, <1>4, <1>5 DEF Profiles, Owned, directory

LEMMA ServeKeeps ==
  ASSUME Sound, NEW w \in Workers, VerifySave(w) \/ ResetSave(w)
  PROVE  Profiles' /\ Owned' /\ Work' /\ CachedCodesWereSent'
  <1> USE DEF Sound
  <1>r. req[w] \in RequestRow /\ Held(req[w])
    BY DEF Work
  <1>1. UNCHANGED codeVars
    BY DEF VerifySave, ResetSave
  <1>2. CachedCodesWereSent'
    BY <1>1 DEF CachedCodesWereSent, codeVars
  <1>3. CASE VerifySave(w)
    <2>1. Work'
      BY <1>1, <1>3, DoneWork DEF VerifySave, codeVars
    <2>2. ASSUME NEW g \in Gadgets
          PROVE  /\ gadget'[g] \in GadgetRow \cup {Absent}
                 /\ gadget'[g] # Absent => gadget[g] # Absent /\ gadget'[g].user = gadget[g].user
      <3>1. CASE g # req[w].gadget
        BY <1>3, <3>1 DEF VerifySave, Owned
      <3>2. CASE g = req[w].gadget /\ gadget[g] = Absent
        <4>1. g \notin Present
          BY <3>2 DEF Present
        <4>2. gadget'[g] = [Absent EXCEPT !.verified = Absent.verified \/ req[w].gadget \in Present]
          BY <1>3, <3>2 DEF VerifySave, Owned
        <4> QED BY <3>2, <4>1, <4>2 DEF Absent
      <3>3. CASE g = req[w].gadget /\ gadget[g] # Absent
        <4>1. gadget[g] \in GadgetRow
          BY <3>3 DEF Owned
        <4>2. gadget'[g] = [gadget[g] EXCEPT !.verified = gadget[g].verified \/ req[w].gadget \in Present]
          BY <1>3, <3>3 DEF VerifySave, Owned
        <4>3. (gadget[g].verified \/ req[w].gadget \in Present) \in BOOLEAN
          OBVIOUS
        <4> QED BY <3>3, <4>1, <4>2, <4>3 DEF GadgetRow
      <3> QED BY <3>1, <3>2, <3>3
    <2>3. gadget' = [g \in Gadgets |-> gadget'[g]]
      BY <1>3 DEF VerifySave, Owned
    <2>4. gadget' \in [Gadgets -> GadgetRow \cup {Absent}]
      BY <2>2, <2>3
    <2>5. \A g \in Gadgets : gadget'[g] # Absent => gadget'[g].user \in member'
      BY <1>3, <2>2 DEF VerifySave, Owned
    <2>6. Owned'
      BY <2>4, <2>5 DEF Owned, GadgetRow, Absent
    <2> QED BY <1>2, <1>3, <2>1, <2>6 DEF VerifySave, Profiles
  <1>4. CASE ResetSave(w)
    <2>1. Work'
      BY <1>1, <1>4, DoneWork DEF ResetSave, codeVars
    <2>2. req[w].user \in member /\ req[w].password \in Passwords \cup {NoPassword}
      BY <1>4, <1>r DEF ResetSave, Held, RequestRow
    <2>3. Profiles'
      BY <1>4, <2>2 DEF ResetSave, SaveUser, Profiles
    <2> QED BY <1>2, <1>4, <2>1, <2>3 DEF ResetSave, Owned
  <1> QED BY <1>3, <1>4

LEMMA SendKeeps ==
  ASSUME Sound, NEW purpose \in Purposes, NEW i \in Identifiers, SendCode(purpose, i)
  PROVE  Profiles' /\ Owned' /\ Work' /\ CachedCodesWereSent'
  <1> USE DEF Sound
  <1>1. PICK c \in Codes :
          /\ cache' = [cache EXCEPT ![<<purpose, i>>] = c]
          /\ received' = received \cup {[code |-> c, purpose |-> purpose, to |-> i]}
    BY DEF SendCode, Key
  <1>2. UNCHANGED <<directory, doomed, token, used>> /\ Intrude({i})
    BY DEF SendCode
  <1>3. Work'
    BY <1>1, <1>2, IntrudeWork DEF directory
  <1>4. CachedCodesWereSent'
    <2>1. cache' \in [Keys -> Codes \cup {NoCode}]
      BY <1>1 DEF CachedCodesWereSent
    <2>2. received' \subseteq [code : Codes, purpose : Purposes, to : Identifiers]
      BY <1>1 DEF CachedCodesWereSent
    <2>3. ASSUME NEW p \in Purposes, NEW j \in Identifiers, cache'[<<p, j>>] # NoCode
          PROVE  \E m \in received' : m.code = cache'[<<p, j>>] /\ m.purpose = p /\ m.to = j
      <3>k. <<p, j>> \in Keys
        BY DEF Keys
      <3>1. CASE <<p, j>> = <<purpose, i>>
        <4>1. p = purpose /\ j = i /\ cache'[<<p, j>>] = c
          BY <1>1, <3>k, <3>1 DEF CachedCodesWereSent
        <4>2. [code |-> c, purpose |-> purpose, to |-> i] \in received'
          BY <1>1
        <4> QED BY <4>1, <4>2
      <3>2. CASE <<p, j>> # <<purpose, i>>
        <4>1. cache'[<<p, j>>] = cache[<<p, j>>]
          BY <1>1, <3>k, <3>2 DEF CachedCodesWereSent
        <4> QED BY <1>1, <2>3, <4>1 DEF CachedCodesWereSent
      <3> QED BY <3>1, <3>2
    <2> QED BY <1>2, <2>1, <2>2, <2>3 DEF CachedCodesWereSent
  <1> QED BY <1>2, <1>3, <1>4 DEF Profiles, Owned, directory

LEMMA ExpiryKeeps ==
  ASSUME Sound, NEW k \in Keys, CodeExpires(k)
  PROVE  Profiles' /\ Owned' /\ Work' /\ CachedCodesWereSent'
  <1> USE DEF Sound
  <1>1. /\ cache' = [cache EXCEPT ![k] = NoCode]
        /\ UNCHANGED <<directory, doomed, req, token, received, used>>
    BY DEF CodeExpires
  <1>2. Work'
    BY <1>1, SameWork DEF directory
  <1>3. \A l \in Keys : cache'[l] # NoCode => cache'[l] = cache[l]
    BY <1>1 DEF CachedCodesWereSent
  <1>4. \A purpose \in Purposes, j \in Identifiers : <<purpose, j>> \in Keys
    BY DEF Keys
  <1>5. cache' \in [Keys -> Codes \cup {NoCode}]
    BY <1>1 DEF CachedCodesWereSent
  <1> QED BY <1>1, <1>2, <1>3, <1>4, <1>5 DEF Profiles, Owned, CachedCodesWereSent, directory

-----------------------------------------------------------------------------
LEMMA InitSound == Init => Sound
  <1> SUFFICES ASSUME Init PROVE Sound
    OBVIOUS
  <1>1. Profiles
    BY DEF Init, Profiles
  <1>2. Owned
    <2>0. PICK owned \in SUBSET Identifiers :
            \E key \in Injection(owned, Gadgets), row \in [owned -> [user : member, verified : BOOLEAN]] :
              gadget = [g \in Gadgets |->
                          IF \E i \in owned : key[i] = g
                          THEN LET i == CHOOSE j \in owned : key[j] = g IN
                               [user |-> row[i].user, identifier |-> i,
                                verified |-> row[i].verified, old |-> FALSE]
                          ELSE Absent]
      BY DEF Init
    <2>1. PICK key \in Injection(owned, Gadgets), row \in [owned -> [user : member, verified : BOOLEAN]] :
            gadget = [g \in Gadgets |->
                        IF \E i \in owned : key[i] = g
                        THEN LET i == CHOOSE j \in owned : key[j] = g IN
                             [user |-> row[i].user, identifier |-> i,
                              verified |-> row[i].verified, old |-> FALSE]
                        ELSE Absent]
      BY <2>0
    <2>2. ASSUME NEW g \in Gadgets, \E i \in owned : key[i] = g
          PROVE  gadget[g] \in GadgetRow /\ gadget[g].user \in member
      <3>1. PICK i \in owned : i = CHOOSE j \in owned : key[j] = g
        BY <2>2
      <3>2. row[i] \in [user : member, verified : BOOLEAN] /\ i \in Identifiers
        OBVIOUS
      <3>3. gadget[g] = [user |-> row[i].user, identifier |-> i,
                         verified |-> row[i].verified, old |-> FALSE]
        BY <2>1, <2>2, <3>1
      <3> QED BY <1>1, <3>2, <3>3 DEF GadgetRow, Profiles
    <2>3. ASSUME NEW g \in Gadgets, ~\E i \in owned : key[i] = g
          PROVE  gadget[g] = Absent
      BY <2>1, <2>3
    <2>4. gadget = [g \in Gadgets |-> gadget[g]]
      BY <2>1
    <2> QED BY <2>2, <2>3, <2>4 DEF Owned
  <1>3. Work
    BY IdleRequest DEF Init, Work
  <1>4. CachedCodesWereSent
    BY DEF Init, CodesInit, CachedCodesWereSent, Keys
  <1> QED BY <1>1, <1>2, <1>3, <1>4, RequestsAssumption DEF Init, Sound

LEMMA NextSound == Sound /\ [Next]_vars => Sound'
  <1> SUFFICES ASSUME Sound, [Next]_vars PROVE Sound'
    OBVIOUS
  <1>1. CASE UNCHANGED vars
    <2>1. Work'
      BY <1>1, SameWork DEF vars, directory, codeVars, Sound
    <2> QED BY <1>1, <2>1 DEF vars, directory, codeVars, Sound, Profiles, Owned, CachedCodesWereSent
  <1>2. CASE Next
    <2>1. requests' \in 0 .. MaxRequests
      BY <1>2, RequestsAssumption DEF Next, Sound
    <2>2. UNCHANGED codeVars => CachedCodesWereSent'
      BY DEF Sound, CachedCodesWereSent, codeVars
    <2>3. CASE AdminStep /\ UNCHANGED codeVars
      BY <2>1, <2>2, <2>3, AdminKeeps DEF Sound
    <2>4. ASSUME NEW w \in Workers, Begin(w), UNCHANGED codeVars PROVE Sound'
      BY <2>1, <2>2, <2>4, BeginKeeps DEF Sound
    <2>5. ASSUME NEW w \in Workers, BeginCode(w) PROVE Sound'
      BY <2>1, <2>5, PresentKeeps DEF Sound
    <2>6. ASSUME NEW purpose \in Purposes, NEW i \in Identifiers, SendCode(purpose, i) PROVE Sound'
      BY <2>1, <2>6, SendKeeps DEF Sound
    <2>7. CASE TokenStep /\ UNCHANGED codeVars
      BY <2>1, <2>2, <2>7, TokenKeeps DEF Sound
    <2>8. CASE CleanupStep /\ UNCHANGED codeVars
      BY <2>1, <2>2, <2>8, CleanupKeeps DEF Sound
    <2>9. ASSUME NEW w \in Workers, Proceed(w), UNCHANGED codeVars PROVE Sound'
      BY <2>1, <2>2, <2>9, ProceedKeeps DEF Sound
    <2>10. ASSUME NEW w \in Workers, ProceedCode(w) PROVE Sound'
      BY <2>1, <2>10, BurnKeeps, ServeKeeps DEF Sound, ProceedCode
    <2>11. ASSUME NEW k \in Keys, CodeExpires(k) PROVE Sound'
      BY <2>1, <2>11, ExpiryKeeps DEF Sound
    <2> QED BY <1>2, <2>3, <2>4, <2>5, <2>6, <2>7, <2>8, <2>9, <2>10, <2>11 DEF Next
  <1> QED BY <1>1, <1>2

\* The tables stay well-formed: whatever overlaps or dies, a gadget and a token
\* belong to a user with a row (UserManager, RegistrationService.register).
THEOREM IdentityTypes == Spec => []TypeOK
  <1>1. Spec => []Sound
    BY InitSound, NextSound, PTL DEF Spec
  <1> QED BY <1>1, SoundIsTyped, PTL

\* No request verifies a gadget or resets a password on a code that was sent for
\* another purpose or to another identifier, however requests, deliveries and
\* expiries interleave (both verify_otp_code).
THEOREM CodesAreServed == Spec => []CodesServeTheirPurpose
  <1>1. Spec => []Sound
    BY InitSound, NextSound, PTL DEF Spec
  <1> QED BY <1>1, SoundServes, PTL

-----------------------------------------------------------------------------
(***************************************************************************)
(* What is true of a request that ran alone.  "alone" is no lock: it says    *)
(* afterwards that nobody else worked on the same user or identifier, and    *)
(* then the rows are as the request left them in hand.                      *)
(***************************************************************************)
Apart ==
  \A v, w \in Workers :
    v # w /\ req[v].alone => Concerns(req[v]) \cap Concerns(req[w]) \subseteq {NoUser}

\* What every request knows of its rows: a gadget keeps its identifier.
Grasp(r) ==
  /\ r.step \in {"burn", "verify", "reset"} => \E i \in Identifiers : r.identifiers = {i}
  /\ r.step \in {"create", "count", "delete", "password", "profile", "reset"} => r.user \in Users
  /\ r.gadget \in Present => gadget[r.gadget].identifier \in r.identifiers

\* What a request knows that ran alone.
Current(r) ==
  /\ r.step \in {"create", "password"} => r.user \notin deleted
  /\ r.step = "password" => ~r.deleted
  /\ r.step = "reset" => (r.deleted <=> r.user \in deleted)
  /\ r.step \in {"count", "delete"} /\ r.gadget \in Present => gadget[r.gadget].user = r.user
  /\ r.step = "delete" /\ r.gadget \in Present /\ gadget[r.gadget].verified =>
       VerifiedOf(r.user) \ {r.gadget} # {}
  /\ r.step = "burn" /\ r.code # MockCode =>
       /\ used[r.code] = 0
       /\ \A i \in r.identifiers : cache[<<r.purpose, i>>] \in {NoCode, r.code}

Touch ==
  \A v \in Workers, r \in RequestRow : r = req[v] => Grasp(r) /\ (r.alone => Current(r))

\* A code is sent once, and one that was used is nowhere in the cache.
FreshCodes ==
  /\ \A m, n \in received : m.code = n.code => m = n
  /\ \A k \in Keys : cache[k] \notin {NoCode, MockCode} => used[cache[k]] = 0

Aware == Sound /\ Apart /\ Touch /\ FreshCodes

-----------------------------------------------------------------------------
\* Two requests that differ in the note on overlaps only.
Carries(q, r) ==
  /\ q.step = r.step /\ q.user = r.user /\ q.gadget = r.gadget
  /\ q.identifiers = r.identifiers /\ q.deleted = r.deleted
  /\ q.code = r.code /\ q.purpose = r.purpose

\* Request v did not move.
Lowered(v) == Carries(req'[v], req[v]) /\ (req'[v].alone => req[v].alone)

\* What a step leaves of the rows of request r: the gadget keeps its identifier ...
KeptRow(r) ==
  r.gadget \in Present' =>
    r.gadget \in Present /\ gadget'[r.gadget].identifier = gadget[r.gadget].identifier

\* ... and, if nobody met it, what it knows of the gadget and its owner, ...
KeptOwner(r) ==
  r.step \in {"count", "delete"} =>
    /\ VerifiedOf(r.user) \subseteq VerifiedOf(r.user)'
    /\ r.gadget \in Present' =>
         /\ gadget'[r.gadget].user = gadget[r.gadget].user
         /\ gadget'[r.gadget].verified => gadget[r.gadget].verified

\* ... of the mark of its user, ...
KeptMark(r) ==
  r.step \in {"create", "password", "reset"} => (r.user \in deleted' <=> r.user \in deleted)

\* ... and of its code.
KeptCode(r) ==
  r.step = "burn" /\ r.code # MockCode =>
    /\ used'[r.code] = used[r.code]
    /\ \A i \in r.identifiers : cache'[<<r.purpose, i>>] \in {NoCode, cache[<<r.purpose, i>>]}

Untouched(r) == KeptOwner(r) /\ KeptMark(r) /\ KeptCode(r)

LEMMA RowFields ==
  ASSUME NEW r \in RequestRow, NEW b \in BOOLEAN
  PROVE  LET x == [r EXCEPT !.alone = b] IN
         x \in RequestRow /\ Carries(x, r) /\ x.alone = b
  BY DEF RequestRow, Carries

LEMMA ContinueMoves ==
  ASSUME Work, NEW w \in Workers, NEW r \in RequestRow, Continue(w, r)
  PROVE  /\ \A v \in Workers \ {w} :
              Lowered(v) /\ (req'[v].alone => Concerns(req[v]) \cap Concerns(r) \subseteq {NoUser})
         /\ Carries(req'[w], r)
         /\ req'[w].alone => r.alone
         /\ req'[w].alone =>
              \A v \in Workers \ {w} : Concerns(req[v]) \cap Concerns(r) \subseteq {NoUser}
  <1> DEFINE x == [r EXCEPT !.alone = r.alone /\ Others(w, r) = {}]
             y(v) == [req[v] EXCEPT !.alone = req[v].alone /\ v \notin Others(w, r)]
  <1>1. req' = [v \in Workers |-> IF v = w THEN x ELSE y(v)]
    BY DEF Continue, Work
  <1>2. r.alone \in BOOLEAN /\ \A v \in Workers : req[v] \in RequestRow /\ req[v].alone \in BOOLEAN
    BY DEF Work, RequestRow
  <1>3. Carries(x, r) /\ x.alone = (r.alone /\ Others(w, r) = {})
    BY <1>2, RowFields
  <1>4. ASSUME NEW v \in Workers
        PROVE  Carries(y(v), req[v]) /\ y(v).alone = (req[v].alone /\ v \notin Others(w, r))
    <2>1. PICK b \in BOOLEAN : b = (req[v].alone /\ v \notin Others(w, r))
      OBVIOUS
    <2>2. y(v) = [req[v] EXCEPT !.alone = b]
      BY <2>1
    <2> HIDE DEF x, y
    <2>3. Carries(y(v), req[v]) /\ y(v).alone = b
      BY <1>2, <2>2, RowFields
    <2> QED BY <2>1, <2>3
  <1>5. req'[w] = x /\ \A v \in Workers \ {w} : req'[v] = y(v)
    BY <1>1
  <1> HIDE DEF x, y
  <1>6. ASSUME NEW v \in Workers \ {w}, v \notin Others(w, r)
        PROVE  Concerns(req[v]) \cap Concerns(r) \subseteq {NoUser}
    BY <1>6 DEF Others
  <1> QED BY <1>3, <1>4, <1>5, <1>6 DEF Lowered

LEMMA IntrudeMoves ==
  ASSUME Work, NEW c, Intrude(c)
  PROVE  \A v \in Workers : Lowered(v) /\ (req'[v].alone => Concerns(req[v]) \cap c = {})
  <1> DEFINE y(v) == [req[v] EXCEPT !.alone = req[v].alone /\ Concerns(req[v]) \cap c = {}]
  <1>1. req' = [v \in Workers |-> y(v)]
    BY DEF Intrude, Work
  <1>2. \A v \in Workers : req[v] \in RequestRow /\ req[v].alone \in BOOLEAN
    BY DEF Work, RequestRow
  <1>3. ASSUME NEW v \in Workers
        PROVE  Carries(y(v), req[v]) /\ y(v).alone = (req[v].alone /\ Concerns(req[v]) \cap c = {})
    <2>1. PICK b \in BOOLEAN : b = (req[v].alone /\ Concerns(req[v]) \cap c = {})
      OBVIOUS
    <2> QED BY <1>2, <2>1, RowFields
  <1> HIDE DEF y
  <1> QED BY <1>1, <1>3 DEF Lowered

LEMMA DoneWithMoves ==
  ASSUME Work, NEW w \in Workers, NEW c, DoneWith(w, c)
  PROVE  /\ req'[w] = Idle
         /\ \A v \in Workers \ {w} : Lowered(v) /\ (req'[v].alone => Concerns(req[v]) \cap c = {})
  <1> DEFINE y(v) == [req[v] EXCEPT !.alone = req[v].alone /\ Concerns(req[v]) \cap c = {}]
  <1>1. req' = [v \in Workers |-> IF v = w THEN Idle ELSE y(v)]
    BY DEF DoneWith, Work
  <1>2. \A v \in Workers : req[v] \in RequestRow /\ req[v].alone \in BOOLEAN
    BY DEF Work, RequestRow
  <1>3. ASSUME NEW v \in Workers
        PROVE  Carries(y(v), req[v]) /\ y(v).alone = (req[v].alone /\ Concerns(req[v]) \cap c = {})
    <2>1. PICK b \in BOOLEAN : b = (req[v].alone /\ Concerns(req[v]) \cap c = {})
      OBVIOUS
    <2> QED BY <1>2, <2>1, RowFields
  <1> HIDE DEF y
  <1> QED BY <1>1, <1>3 DEF Lowered

LEMMA DoneMoves ==
  ASSUME Work, NEW w \in Workers, Done(w)
  PROVE  req'[w] = Idle /\ \A v \in Workers \ {w} : Lowered(v)
  BY DEF Work, Done, Lowered, Carries

LEMMA SameMoves == req' = req => \A v \in Workers : Lowered(v)
  BY DEF Lowered, Carries

-----------------------------------------------------------------------------
LEMMA ContinueApart ==
  ASSUME Work, Apart, NEW w \in Workers, NEW r \in RequestRow, Continue(w, r)
  PROVE  Apart'
  <1> SUFFICES ASSUME NEW v \in Workers, NEW x \in Workers, v # x, req'[v].alone
               PROVE  Concerns(req'[v]) \cap Concerns(req'[x]) \subseteq {NoUser}
    BY DEF Apart, Concerns
  <1>1. /\ \A z \in Workers \ {w} :
              Lowered(z) /\ (req'[z].alone => Concerns(req[z]) \cap Concerns(r) \subseteq {NoUser})
        /\ Carries(req'[w], r)
        /\ req'[w].alone =>
             \A z \in Workers \ {w} : Concerns(req[z]) \cap Concerns(r) \subseteq {NoUser}
    BY ContinueMoves
  <1>2. Concerns(req'[w]) = Concerns(r)
    BY <1>1 DEF Concerns, Carries
  <1>3. \A z \in Workers \ {w} : Concerns(req'[z]) = Concerns(req[z])
    BY <1>1 DEF Concerns, Carries, Lowered
  <1>4. CASE v = w
    BY <1>1, <1>2, <1>3, <1>4
  <1>5. CASE x = w
    BY <1>1, <1>2, <1>3, <1>5
  <1>6. CASE v # w /\ x # w
    BY <1>1, <1>3, <1>6 DEF Lowered, Apart
  <1> QED BY <1>4, <1>5, <1>6

LEMMA LoweredApart ==
  ASSUME Apart, \A v \in Workers : req'[v] = Idle \/ Lowered(v)
  PROVE  Apart'
  <1> SUFFICES ASSUME NEW v \in Workers, NEW x \in Workers, v # x, req'[v].alone
               PROVE  Concerns(req'[v]) \cap Concerns(req'[x]) \subseteq {NoUser}
    BY DEF Apart, Concerns
  <1>1. Concerns(Idle) = {NoUser}
    BY DEF Concerns, Idle
  <1>2. \A z \in Workers : Lowered(z) => Concerns(req'[z]) = Concerns(req[z])
    BY DEF Concerns, Carries, Lowered
  <1> QED BY <1>1, <1>2 DEF Lowered, Apart

\* A request that did not move still knows what it knew.
LEMMA OtherTouch ==
  ASSUME Work, Touch, NEW v \in Workers, Lowered(v),
         \A r \in RequestRow : r = req[v] => KeptRow(r) /\ (req'[v].alone => Untouched(r))
  PROVE  \A q \in RequestRow : q = req'[v] => Grasp(q)' /\ (q.alone => Current(q)')
  <1> TAKE q \in RequestRow
  <1> HAVE q = req'[v]
  <1>1. PICK r \in RequestRow : r = req[v]
    BY DEF Work
  <1>2. Carries(q, r) /\ (q.alone => r.alone)
    BY <1>1 DEF Lowered
  <1>3. Grasp(r) /\ (r.alone => Current(r))
    BY <1>1 DEF Touch
  <1>4. KeptRow(r) /\ (q.alone => Untouched(r))
    BY <1>1
  <1>5. Grasp(q)'
    BY <1>2, <1>3, <1>4 DEF Grasp, KeptRow, Carries
  <1>6. ASSUME q.alone PROVE Current(q)'
    <2>1. Current(r) /\ KeptOwner(r) /\ KeptMark(r) /\ KeptCode(r) /\ KeptRow(r)
      BY <1>2, <1>3, <1>4, <1>6 DEF Untouched
    <2>2. Current(r)'
      <3>1. r.step \in {"create", "password"} => r.user \notin deleted'
        BY <2>1 DEF Current, KeptMark
      <3>2. r.step = "password" => ~r.deleted
        BY <2>1 DEF Current
      <3>3. r.step = "reset" => (r.deleted <=> r.user \in deleted')
        BY <2>1 DEF Current, KeptMark
      <3>4. r.step \in {"count", "delete"} /\ r.gadget \in Present' => gadget'[r.gadget].user = r.user
        BY <2>1 DEF Current, KeptOwner, KeptRow
      <3>5. r.step = "delete" /\ r.gadget \in Present' /\ gadget'[r.gadget].verified =>
              VerifiedOf(r.user)' \ {r.gadget} # {}
        BY <2>1 DEF Current, KeptOwner, KeptRow
      <3>6. r.step = "burn" /\ r.code # MockCode =>
              /\ used'[r.code] = 0
              /\ \A i \in r.identifiers : cache'[<<r.purpose, i>>] \in {NoCode, r.code}
        BY <2>1 DEF Current, KeptCode
      <3> QED BY <3>1, <3>2, <3>3, <3>4, <3>5, <3>6 DEF Current
    <2> QED BY <1>2, <2>2 DEF Current, Carries
  <1> QED BY <1>5, <1>6

LEMMA IdleTouch == \A q \in RequestRow : q = Idle => Grasp(q)' /\ Current(q)'
  BY DirectoryAssumption DEF Idle, Grasp, Current, Present

\* The two ways a step may treat the requests, and what is left to show for each.
LEMMA StayTouch ==
  ASSUME Work, Touch,
         \A v \in Workers :
           \/ req'[v] = Idle
           \/ /\ Lowered(v)
              /\ \A r \in RequestRow : r = req[v] => KeptRow(r) /\ (req'[v].alone => Untouched(r))
  PROVE  Touch'
  <1>1. ASSUME NEW v \in Workers
        PROVE  \A q \in RequestRow : q = req'[v] => Grasp(q)' /\ (q.alone => Current(q)')
    <2>1. CASE req'[v] = Idle
      BY <2>1, IdleTouch
    <2>2. CASE /\ Lowered(v)
               /\ \A r \in RequestRow : r = req[v] => KeptRow(r) /\ (req'[v].alone => Untouched(r))
      BY <2>2, OtherTouch
    <2> QED BY <2>1, <2>2
  <1> QED BY <1>1 DEF Touch

LEMMA MoveTouch ==
  ASSUME Work, Touch, NEW w \in Workers, NEW r \in RequestRow, Carries(req'[w], r),
         Grasp(r)', req'[w].alone => Current(r)',
         \A v \in Workers \ {w} :
           /\ Lowered(v)
           /\ \A s \in RequestRow : s = req[v] => KeptRow(s) /\ (req'[v].alone => Untouched(s))
  PROVE  Touch'
  <1>1. ASSUME NEW v \in Workers \ {w}
        PROVE  \A q \in RequestRow : q = req'[v] => Grasp(q)' /\ (q.alone => Current(q)')
    BY OtherTouch
  <1>2. ASSUME NEW q \in RequestRow, q = req'[w]
        PROVE  Grasp(q)' /\ (q.alone => Current(q)')
    <2>1. Carries(q, r)
      BY <1>2
    <2>2. Grasp(q)'
      BY <2>1 DEF Grasp, Carries
    <2>3. Current(r)' => Current(q)'
      BY <2>1 DEF Current, Carries
    <2> QED BY <1>2, <2>2, <2>3
  <1> QED BY <1>1, <1>2 DEF Touch

\* Tables that are left alone.
LEMMA SameTables ==
  ASSUME NEW r \in RequestRow
  PROVE  /\ gadget' = gadget => KeptRow(r) /\ KeptOwner(r)
         /\ deleted' = deleted => KeptMark(r)
         /\ cache' = cache /\ used' = used => KeptCode(r)
         /\ cache' = cache /\ used' = used /\ received' = received /\ FreshCodes => FreshCodes'
  BY DEF KeptRow, KeptOwner, KeptMark, KeptCode, Present, VerifiedOf, GadgetsOf, FreshCodes

-----------------------------------------------------------------------------
\* Steps that leave the tables alone: a request reads and goes on, ...
LEMMA ReadTouch ==
  ASSUME Work, Touch, Apart, FreshCodes, UNCHANGED <<gadget, deleted, cache, used, received>>,
         NEW w \in Workers, NEW r \in RequestRow, Continue(w, r), Grasp(r), r.alone => Current(r)
  PROVE  Apart' /\ Touch' /\ FreshCodes'
  <1>1. /\ \A v \in Workers \ {w} : Lowered(v)
        /\ Carries(req'[w], r)
        /\ req'[w].alone => r.alone
    BY ContinueMoves
  <1>2. Grasp(r)'
    BY DEF Grasp, Present
  <1>3. Current(r) => Current(r)'
    BY DEF Current, Present, VerifiedOf, GadgetsOf
  <1>4. \A s \in RequestRow : KeptRow(s) /\ Untouched(s)
    BY SameTables DEF Untouched
  <1>5. Touch'
    BY <1>1, <1>2, <1>3, <1>4, MoveTouch
  <1> QED BY <1>5, ContinueApart DEF FreshCodes

\* ... or requests end or are met.
LEMMA QuietTouch ==
  ASSUME Work, Touch, Apart, FreshCodes, UNCHANGED <<gadget, deleted, cache, used, received>>,
         \A v \in Workers : req'[v] = Idle \/ Lowered(v)
  PROVE  Apart' /\ Touch' /\ FreshCodes'
  <1>1. \A s \in RequestRow : KeptRow(s) /\ Untouched(s)
    BY SameTables DEF Untouched
  <1>2. Touch'
    BY <1>1, StayTouch
  <1> QED BY <1>2, LoweredApart DEF FreshCodes

\* Rows that are inserted take nobody's key and go to one user.
LEMMA InsertRows ==
  ASSUME Owned, NEW u \in Users, NEW is, NEW verified \in BOOLEAN, Insert(u, is, verified)
  PROVE  /\ \A g \in Present : g \in Present' /\ gadget'[g] = gadget[g]
         /\ \A g \in Present' \ Present :
              gadget'[g].user = u /\ \A v \in Workers : req[v].gadget # g
  <1>1. PICK key \in Injection(is, Unused) :
          gadget' = [g \in Gadgets |->
                       IF \E i \in is : key[i] = g
                       THEN [user |-> u, identifier |-> CHOOSE i \in is : key[i] = g,
                             verified |-> verified, old |-> FALSE]
                       ELSE gadget[g]]
    BY DEF Insert
  <1>2. \A i \in is : key[i] \in Unused
    BY DEF Injection, IsInjective
  <1>3. ASSUME NEW g \in Gadgets, \E i \in is : key[i] = g
        PROVE  g \in Unused /\ gadget'[g].user = u
    BY <1>1, <1>2, <1>3
  <1>4. ASSUME NEW g \in Gadgets, ~\E i \in is : key[i] = g
        PROVE  gadget'[g] = gadget[g]
    BY <1>1, <1>4
  <1>5. ASSUME NEW g \in Present PROVE g \in Present' /\ gadget'[g] = gadget[g]
    <2>1. g \in Gadgets /\ g \notin Unused
      BY DEF Present, Unused
    <2> QED BY <1>3, <1>4, <2>1 DEF Present
  <1>6. ASSUME NEW g \in Present' \ Present
        PROVE  gadget'[g].user = u /\ \A v \in Workers : req[v].gadget # g
    <2>1. g \in Gadgets /\ gadget'[g] # gadget[g]
      BY DEF Present
    <2> QED BY <1>3, <1>4, <2>1 DEF Unused
  <1> QED BY <1>5, <1>6

LEMMA InsertKept ==
  ASSUME Owned, NEW u \in Users, NEW is, NEW verified \in BOOLEAN, Insert(u, is, verified),
         NEW v \in Workers, NEW r \in RequestRow, r = req[v]
  PROVE  KeptRow(r) /\ KeptOwner(r)
  <1>1. /\ \A g \in Present : g \in Present' /\ gadget'[g] = gadget[g]
        /\ \A g \in Present' \ Present : \A x \in Workers : req[x].gadget # g
    BY InsertRows
  <1>2. r.gadget \in Present' => r.gadget \in Present /\ gadget'[r.gadget] = gadget[r.gadget]
    BY <1>1
  <1>3. VerifiedOf(r.user) \subseteq VerifiedOf(r.user)'
    BY <1>1 DEF VerifiedOf, GadgetsOf
  <1> QED BY <1>2, <1>3 DEF KeptRow, KeptOwner

\* Rows that are deleted matter to those who own them.
LEMMA WithoutRows ==
  ASSUME Owned, NEW gs, gadget' = Without(gs)
  PROVE  /\ Present' = Present \ gs
         /\ \A g \in Present \ gs : gadget'[g] = gadget[g]
  BY DEF Owned, Without, Present

LEMMA WithoutKept ==
  ASSUME Owned, NEW gs, gadget' = Without(gs), NEW r \in RequestRow
  PROVE  /\ KeptRow(r)
         /\ gs \cap GadgetsOf(r.user) = {} => KeptOwner(r)
  <1>1. /\ Present' = Present \ gs
        /\ \A g \in Present \ gs : gadget'[g] = gadget[g]
    BY WithoutRows
  <1>2. gs \cap GadgetsOf(r.user) = {} => VerifiedOf(r.user) \subseteq VerifiedOf(r.user)'
    BY <1>1 DEF VerifiedOf, GadgetsOf
  <1> QED BY <1>1, <1>2 DEF KeptRow, KeptOwner

\* A request that nobody met works for another user than a request beside it.
LEMMA OtherUser ==
  ASSUME Apart, NEW v \in Workers, NEW w \in Workers, v # w, req[v].alone, req[v].user \in Users
  PROVE  req[v].user # req[w].user
  BY DirectoryAssumption DEF Apart, Concerns

LEMMA OtherIdentifier ==
  ASSUME Apart, NEW v \in Workers, NEW w \in Workers, v # w, req[v].alone,
         NEW i \in Identifiers, i \in req[v].identifiers
  PROVE  i \notin req[w].identifiers
  BY DirectoryAssumption DEF Apart, Concerns

\* A gadget a request has in hand is nobody else's who ran alone.
LEMMA OtherGadget ==
  ASSUME Sound, Apart, Touch, NEW v \in Workers, NEW w \in Workers, v # w, req[v].alone,
         req[v].gadget \in Present
  PROVE  req[v].gadget # req[w].gadget
  <1> SUFFICES ASSUME req[v].gadget = req[w].gadget PROVE FALSE
    OBVIOUS
  <1>1. PICK r \in RequestRow : r = req[v]
    BY DEF Sound, Work
  <1>2. PICK s \in RequestRow : s = req[w]
    BY DEF Sound, Work
  <1>3. Grasp(r) /\ Grasp(s)
    BY <1>1, <1>2 DEF Touch
  <1>4. gadget[r.gadget].identifier \in r.identifiers /\ gadget[r.gadget].identifier \in s.identifiers
    BY <1>1, <1>2, <1>3 DEF Grasp
  <1>5. r.identifiers \subseteq Identifiers
    BY DEF RequestRow
  <1> QED BY <1>1, <1>2, <1>4, <1>5, OtherIdentifier

-----------------------------------------------------------------------------
\* First statements.
LEMMA BeginTouch ==
  ASSUME Aware, NEW w \in Workers, Begin(w), UNCHANGED codeVars
  PROVE  Apart' /\ Touch' /\ FreshCodes'
  <1> USE DEF Aware, Sound, codeVars, directory
  <1>0. NoGadget \notin Present
    BY DirectoryAssumption DEF Present
  <1>1. ASSUME NEW is \in Registrations, NEW pw \in Passwords \cup {NoPassword}, Register(w, is, pw)
        PROVE  Apart' /\ Touch' /\ FreshCodes'
    <2> DEFINE r == [Idle EXCEPT !.step = "register", !.identifiers = is, !.password = pw]
    <2>1. r \in RequestRow /\ r.step = "register" /\ r.gadget = NoGadget
      BY DEF RequestRow, Idle, Registrations, Steps, Purposes
    <2>2. UNCHANGED <<directory, doomed, token>> /\ Continue(w, r)
      BY <1>1 DEF Register
    <2> HIDE DEF r
    <2>3. Grasp(r) /\ Current(r)
      BY <1>0, <2>1 DEF Grasp, Current
    <2> QED BY <2>1, <2>2, <2>3, ReadTouch
  <1>2. ASSUME NEW provider \in Providers, NEW i \in Emails, SocialFetch(w, provider, i)
        PROVE  Apart' /\ Touch' /\ FreshCodes'
    <2>1. UNCHANGED <<directory, doomed>>
      BY <1>2 DEF SocialFetch
    <2>2. CASE UNCHANGED req
      BY <2>1, <2>2, SameMoves, QuietTouch
    <2>3. CASE Continue(w, [Idle EXCEPT !.step = "social", !.identifiers = {i}])
      <3> DEFINE r == [Idle EXCEPT !.step = "social", !.identifiers = {i}]
      <3>1. r \in RequestRow /\ r.step = "social" /\ r.gadget = NoGadget
        BY DEF RequestRow, Idle, Identifiers, Steps, Purposes
      <3>2. Continue(w, r)
        BY <2>3
      <3> HIDE DEF r
      <3>3. Grasp(r) /\ Current(r)
        BY <1>0, <3>1 DEF Grasp, Current
      <3> QED BY <2>1, <3>1, <3>2, <3>3, ReadTouch
    <2> QED BY <1>2, <2>2, <2>3 DEF SocialFetch
  <1>3. ASSUME NEW u \in Users, NEW i \in Identifiers, CreateGadget(w, u, i)
        PROVE  Apart' /\ Touch' /\ FreshCodes'
    <2> DEFINE r == [Idle EXCEPT !.step = "create", !.user = u, !.identifiers = {i}]
    <2>1. r \in RequestRow /\ r.user = u /\ r.step = "create" /\ r.gadget = NoGadget
      BY DEF RequestRow, Idle, Steps, Purposes
    <2>2. UNCHANGED <<directory, doomed, token>> /\ Continue(w, r) /\ u \notin deleted
      BY <1>3 DEF CreateGadget, Authenticated
    <2> HIDE DEF r
    <2>3. Grasp(r) /\ Current(r)
      BY <1>0, <2>1, <2>2 DEF Grasp, Current
    <2> QED BY <2>1, <2>2, <2>3, ReadTouch
  <1>4. ASSUME NEW u \in Users, NEW i \in Identifiers, DeleteGadget(w, u, i)
        PROVE  Apart' /\ Touch' /\ FreshCodes'
    <2>1. PICK g \in Named(i) :
            /\ gadget[g].user = u
            /\ Continue(w, [Idle EXCEPT !.step = IF gadget[g].verified THEN "count" ELSE "delete",
                                        !.user = u, !.identifiers = {i}, !.gadget = g])
      BY <1>4 DEF DeleteGadget
    <2> DEFINE x == [Idle EXCEPT !.step = IF gadget[g].verified THEN "count" ELSE "delete",
                                 !.user = u, !.identifiers = {i}, !.gadget = g]
    <2>x. /\ x \in RequestRow /\ x.user = u /\ x.gadget = g /\ x.identifiers = {i} /\ Continue(w, x)
          /\ x.step = IF gadget[g].verified THEN "count" ELSE "delete"
      BY <2>1 DEF RequestRow, Idle, Steps, Purposes, Named, Present
    <2> HIDE DEF x
    <2>2. PICK r \in RequestRow : r = x
      BY <2>x
    <2>3. UNCHANGED <<directory, doomed, token>>
      BY <1>4 DEF DeleteGadget
    <2>4. gadget[g].identifier = i
      BY DEF Named
    <2>5. r.step \in {"count", "delete"} /\ (r.step = "delete" => ~gadget[g].verified)
      BY <2>x, <2>2
    <2>6. r.user = u /\ r.gadget = g /\ r.identifiers = {i} /\ Continue(w, r)
      BY <2>x, <2>2
    <2>7. Grasp(r) /\ Current(r)
      BY <2>1, <2>4, <2>5, <2>6 DEF Grasp, Current
    <2> QED BY <2>3, <2>6, <2>7, ReadTouch
  <1>5. ASSUME NEW u \in Users, NEW current \in Passwords, NEW new \in Passwords,
               ChangePassword(w, u, current, new)
        PROVE  Apart' /\ Touch' /\ FreshCodes'
    <2> DEFINE r == [Idle EXCEPT !.step = "password", !.user = u, !.password = new, !.deleted = FALSE]
    <2>1. r \in RequestRow /\ r.user = u /\ r.step = "password" /\ r.gadget = NoGadget /\ r.deleted = FALSE
      BY DEF RequestRow, Idle, Steps, Purposes
    <2>2. UNCHANGED <<directory, doomed, token>> /\ Continue(w, r) /\ u \notin deleted
      BY <1>5 DEF ChangePassword, Authenticated
    <2> HIDE DEF r
    <2>3. Grasp(r) /\ Current(r)
      BY <1>0, <2>1, <2>2 DEF Grasp, Current
    <2> QED BY <2>1, <2>2, <2>3, ReadTouch
  <1>6. ASSUME NEW u \in Users, DeleteProfile(w, u)
        PROVE  Apart' /\ Touch' /\ FreshCodes'
    <2> DEFINE r == [Idle EXCEPT !.step = "profile", !.user = u]
    <2>1. r \in RequestRow /\ r.user = u /\ r.step = "profile" /\ r.gadget = NoGadget
      BY DEF RequestRow, Idle, Steps, Purposes
    <2>2. UNCHANGED <<directory, doomed, token>> /\ Continue(w, r)
      BY <1>6 DEF DeleteProfile
    <2> HIDE DEF r
    <2>3. Grasp(r) /\ Current(r)
      BY <1>0, <2>1, <2>2 DEF Grasp, Current
    <2> QED BY <2>1, <2>2, <2>3, ReadTouch
  <1> QED BY <1>1, <1>2, <1>3, <1>4, <1>5, <1>6 DEF Begin

-----------------------------------------------------------------------------
\* Later statements.
LEMMA InsertTouch ==
  ASSUME Aware, NEW w \in Workers, Done(w), NEW u \in Users, NEW is, NEW verified \in BOOLEAN,
         Insert(u, is, verified), UNCHANGED <<deleted, cache, used, received>>
  PROVE  Apart' /\ Touch' /\ FreshCodes'
  <1> USE DEF Aware, Sound
  <1>1. req'[w] = Idle /\ \A v \in Workers \ {w} : Lowered(v)
    BY DoneMoves
  <1>2. ASSUME NEW v \in Workers, NEW r \in RequestRow, r = req[v]
        PROVE  KeptRow(r) /\ Untouched(r)
    BY <1>2, InsertKept, SameTables DEF Untouched
  <1>3. Touch'
    BY <1>1, <1>2, StayTouch
  <1> QED BY <1>1, <1>3, LoweredApart DEF FreshCodes

\* A user is saved: only those who work for that user can tell.
LEMMA SaveTouch ==
  ASSUME Aware, NEW w \in Workers, Done(w), UNCHANGED <<gadget, cache, used, received>>,
         \A u \in Users : u # req[w].user => (u \in deleted' <=> u \in deleted)
  PROVE  Apart' /\ Touch' /\ FreshCodes'
  <1> USE DEF Aware, Sound
  <1>1. req'[w] = Idle /\ \A v \in Workers \ {w} : Lowered(v)
    BY DoneMoves
  <1>2. ASSUME NEW v \in Workers \ {w}, NEW r \in RequestRow, r = req[v]
        PROVE  KeptRow(r) /\ (req'[v].alone => Untouched(r))
    <2>1. KeptRow(r) /\ KeptOwner(r) /\ KeptCode(r)
      BY SameTables
    <2>2. ASSUME req'[v].alone PROVE KeptMark(r)
      <3>1. req[v].alone /\ Grasp(r)
        BY <1>1, <1>2, <2>2 DEF Lowered, Touch
      <3>2. r.step \in {"create", "password", "reset"} => r.user \in Users
        BY <3>1 DEF Grasp
      <3>3. r.user \in Users => r.user # req[w].user
        BY <1>2, <3>1, OtherUser
      <3> QED BY <3>2, <3>3 DEF KeptMark
    <2> QED BY <2>1, <2>2 DEF Untouched
  <1>3. Touch'
    BY <1>1, <1>2, StayTouch
  <1> QED BY <1>1, <1>3, LoweredApart DEF FreshCodes

LEMMA ProceedTouch ==
  ASSUME Aware, NEW w \in Workers, Proceed(w), UNCHANGED codeVars
  PROVE  Apart' /\ Touch' /\ FreshCodes'
  <1> USE DEF Aware, Sound, codeVars, directory
  <1>r. PICK s \in RequestRow : s = req[w]
    BY DEF Work
  <1>g. Grasp(s) /\ (s.alone => Current(s))
    BY <1>r DEF Touch
  <1>q. ASSUME Done(w), UNCHANGED <<gadget, deleted>>
        PROVE  Apart' /\ Touch' /\ FreshCodes'
    <2>1. req'[w] = Idle /\ \A v \in Workers \ {w} : Lowered(v)
      BY <1>q, DoneMoves
    <2> QED BY <1>q, <2>1, QuietTouch
  <1>1. CASE RegisterCommit(w)
    <2>1. CASE UNCHANGED directory
      BY <1>1, <1>q, <2>1 DEF RegisterCommit
    <2>2. ASSUME NEW u \in Users \ member, Insert(u, req[w].identifiers, FALSE), UNCHANGED deleted
          PROVE  Apart' /\ Touch' /\ FreshCodes'
      BY <1>1, <2>2, InsertTouch DEF RegisterCommit
    <2> QED BY <1>1, <2>1, <2>2 DEF RegisterCommit
  <1>2. CASE SocialCreate(w)
    <2>1. CASE UNCHANGED directory
      BY <1>2, <1>q, <2>1 DEF SocialCreate
    <2>2. ASSUME NEW u \in Users \ member, NEW confirmed \in BOOLEAN,
                 Insert(u, req[w].identifiers, confirmed), UNCHANGED deleted
          PROVE  Apart' /\ Touch' /\ FreshCodes'
      BY <1>2, <2>2, InsertTouch DEF SocialCreate
    <2> QED BY <1>2, <2>1, <2>2 DEF SocialCreate
  <1>3. CASE CreateGadgetInsert(w)
    <2>1. CASE UNCHANGED gadget
      BY <1>3, <1>q, <2>1 DEF CreateGadgetInsert
    <2>2. CASE Insert(req[w].user, req[w].identifiers, FALSE)
      <3>1. req[w].user \in Users
        BY <1>3, <1>r, <1>g DEF CreateGadgetInsert, Grasp
      <3> QED BY <1>3, <2>2, <3>1, InsertTouch DEF CreateGadgetInsert
    <2> QED BY <1>3, <2>1, <2>2 DEF CreateGadgetInsert
  <1>4. CASE CountRemaining(w)
    <2>1. UNCHANGED <<directory, doomed, token>> /\ s.step = "count"
      BY <1>4, <1>r DEF CountRemaining
    <2>2. CASE Done(w)
      BY <1>q, <2>1, <2>2
    <2>3. CASE /\ VerifiedOf(req[w].user) \ {req[w].gadget} # {}
               /\ Continue(w, [req[w] EXCEPT !.step = "delete"])
      <3> DEFINE x == [s EXCEPT !.step = "delete"]
      <3>x. /\ x \in RequestRow /\ Continue(w, x) /\ x.user = s.user /\ x.step = "delete"
            /\ x.gadget = s.gadget /\ x.identifiers = s.identifiers /\ x.alone = s.alone
        BY <1>r, <2>3 DEF RequestRow, Steps
      <3> HIDE DEF x
      <3>1. PICK r \in RequestRow : r = x
        BY <3>x
      <3>2. /\ Continue(w, r) /\ r.user = s.user /\ r.step = "delete"
            /\ r.gadget = s.gadget /\ r.identifiers = s.identifiers /\ r.alone = s.alone
        BY <3>x, <3>1
      <3>3. Grasp(r)
        BY <1>g, <2>1, <3>2 DEF Grasp
      <3>4. r.alone => Current(r)
        BY <1>r, <1>g, <2>1, <2>3, <3>2 DEF Current
      <3> QED BY <2>1, <3>2, <3>3, <3>4, ReadTouch
    <2> QED BY <1>4, <2>2, <2>3 DEF CountRemaining
  <1>5. CASE DeleteGadgetRow(w)
    <2>1. PICK c : c = {gadget[g].user : g \in {req[w].gadget} \cap Present}
      OBVIOUS
    <2>2. /\ req'[w] = Idle
          /\ \A v \in Workers \ {w} : Lowered(v) /\ (req'[v].alone => Concerns(req[v]) \cap c = {})
      BY <1>5, <2>1, DoneWithMoves DEF DeleteGadgetRow
    <2>3. gadget' = Without({req[w].gadget}) /\ deleted' = deleted
      BY <1>5 DEF DeleteGadgetRow
    <2>4. ASSUME NEW v \in Workers \ {w}, NEW r \in RequestRow, r = req[v]
          PROVE  KeptRow(r) /\ (req'[v].alone => Untouched(r))
      <3>1. KeptRow(r) /\ KeptMark(r) /\ KeptCode(r)
        BY <2>3, WithoutKept, SameTables
      <3>2. ASSUME req'[v].alone PROVE KeptOwner(r)
        <4>1. r.user \notin c
          BY <2>2, <2>4, <3>2 DEF Concerns
        <4>2. {req[w].gadget} \cap GadgetsOf(r.user) = {}
          BY <2>1, <4>1 DEF GadgetsOf
        <4> QED BY <2>3, <4>2, WithoutKept
      <3> QED BY <3>1, <3>2 DEF Untouched
    <2>5. Touch'
      BY <2>2, <2>4, StayTouch
    <2> QED BY <2>2, <2>5, LoweredApart DEF FreshCodes
  <1>6. CASE ChangePasswordSave(w)
    <2>1. \A u \in Users : u # req[w].user => (u \in deleted' <=> u \in deleted)
      BY <1>6 DEF ChangePasswordSave, SaveUser
    <2> QED BY <1>6, <2>1, SaveTouch DEF ChangePasswordSave
  <1>7. CASE DeleteProfileCommit(w)
    <2>1. req'[w] = Idle /\ \A v \in Workers \ {w} : Lowered(v)
      BY <1>7, DoneMoves DEF DeleteProfileCommit
    <2>2. gadget' = Without(GadgetsOf(req[w].user)) /\ deleted' = deleted \cup {req[w].user}
      BY <1>7 DEF DeleteProfileCommit
    <2>3. ASSUME NEW v \in Workers \ {w}, NEW r \in RequestRow, r = req[v]
          PROVE  KeptRow(r) /\ (req'[v].alone => Untouched(r))
      <3>1. KeptRow(r) /\ KeptCode(r)
        BY <2>2, WithoutKept, SameTables
      <3>2. ASSUME req'[v].alone PROVE KeptOwner(r) /\ KeptMark(r)
        <4>1. req[v].alone /\ Grasp(r)
          BY <2>1, <2>3, <3>2 DEF Lowered, Touch
        <4>2. r.step \in {"create", "count", "delete", "password", "reset"} => r.user \in Users
          BY <4>1 DEF Grasp
        <4>3. r.user \in Users => r.user # req[w].user
          BY <2>3, <4>1, OtherUser
        <4>4. KeptMark(r)
          BY <2>2, <4>2, <4>3 DEF KeptMark
        <4>5. r.user # req[w].user => GadgetsOf(req[w].user) \cap GadgetsOf(r.user) = {}
          BY DEF GadgetsOf
        <4>6. r.user # req[w].user => KeptOwner(r)
          BY <2>2, <4>5, WithoutKept
        <4>7. KeptOwner(r)
          BY <4>2, <4>3, <4>6 DEF KeptOwner
        <4> QED BY <4>4, <4>7
      <3> QED BY <3>1, <3>2 DEF Untouched
    <2>4. Touch'
      BY <2>1, <2>3, StayTouch
    <2> QED BY <2>1, <2>4, LoweredApart DEF FreshCodes
  <1>8. CASE WorkerDies(w)
    BY <1>8, <1>q DEF WorkerDies
  <1> QED BY <1>1, <1>2, <1>3, <1>4, <1>5, <1>6, <1>7, <1>8 DEF Proceed

\* The admin site marks what it meets.
LEMMA AdminTouch ==
  ASSUME Aware, AdminStep, UNCHANGED codeVars
  PROVE  Apart' /\ Touch' /\ FreshCodes'
  <1> USE DEF Aware, Sound, codeVars, directory
  <1>1. ASSUME NEW u \in Users, NEW mark \in BOOLEAN, AdminSavesUser(u, mark, password[u])
        PROVE  Apart' /\ Touch' /\ FreshCodes'
    <2>1. \A v \in Workers : Lowered(v) /\ (req'[v].alone => Concerns(req[v]) \cap {u} = {})
      BY <1>1, IntrudeMoves DEF AdminSavesUser
    <2>2. ASSUME NEW v \in Workers, NEW r \in RequestRow, r = req[v]
          PROVE  KeptRow(r) /\ (req'[v].alone => Untouched(r))
      <3>1. KeptRow(r) /\ KeptOwner(r) /\ KeptCode(r)
        BY <1>1, SameTables DEF AdminSavesUser
      <3>2. req'[v].alone => r.user # u
        BY <2>1, <2>2 DEF Concerns
      <3>3. req'[v].alone => KeptMark(r)
        BY <1>1, <3>2 DEF AdminSavesUser, KeptMark
      <3> QED BY <3>1, <3>3 DEF Untouched
    <2>3. Touch'
      BY <2>1, <2>2, StayTouch
    <2> QED BY <2>1, <2>3, LoweredApart DEF FreshCodes
  <1>2. ASSUME NEW g \in Gadgets, NEW u \in Users, NEW verified \in BOOLEAN, AdminSavesGadget(g, u, verified)
        PROVE  Apart' /\ Touch' /\ FreshCodes'
    <2>0. PICK c : c = {gadget[g].user, u, gadget[g].identifier}
      OBVIOUS
    <2>1. \A v \in Workers : Lowered(v) /\ (req'[v].alone => Concerns(req[v]) \cap c = {})
      BY <1>2, <2>0, IntrudeMoves DEF AdminSavesGadget
    <2>2. gadget[g] \in GadgetRow /\ g \in Present /\ deleted' = deleted
      BY <1>2 DEF AdminSavesGadget, Present, Owned
    <2>3. gadget' = [gadget EXCEPT ![g] = [gadget[g] EXCEPT !.user = u, !.verified = verified]]
      BY <1>2 DEF AdminSavesGadget, Owned
    <2>4. /\ gadget'[g].identifier = gadget[g].identifier
          /\ \A h \in Gadgets \ {g} : gadget'[h] = gadget[h]
      BY <2>2, <2>3 DEF Owned, GadgetRow
    <2>5. \A h \in Present' : h \in Present
      BY <2>2, <2>4 DEF Present
    <2>6. \A h \in Present \ {g} : h \in Present' /\ gadget'[h] = gadget[h]
      BY <2>4 DEF Present
    <2>7. ASSUME NEW v \in Workers, NEW r \in RequestRow, r = req[v]
          PROVE  KeptRow(r) /\ (req'[v].alone => Untouched(r))
      <3>1. KeptRow(r)
        BY <2>4, <2>5, <2>6 DEF KeptRow
      <3>2. KeptMark(r) /\ KeptCode(r)
        BY <2>2, SameTables
      <3>3. ASSUME req'[v].alone PROVE KeptOwner(r)
        <4>1. r.user # gadget[g].user /\ gadget[g].identifier \notin r.identifiers
          BY <2>0, <2>1, <2>7, <3>3 DEF Concerns
        <4>2. r.gadget # g
          BY <2>2, <2>7, <4>1 DEF Touch, Grasp
        <4>3. VerifiedOf(r.user) \subseteq VerifiedOf(r.user)'
          BY <2>6, <4>1 DEF VerifiedOf, GadgetsOf
        <4> QED BY <2>5, <2>6, <4>2, <4>3 DEF KeptOwner
      <3> QED BY <3>1, <3>2, <3>3 DEF Untouched
    <2>8. Touch'
      BY <2>1, <2>7, StayTouch
    <2> QED BY <2>1, <2>8, LoweredApart DEF FreshCodes
  <1>3. ASSUME NEW g \in Gadgets, AdminDeletesGadget(g)
        PROVE  Apart' /\ Touch' /\ FreshCodes'
    <2>0. PICK c : c = {gadget[g].user, gadget[g].identifier}
      OBVIOUS
    <2>1. \A v \in Workers : Lowered(v) /\ (req'[v].alone => Concerns(req[v]) \cap c = {})
      BY <1>3, <2>0, IntrudeMoves DEF AdminDeletesGadget
    <2>2. gadget' = Without({g}) /\ deleted' = deleted
      BY <1>3 DEF AdminDeletesGadget
    <2>3. ASSUME NEW v \in Workers, NEW r \in RequestRow, r = req[v]
          PROVE  KeptRow(r) /\ (req'[v].alone => Untouched(r))
      <3>1. KeptRow(r) /\ KeptMark(r) /\ KeptCode(r)
        BY <2>2, WithoutKept, SameTables
      <3>2. ASSUME req'[v].alone PROVE KeptOwner(r)
        <4>1. r.user # gadget[g].user
          BY <2>0, <2>1, <2>3, <3>2 DEF Concerns
        <4>2. {g} \cap GadgetsOf(r.user) = {}
          BY <4>1 DEF GadgetsOf
        <4> QED BY <2>2, <4>2, WithoutKept
      <3> QED BY <3>1, <3>2 DEF Untouched
    <2>4. Touch'
      BY <2>1, <2>3, StayTouch
    <2> QED BY <2>1, <2>4, LoweredApart DEF FreshCodes
  <1>4. ASSUME NEW u \in Users, AdminToken(u)
        PROVE  Apart' /\ Touch' /\ FreshCodes'
    BY <1>4, SameMoves, QuietTouch DEF AdminToken
  <1> QED BY <1>1, <1>2, <1>3, <1>4 DEF AdminStep

LEMMA TokenTouch ==
  ASSUME Aware, TokenStep, UNCHANGED codeVars
  PROVE  Apart' /\ Touch' /\ FreshCodes'
  <1>1. UNCHANGED <<gadget, deleted, cache, used, received, req>>
    BY DEF TokenStep, ObtainTokenPair, TokenExpires, directory, codeVars
  <1> QED BY <1>1, SameMoves, QuietTouch DEF Aware, Sound

LEMMA CleanupTouch ==
  ASSUME Aware, CleanupStep, UNCHANGED codeVars
  PROVE  Apart' /\ Touch' /\ FreshCodes'
  <1> USE DEF Aware, Sound, codeVars, directory
  <1>1. ASSUME NEW g \in Gadgets, GadgetAges(g)
        PROVE  Apart' /\ Touch' /\ FreshCodes'
    <2>1. /\ gadget' = [gadget EXCEPT ![g] = [gadget[g] EXCEPT !.old = TRUE]]
          /\ g \in Present /\ gadget[g] \in GadgetRow /\ deleted' = deleted /\ req' = req
      BY <1>1 DEF GadgetAges, Present, Owned
    <2>2. /\ gadget'[g].identifier = gadget[g].identifier /\ gadget'[g].user = gadget[g].user
          /\ gadget'[g].verified = gadget[g].verified /\ gadget'[g] # Absent
          /\ \A h \in Gadgets \ {g} : gadget'[h] = gadget[h]
      BY <2>1, DirectoryAssumption DEF Owned, GadgetRow, Absent
    <2>3. /\ Present' = Present
          /\ \A h \in Present : /\ gadget'[h].identifier = gadget[h].identifier
                                /\ gadget'[h].user = gadget[h].user
                                /\ gadget'[h].verified = gadget[h].verified
      BY <2>1, <2>2 DEF Present
    <2>4. \A u : VerifiedOf(u) \subseteq VerifiedOf(u)'
      BY <2>3 DEF VerifiedOf, GadgetsOf
    <2>5. \A r \in RequestRow : KeptRow(r) /\ Untouched(r)
      BY <2>1, <2>3, <2>4, SameTables DEF KeptRow, KeptOwner, Untouched
    <2>6. Touch'
      BY <2>1, <2>5, SameMoves, StayTouch
    <2> QED BY <2>1, <2>6, SameMoves, LoweredApart DEF FreshCodes
  <1>2. CASE CleanupSelect \/ CleanupFails
    BY <1>2, SameMoves, QuietTouch DEF CleanupSelect, CleanupFails
  <1>3. CASE CleanupDelete
    <2>d. PICK d : d = {{gadget[g].user, gadget[g].identifier} : g \in doomed}
      OBVIOUS
    <2>0. PICK c : c = (UNION d) \ {NoUser}
      OBVIOUS
    <2>i. Intrude(c)
      BY <1>3, <2>d, <2>0 DEF CleanupDelete
    <2>1. \A v \in Workers : Lowered(v) /\ (req'[v].alone => Concerns(req[v]) \cap c = {})
      BY <2>i, IntrudeMoves
    <2>2. gadget' = Without(doomed) /\ deleted' = deleted
      BY <1>3 DEF CleanupDelete
    <2>3. ASSUME NEW v \in Workers, NEW r \in RequestRow, r = req[v]
          PROVE  KeptRow(r) /\ (req'[v].alone => Untouched(r))
      <3>1. KeptRow(r) /\ KeptMark(r) /\ KeptCode(r)
        BY <2>2, WithoutKept, SameTables
      <3>2. ASSUME req'[v].alone PROVE KeptOwner(r)
        <4>1. r.user \notin c
          BY <2>1, <2>3, <3>2 DEF Concerns
        <4>2. ASSUME NEW g \in doomed, g \in GadgetsOf(r.user) PROVE FALSE
          <5>1. gadget[g].user = r.user /\ r.user \in Users
            BY <4>2 DEF GadgetsOf, Present, Owned, Profiles
          <5>2. gadget[g].user # NoUser
            BY <5>1, DirectoryAssumption
          <5>3. {gadget[g].user, gadget[g].identifier} \in d
            BY <2>d
          <5>4. gadget[g].user \in UNION d
            BY <5>3
          <5>5. gadget[g].user \in c
            BY <2>0, <5>2, <5>4
          <5> QED BY <4>1, <5>1, <5>5
        <4>3. doomed \cap GadgetsOf(r.user) = {}
          BY <4>2
        <4> QED BY <2>2, <4>3, WithoutKept
      <3> QED BY <3>1, <3>2 DEF Untouched
    <2>4. Touch'
      BY <2>1, <2>3, StayTouch
    <2> QED BY <2>1, <2>4, LoweredApart DEF FreshCodes
  <1> QED BY <1>1, <1>2, <1>3 DEF CleanupStep

-----------------------------------------------------------------------------
\* Codes.
LEMMA PresentTouch ==
  ASSUME Aware, NEW w \in Workers, BeginCode(w)
  PROVE  Apart' /\ Touch' /\ FreshCodes'
  <1> USE DEF Aware, Sound
  <1>0. PICK purpose \in Purposes, i \in Identifiers, pw \in Passwords :
          \E c \in Known(i) : PresentCode(w, purpose, i, c, pw)
    BY DEF BeginCode
  <1>1. PICK c \in Known(i) : PresentCode(w, purpose, i, c, pw)
    BY <1>0
  <1>2. UNCHANGED <<directory, doomed, token, codeVars>>
    BY <1>1 DEF PresentCode
  <1>3. c \in Codes
    BY MockAssumption DEF Known, CachedCodesWereSent
  <1> DEFINE r == [Idle EXCEPT !.step = "burn", !.purpose = purpose, !.identifiers = {i},
                               !.code = c, !.password = pw]
  <1>4. /\ r \in RequestRow /\ r.step = "burn" /\ r.gadget = NoGadget
        /\ r.code = c /\ r.purpose = purpose /\ r.identifiers = {i}
    BY <1>3 DEF RequestRow, Idle, Steps
  <1>5. Continue(w, r)
    BY <1>1 DEF PresentCode
  <1>6. c # MockCode => cache[<<purpose, i>>] = c
    BY <1>1 DEF PresentCode, Matches, Key
  <1> HIDE DEF r
  <1>7. Grasp(r)
    BY <1>4, DirectoryAssumption DEF Grasp, Present
  <1>8. c # MockCode => used[c] = 0
    BY <1>3, <1>6, DirectoryAssumption DEF FreshCodes, Keys
  <1>9. Current(r)
    BY <1>4, <1>6, <1>8 DEF Current
  <1> QED BY <1>2, <1>4, <1>5, <1>7, <1>9, ReadTouch DEF directory, codeVars

\* Two requests with one code, or a request and the cache, have it from one message.
LEMMA OneSource ==
  ASSUME Aware, NEW w \in Workers, req[w].step = "burn", req[w].code # MockCode
  PROVE  /\ \A v \in Workers \ {w} :
              req[v].step = "burn" /\ req[v].code = req[w].code => ~req[v].alone
         /\ \A purpose \in Purposes, i \in Identifiers :
              cache[<<purpose, i>>] = req[w].code =>
                purpose = req[w].purpose /\ i \in req[w].identifiers
  <1> USE DEF Aware, Sound
  <1>0. req[w] \in RequestRow /\ Held(req[w])
    BY DEF Work
  <1>1. PICK m \in received : /\ m.code = req[w].code /\ m.purpose = req[w].purpose
                              /\ m.to \in req[w].identifiers
    BY <1>0 DEF Held, Sent
  <1>2. m \in [code : Codes, purpose : Purposes, to : Identifiers]
    BY DEF CachedCodesWereSent
  <1>3. ASSUME NEW v \in Workers \ {w}, req[v].step = "burn", req[v].code = req[w].code, req[v].alone
        PROVE  FALSE
    <2>1. Held(req[v])
      BY DEF Work
    <2>2. PICK n \in received : n.code = req[v].code /\ n.to \in req[v].identifiers
      BY <1>3, <2>1 DEF Held, Sent
    <2>3. n = m
      BY <1>1, <1>3, <2>2 DEF FreshCodes
    <2> QED BY <1>1, <1>2, <1>3, <2>2, <2>3, OtherIdentifier
  <1>4. ASSUME NEW purpose \in Purposes, NEW i \in Identifiers, cache[<<purpose, i>>] = req[w].code
        PROVE  purpose = req[w].purpose /\ i \in req[w].identifiers
    <2>1. cache[<<purpose, i>>] # NoCode
      BY <1>1, <1>2, <1>4, DirectoryAssumption
    <2>2. PICK n \in received : /\ n.code = cache[<<purpose, i>>]
                                /\ n.purpose = purpose /\ n.to = i
      BY <2>1 DEF CachedCodesWereSent
    <2>3. n = m
      BY <1>1, <1>4, <2>2 DEF FreshCodes
    <2> QED BY <1>1, <2>2, <2>3
  <1> QED BY <1>3, <1>4

LEMMA BurnTouch ==
  ASSUME Aware, NEW w \in Workers, BurnCode(w)
  PROVE  Apart' /\ Touch' /\ FreshCodes'
  <1> USE DEF Aware, Sound
  <1>r. PICK s \in RequestRow : s = req[w]
    BY DEF Work
  <1>g. Grasp(s) /\ s.step = "burn"
    BY <1>r DEF Touch, BurnCode
  <1>1. UNCHANGED <<directory, doomed, token, received>>
    BY DEF BurnCode
  <1>c. s.code \in Codes \cup {NoCode, MockCode}
    BY DEF RequestRow
  <1>2. /\ used'[s.code] = used[s.code] + 1
        /\ \A c \in Codes \cup {NoCode, MockCode} : c # s.code => used'[c] = used[c]
    BY <1>r, <1>c DEF BurnCode, CachedCodesWereSent
  <1>3. PICK i \in Identifiers : s.identifiers = {i}
    BY <1>g DEF Grasp
  <1>4. /\ cache' = [cache EXCEPT ![<<s.purpose, i>>] = NoCode]
        /\ \/ Named(i) = {} /\ Done(w)
           \/ \E g \in Named(i) :
                Continue(w, IF s.purpose = "otp"
                            THEN [s EXCEPT !.step = "verify", !.gadget = g]
                            ELSE [s EXCEPT !.step = "reset", !.user = gadget[g].user,
                                           !.deleted = gadget[g].user \in deleted])
    BY <1>r, <1>3 DEF BurnCode, Key
  <1>5. /\ <<s.purpose, i>> \in Keys
        /\ \A k \in Keys : cache'[k] = IF k = <<s.purpose, i>> THEN NoCode ELSE cache[k]
    BY <1>4 DEF CachedCodesWereSent, Keys, RequestRow
  <1>6. s.code # MockCode => \A k \in Keys : cache[k] = s.code => k = <<s.purpose, i>>
    <2> SUFFICES ASSUME s.code # MockCode, NEW k \in Keys, cache[k] = s.code
                 PROVE  k = <<s.purpose, i>>
      OBVIOUS
    <2>1. PICK purpose \in Purposes, j \in Identifiers : k = <<purpose, j>>
      BY DEF Keys
    <2> QED BY <1>r, <1>g, <1>3, <2>1, OneSource
  <1>7. FreshCodes'
    <2>1. ASSUME NEW k \in Keys, cache'[k] \notin {NoCode, MockCode} PROVE used'[cache'[k]] = 0
      <3>1. cache'[k] = cache[k] /\ k # <<s.purpose, i>>
        BY <1>5, <2>1
      <3>2. cache[k] # s.code
        BY <1>6, <2>1, <3>1
      <3>3. cache[k] \in Codes /\ used[cache[k]] = 0
        BY <2>1, <3>1 DEF CachedCodesWereSent, FreshCodes
      <3> QED BY <1>2, <3>1, <3>2, <3>3
    <2> QED BY <1>1, <2>1 DEF FreshCodes
  <1>8. ASSUME NEW v \in Workers \ {w}, NEW r \in RequestRow, r = req[v], Lowered(v)
        PROVE  KeptRow(r) /\ (req'[v].alone => Untouched(r))
    <2>1. KeptRow(r) /\ KeptOwner(r) /\ KeptMark(r)
      BY <1>1, SameTables DEF directory
    <2>2. ASSUME req'[v].alone, r.step = "burn", r.code # MockCode PROVE used'[r.code] = used[r.code]
      <3>1. r.code # s.code
        BY <1>r, <1>g, <1>8, <2>2, OneSource DEF Lowered
      <3>2. r.code \in Codes \cup {NoCode, MockCode}
        BY DEF RequestRow
      <3> QED BY <1>2, <3>1, <3>2
    <2>3. \A j \in r.identifiers : cache'[<<r.purpose, j>>] \in {NoCode, cache[<<r.purpose, j>>]}
      <3>1. \A j \in r.identifiers : <<r.purpose, j>> \in Keys
        BY DEF RequestRow, Keys
      <3> QED BY <1>5, <3>1
    <2> QED BY <2>1, <2>2, <2>3 DEF Untouched, KeptCode
  <1>9. CASE Done(w)
    <2>1. req'[w] = Idle /\ \A v \in Workers \ {w} : Lowered(v)
      BY <1>9, DoneMoves
    <2>2. Touch'
      BY <1>8, <2>1, StayTouch
    <2> QED BY <1>7, <2>1, <2>2, LoweredApart
  <1>10. ASSUME NEW r \in RequestRow, Continue(w, r), Grasp(r), Current(r), r.step # "burn"
         PROVE  Apart' /\ Touch'
    <2>1. (\A v \in Workers \ {w} : Lowered(v)) /\ Carries(req'[w], r)
      BY <1>10, ContinueMoves
    <2>2. Grasp(r)'
      BY <1>1, <1>10 DEF Grasp, Present, directory
    <2>3. Current(r)'
      BY <1>1, <1>10 DEF Current, Present, VerifiedOf, GadgetsOf, directory
    <2>4. Touch'
      BY <1>8, <2>1, <2>2, <2>3, MoveTouch
    <2> QED BY <1>10, <2>4, ContinueApart
  <1>11. ASSUME NEW g \in Named(i), s.purpose = "otp",
                Continue(w, [s EXCEPT !.step = "verify", !.gadget = g])
         PROVE  Apart' /\ Touch'
    <2> DEFINE x == [s EXCEPT !.step = "verify", !.gadget = g]
    <2>x. x \in RequestRow /\ x.step = "verify" /\ x.identifiers = {i} /\ x.gadget = g /\ Continue(w, x)
      BY <1>3, <1>11 DEF RequestRow, Steps, Named, Present
    <2> HIDE DEF x
    <2>1. PICK r \in RequestRow : r = x
      BY <2>x
    <2>2. r.step = "verify" /\ r.identifiers = {i} /\ r.gadget = g /\ Continue(w, r)
      BY <2>x, <2>1
    <2>3. Grasp(r) /\ Current(r)
      BY <2>2 DEF Grasp, Current, Named
    <2> QED BY <1>10, <2>2, <2>3
  <1>12. ASSUME NEW g \in Named(i), s.purpose # "otp",
                Continue(w, [s EXCEPT !.step = "reset", !.user = gadget[g].user,
                                      !.deleted = gadget[g].user \in deleted])
         PROVE  Apart' /\ Touch'
    <2>u. PICK u \in Users : u = gadget[g].user
      BY DEF Named, Present, Owned, Profiles
    <2> DEFINE b == gadget[g].user \in deleted
               x == [s EXCEPT !.step = "reset", !.user = gadget[g].user, !.deleted = b]
    <2>y. Continue(w, x)
      BY <1>12
    <2>b. b \in BOOLEAN /\ (b <=> u \in deleted)
      BY <2>u
    <2> HIDE DEF b
    <2>x. /\ x \in RequestRow /\ x.step = "reset" /\ x.user = u /\ x.deleted = b
          /\ x.identifiers = {i} /\ x.gadget = s.gadget
      BY <1>3, <2>u, <2>b DEF RequestRow, Steps
    <2> HIDE DEF x
    <2>1. PICK r \in RequestRow : r = x
      BY <2>x
    <2>2. /\ r.step = "reset" /\ r.user = u /\ r.deleted = b
          /\ r.identifiers = {i} /\ r.gadget = s.gadget /\ Continue(w, r)
      BY <2>x, <2>y, <2>1
    <2>3. Grasp(r)
      BY <1>g, <1>3, <2>2 DEF Grasp
    <2>4. Current(r)
      BY <2>b, <2>2 DEF Current
    <2> QED BY <1>10, <2>2, <2>3, <2>4
  <1> QED BY <1>4, <1>7, <1>9, <1>11, <1>12

LEMMA ServeTouch ==
  ASSUME Aware, NEW w \in Workers, VerifySave(w) \/ ResetSave(w)
  PROVE  Apart' /\ Touch' /\ FreshCodes'
  <1> USE DEF Aware, Sound, codeVars
  <1>1. CASE VerifySave(w)
    <2>1. req'[w] = Idle /\ \A v \in Workers \ {w} : Lowered(v)
      BY <1>1, DoneMoves DEF VerifySave
    <2>2. /\ UNCHANGED <<deleted, codeVars>>
          /\ gadget' = [gadget EXCEPT ![req[w].gadget].verified = @ \/ req[w].gadget \in Present]
      BY <1>1 DEF VerifySave
    <2>3. ASSUME NEW g \in Gadgets
          PROVE  /\ g \in Present' => g \in Present
                 /\ g \in Present => /\ g \in Present' /\ gadget'[g].user = gadget[g].user
                                     /\ gadget'[g].identifier = gadget[g].identifier
                                     /\ gadget[g].verified => gadget'[g].verified
                 /\ g # req[w].gadget => gadget'[g] = gadget[g]
      <3>1. CASE g # req[w].gadget
        BY <2>2, <3>1 DEF Owned, Present
      <3>2. CASE g = req[w].gadget /\ g \notin Present
        <4>1. gadget'[g] = [Absent EXCEPT !.verified = Absent.verified \/ g \in Present]
          BY <2>2, <3>2 DEF Owned, Present
        <4> QED BY <3>2, <4>1 DEF Absent, Present
      <3>3. CASE g = req[w].gadget /\ g \in Present
        <4>1. gadget[g] \in GadgetRow /\ gadget[g].user \in Users
          BY <3>3 DEF Owned, Present, Profiles
        <4>2. gadget'[g] = [gadget[g] EXCEPT !.verified = TRUE]
          BY <2>2, <3>3 DEF Owned
        <4>3. /\ gadget'[g].user = gadget[g].user /\ gadget'[g].identifier = gadget[g].identifier
              /\ gadget'[g].verified = TRUE
          BY <4>1, <4>2 DEF GadgetRow
        <4>4. gadget'[g] # Absent
          BY <4>1, <4>3, DirectoryAssumption DEF Absent
        <4> QED BY <3>3, <4>3, <4>4 DEF Present
      <3> QED BY <3>1, <3>2, <3>3
    <2>4. \A u : VerifiedOf(u) \subseteq VerifiedOf(u)'
      BY <2>3 DEF VerifiedOf, GadgetsOf, Present
    <2>5. ASSUME NEW v \in Workers \ {w}, NEW r \in RequestRow, r = req[v]
          PROVE  KeptRow(r) /\ (req'[v].alone => Untouched(r))
      <3>1. KeptRow(r)
        BY <2>3 DEF KeptRow, Present
      <3>2. KeptMark(r) /\ KeptCode(r)
        BY <2>2, SameTables
      <3>3. ASSUME req'[v].alone, r.gadget \in Present' PROVE gadget'[r.gadget] = gadget[r.gadget]
        <4>1. req[v].alone /\ r.gadget \in Present /\ r.gadget \in Gadgets
          BY <2>1, <2>3, <3>3 DEF Lowered, Present
        <4>2. r.gadget # req[w].gadget
          BY <2>5, <4>1, OtherGadget
        <4> QED BY <2>3, <4>1, <4>2
      <3>4. req'[v].alone => KeptOwner(r)
        BY <2>4, <3>3 DEF KeptOwner
      <3> QED BY <3>1, <3>2, <3>4 DEF Untouched
    <2>6. Touch'
      BY <2>1, <2>5, StayTouch
    <2> QED BY <2>1, <2>2, <2>6, LoweredApart DEF FreshCodes
  <1>2. CASE ResetSave(w)
    <2>1. \A u \in Users : u # req[w].user => (u \in deleted' <=> u \in deleted)
      BY <1>2 DEF ResetSave, SaveUser
    <2> QED BY <1>2, <2>1, SaveTouch DEF ResetSave
  <1> QED BY <1>1, <1>2

LEMMA SendTouch ==
  ASSUME Aware, NEW purpose \in Purposes, NEW i \in Identifiers, SendCode(purpose, i)
  PROVE  Apart' /\ Touch' /\ FreshCodes'
  <1> USE DEF Aware, Sound, directory
  <1>1. PICK c \in Codes \ Issued :
          /\ cache' = [cache EXCEPT ![<<purpose, i>>] = c]
          /\ received' = received \cup {[code |-> c, purpose |-> purpose, to |-> i]}
    BY DEF SendCode, Key
  <1>2. UNCHANGED <<directory, used>> /\ Intrude({i})
    BY DEF SendCode
  <1>3. \A v \in Workers : Lowered(v) /\ (req'[v].alone => Concerns(req[v]) \cap {i} = {})
    BY <1>2, IntrudeMoves
  <1>4. /\ <<purpose, i>> \in Keys
        /\ \A k \in Keys : cache'[k] = IF k = <<purpose, i>> THEN c ELSE cache[k]
    BY <1>1 DEF CachedCodesWereSent, Keys
  <1>5. used[c] = 0 /\ \A m \in received : m.code # c
    <2>1. used[c] \in Nat /\ ~(used[c] > 0)
      BY DEF Issued, CachedCodesWereSent
    <2> QED BY <2>1 DEF Issued
  <1>6. FreshCodes'
    <2>1. \A m, n \in received' : m.code = n.code => m = n
      BY <1>1, <1>5 DEF FreshCodes
    <2>2. \A k \in Keys : cache'[k] \notin {NoCode, MockCode} => used'[cache'[k]] = 0
      BY <1>2, <1>4, <1>5 DEF FreshCodes
    <2> QED BY <2>1, <2>2 DEF FreshCodes
  <1>7. ASSUME NEW v \in Workers, NEW r \in RequestRow, r = req[v]
        PROVE  KeptRow(r) /\ (req'[v].alone => Untouched(r))
    <2>1. KeptRow(r) /\ KeptOwner(r) /\ KeptMark(r)
      BY <1>2, SameTables
    <2>2. ASSUME req'[v].alone, NEW j \in r.identifiers
          PROVE  cache'[<<r.purpose, j>>] = cache[<<r.purpose, j>>]
      <3>1. j # i /\ <<r.purpose, j>> \in Keys
        BY <1>3, <1>7, <2>2 DEF Concerns, RequestRow, Keys
      <3> QED BY <1>4, <3>1
    <2> QED BY <1>2, <2>1, <2>2 DEF Untouched, KeptCode
  <1>8. Touch'
    BY <1>3, <1>7, StayTouch
  <1> QED BY <1>3, <1>6, <1>8, LoweredApart

LEMMA ExpiryTouch ==
  ASSUME Aware, NEW k \in Keys, CodeExpires(k)
  PROVE  Apart' /\ Touch' /\ FreshCodes'
  <1> USE DEF Aware, Sound, directory
  <1>1. /\ cache' = [cache EXCEPT ![k] = NoCode]
        /\ UNCHANGED <<directory, req, received, used>>
    BY DEF CodeExpires
  <1>2. \A l \in Keys : cache'[l] \in {NoCode, cache[l]}
    BY <1>1 DEF CachedCodesWereSent
  <1>3. FreshCodes'
    BY <1>1, <1>2 DEF FreshCodes
  <1>4. ASSUME NEW r \in RequestRow PROVE KeptRow(r) /\ Untouched(r)
    <2>1. KeptRow(r) /\ KeptOwner(r) /\ KeptMark(r)
      BY <1>1, SameTables
    <2>2. \A i \in r.identifiers : <<r.purpose, i>> \in Keys
      BY DEF RequestRow, Keys
    <2> QED BY <1>1, <1>2, <2>1, <2>2 DEF Untouched, KeptCode
  <1>5. Touch'
    BY <1>1, <1>4, SameMoves, StayTouch
  <1> QED BY <1>1, <1>3, <1>5, SameMoves, LoweredApart

-----------------------------------------------------------------------------
LEMMA InitAware == Init => Aware
  <1> SUFFICES ASSUME Init PROVE Aware
    OBVIOUS
  <1>1. \A v \in Workers : req[v] = Idle
    BY DEF Init
  <1>2. Apart
    BY <1>1 DEF Apart, Concerns, Idle
  <1>3. Grasp(Idle) /\ Current(Idle)
    BY DirectoryAssumption DEF Idle, Grasp, Current, Present
  <1>4. Touch
    BY <1>1, <1>3 DEF Touch
  <1>5. FreshCodes
    BY DEF Init, CodesInit, FreshCodes
  <1> QED BY <1>2, <1>4, <1>5, InitSound DEF Aware

LEMMA NextAware == Aware /\ [Next]_vars => Aware'
  <1> SUFFICES ASSUME Aware, [Next]_vars PROVE Apart' /\ Touch' /\ FreshCodes'
    BY NextSound DEF Aware
  <1>1. CASE UNCHANGED vars
    BY <1>1, SameMoves, QuietTouch DEF vars, directory, codeVars, Aware, Sound
  <1>2. CASE Next
    <2>1. CASE AdminStep /\ UNCHANGED codeVars
      BY <2>1, AdminTouch
    <2>2. ASSUME NEW w \in Workers, Begin(w), UNCHANGED codeVars
          PROVE  Apart' /\ Touch' /\ FreshCodes'
      BY <2>2, BeginTouch
    <2>3. ASSUME NEW w \in Workers, BeginCode(w) PROVE Apart' /\ Touch' /\ FreshCodes'
      BY <2>3, PresentTouch
    <2>4. ASSUME NEW purpose \in Purposes, NEW i \in Identifiers, SendCode(purpose, i)
          PROVE  Apart' /\ Touch' /\ FreshCodes'
      BY <2>4, SendTouch
    <2>5. CASE TokenStep /\ UNCHANGED codeVars
      BY <2>5, TokenTouch
    <2>6. CASE CleanupStep /\ UNCHANGED codeVars
      BY <2>6, CleanupTouch
    <2>7. ASSUME NEW w \in Workers, Proceed(w), UNCHANGED codeVars
          PROVE  Apart' /\ Touch' /\ FreshCodes'
      BY <2>7, ProceedTouch
    <2>8. ASSUME NEW w \in Workers, ProceedCode(w) PROVE Apart' /\ Touch' /\ FreshCodes'
      BY <2>8, BurnTouch, ServeTouch DEF ProceedCode
    <2>9. ASSUME NEW k \in Keys, CodeExpires(k) PROVE Apart' /\ Touch' /\ FreshCodes'
      BY <2>9, ExpiryTouch
    <2> QED BY <1>2, <2>1, <2>2, <2>3, <2>4, <2>5, <2>6, <2>7, <2>8, <2>9 DEF Next
  <1> QED BY <1>1, <1>2

-----------------------------------------------------------------------------
\* The steps that write gadgets or users, all others taken together.
LEMMA Writers ==
  ASSUME Next
  PROVE  \/ UNCHANGED <<deleted, gadget>>
         \/ AdminStep
         \/ CleanupDelete
         \/ \E g \in Gadgets : GadgetAges(g)
         \/ \E w \in Workers :
              \/ RegisterCommit(w) \/ SocialCreate(w) \/ CreateGadgetInsert(w)
              \/ DeleteGadgetRow(w) \/ ChangePasswordSave(w) \/ DeleteProfileCommit(w)
              \/ VerifySave(w) \/ ResetSave(w)
  <1> USE DEF directory, codeVars
  <1>1. CASE \E w \in Workers : Begin(w)
    BY <1>1 DEF Begin, Register, SocialFetch, CreateGadget, DeleteGadget, ChangePassword, DeleteProfile
  <1>2. CASE \E w \in Workers : BeginCode(w)
    BY <1>2 DEF BeginCode, PresentCode
  <1>3. CASE \E purpose \in Purposes, i \in Identifiers : SendCode(purpose, i)
    BY <1>3 DEF SendCode
  <1>4. CASE TokenStep
    BY <1>4 DEF TokenStep, ObtainTokenPair, TokenExpires
  <1>5. CASE CleanupStep
    BY <1>5 DEF CleanupStep, CleanupSelect, CleanupFails
  <1>6. CASE \E w \in Workers : Proceed(w)
    BY <1>6 DEF Proceed, CountRemaining, WorkerDies
  <1>7. CASE \E w \in Workers : ProceedCode(w)
    BY <1>7 DEF ProceedCode, BurnCode
  <1>8. CASE \E k \in Keys : CodeExpires(k)
    BY <1>8 DEF CodeExpires
  <1> QED BY <1>1, <1>2, <1>3, <1>4, <1>5, <1>6, <1>7, <1>8 DEF Next

\* Columns that a verification and the passing of time leave alone.
LEMMA UpdatedRows ==
  ASSUME Owned, (\E w \in Workers : VerifySave(w)) \/ (\E g \in Gadgets : GadgetAges(g))
  PROVE  /\ deleted' = deleted /\ Present' = Present
         /\ \A g \in Present : /\ gadget'[g].user = gadget[g].user
                               /\ gadget[g].verified => gadget'[g].verified
  <1>1. ASSUME NEW w \in Workers, VerifySave(w)
        PROVE  /\ deleted' = deleted /\ Present' = Present
               /\ \A g \in Present : /\ gadget'[g].user = gadget[g].user
                                     /\ gadget[g].verified => gadget'[g].verified
    <2>1. /\ deleted' = deleted
          /\ gadget' = [gadget EXCEPT ![req[w].gadget].verified = @ \/ req[w].gadget \in Present]
      BY <1>1 DEF VerifySave
    <2>2. ASSUME NEW g \in Gadgets
          PROVE  /\ g \in Present <=> g \in Present'
                 /\ g \in Present => /\ gadget'[g].user = gadget[g].user
                                     /\ gadget[g].verified => gadget'[g].verified
      <3>1. CASE g # req[w].gadget
        BY <2>1, <3>1 DEF Owned, Present
      <3>2. CASE g = req[w].gadget /\ g \notin Present
        <4>1. gadget'[g] = [Absent EXCEPT !.verified = Absent.verified \/ g \in Present]
          BY <2>1, <3>2 DEF Owned, Present
        <4> QED BY <3>2, <4>1 DEF Absent, Present
      <3>3. CASE g = req[w].gadget /\ g \in Present
        <4>1. gadget[g] \in GadgetRow
          BY <3>3 DEF Owned, Present
        <4>2. gadget'[g] = [gadget[g] EXCEPT !.verified = TRUE]
          BY <2>1, <3>3 DEF Owned
        <4>3. gadget'[g].user = gadget[g].user /\ gadget'[g].verified = TRUE
          BY <4>1, <4>2 DEF GadgetRow
        <4>4. gadget'[g] # Absent
          BY <4>3 DEF Absent
        <4> QED BY <3>3, <4>3, <4>4 DEF Present
      <3> QED BY <3>1, <3>2, <3>3
    <2> QED BY <2>1, <2>2 DEF Present
  <1>2. ASSUME NEW g \in Gadgets, GadgetAges(g)
        PROVE  /\ deleted' = deleted /\ Present' = Present
               /\ \A h \in Present : /\ gadget'[h].user = gadget[h].user
                                     /\ gadget[h].verified => gadget'[h].verified
    <2>1. /\ gadget' = [gadget EXCEPT ![g] = [gadget[g] EXCEPT !.old = TRUE]]
          /\ g \in Present /\ gadget[g] \in GadgetRow /\ deleted' = deleted
      BY <1>2 DEF GadgetAges, Present, Owned
    <2>2. /\ gadget'[g].user = gadget[g].user /\ gadget'[g].old = TRUE
          /\ gadget'[g].verified = gadget[g].verified
          /\ \A h \in Gadgets \ {g} : gadget'[h] = gadget[h]
      BY <2>1 DEF Owned, GadgetRow
    <2>3. gadget'[g] # Absent
      BY <2>2 DEF Absent
    <2> QED BY <2>1, <2>2, <2>3 DEF Present
  <1> QED BY <1>1, <1>2

\* A request that ends and was not met knew what it knew until then.
LEMMA EndedAlone ==
  ASSUME Aware, NEW w \in Workers, req[w].step # "idle", req'[w] = Idle, ~Overlapped
  PROVE  \A s \in RequestRow : s = req[w] => Grasp(s) /\ Current(s)
  BY DEF Aware, Touch, Overlapped

LEMMA InsertedGadgets ==
  ASSUME Owned, NEW u \in Users, NEW is, NEW verified \in BOOLEAN, Insert(u, is, verified)
  PROVE  \A x : /\ VerifiedOf(x) \subseteq VerifiedOf(x)'
                /\ x # u => GadgetsOf(x)' = GadgetsOf(x)
  <1>1. /\ \A g \in Present : g \in Present' /\ gadget'[g] = gadget[g]
        /\ \A g \in Present' \ Present : gadget'[g].user = u
    BY InsertRows
  <1> QED BY <1>1 DEF VerifiedOf, GadgetsOf

LEMMA DeletedGadgets ==
  ASSUME Owned, NEW gs, gadget' = Without(gs)
  PROVE  \A x : /\ VerifiedOf(x)' = VerifiedOf(x) \ gs
                /\ GadgetsOf(x)' = GadgetsOf(x) \ gs
  BY WithoutRows DEF VerifiedOf, GadgetsOf

LEMMA UpdatedGadgets ==
  ASSUME Owned, (\E w \in Workers : VerifySave(w)) \/ (\E g \in Gadgets : GadgetAges(g))
  PROVE  \A x : VerifiedOf(x) \subseteq VerifiedOf(x)' /\ GadgetsOf(x)' = GadgetsOf(x)
  BY UpdatedRows DEF VerifiedOf, GadgetsOf

LEMMA SameGadgets ==
  ASSUME gadget' = gadget
  PROVE  \A x : VerifiedOf(x)' = VerifiedOf(x) /\ GadgetsOf(x)' = GadgetsOf(x)
  BY DEF VerifiedOf, GadgetsOf, Present

\* What is inserted goes to a user who is not deleted.
LEMMA Inserting ==
  ASSUME Aware, ~Overlapped, NEW w \in Workers,
         RegisterCommit(w) \/ SocialCreate(w) \/ CreateGadgetInsert(w)
  PROVE  /\ deleted' = deleted
         /\ \A x : VerifiedOf(x) \subseteq VerifiedOf(x)'
         /\ \A x \in deleted : GadgetsOf(x)' = GadgetsOf(x)
  <1> USE DEF Aware, Sound
  <1>1. deleted' = deleted
    BY DEF RegisterCommit, SocialCreate, CreateGadgetInsert, directory
  <1>2. CASE gadget' = gadget
    BY <1>1, <1>2, SameGadgets
  <1>3. ASSUME NEW u \in Users, u \notin deleted, NEW verified \in BOOLEAN,
               Insert(u, req[w].identifiers, verified)
        PROVE  /\ \A x : VerifiedOf(x) \subseteq VerifiedOf(x)'
               /\ \A x \in deleted : GadgetsOf(x)' = GadgetsOf(x)
    BY <1>3, InsertedGadgets
  <1>4. CASE RegisterCommit(w) \/ SocialCreate(w)
    <2>1. \/ gadget' = gadget
          \/ \E u \in Users \ member, verified \in BOOLEAN : Insert(u, req[w].identifiers, verified)
      BY <1>4 DEF RegisterCommit, SocialCreate, directory
    <2>2. deleted \subseteq member
      BY DEF Profiles
    <2> QED BY <1>1, <1>2, <1>3, <2>1, <2>2
  <1>5. CASE CreateGadgetInsert(w)
    <2>1. PICK s \in RequestRow : s = req[w]
      BY DEF Work
    <2>2. req[w].step = "create" /\ req'[w] = Idle
      BY <1>5, DoneMoves DEF CreateGadgetInsert
    <2>3. s.user \in Users /\ s.user \notin deleted
      BY <2>1, <2>2, EndedAlone DEF Grasp, Current
    <2>4. gadget' = gadget \/ Insert(req[w].user, req[w].identifiers, FALSE)
      BY <1>5 DEF CreateGadgetInsert
    <2> QED BY <1>1, <1>2, <1>3, <2>1, <2>3, <2>4
  <1> QED BY <1>4, <1>5

\* A user who is saved by a request that nobody met keeps the mark.
LEMMA Saving ==
  ASSUME Aware, ~Overlapped, NEW w \in Workers, ChangePasswordSave(w) \/ ResetSave(w)
  PROVE  deleted' = deleted /\ gadget' = gadget
  <1> USE DEF Aware, Sound
  <1>1. PICK s \in RequestRow : s = req[w]
    BY DEF Work
  <1>2. s.step \in {"password", "reset"} /\ req'[w] = Idle /\ SaveUser(w) /\ gadget' = gadget
    BY <1>1, DoneMoves DEF ChangePasswordSave, ResetSave
  <1>3. Current(s)
    BY <1>1, <1>2, EndedAlone
  <1>4. s.deleted <=> s.user \in deleted
    BY <1>2, <1>3 DEF Current
  <1>5. deleted' = deleted
    BY <1>1, <1>2, <1>4 DEF SaveUser
  <1> QED BY <1>2, <1>5

LEMMA VerifiedStep ==
  ASSUME Aware, Next, ~AdminStep, ~Overlapped,
         ~(CleanupDelete /\ \E g \in doomed : gadget[g].verified),
         NEW u \in Users, VerifiedOf(u) # {}, VerifiedOf(u)' = {}
  PROVE  u \in deleted'
  <1> USE DEF Aware, Sound
  <1>1. CASE UNCHANGED <<deleted, gadget>>
    BY <1>1, SameGadgets
  <1>2. CASE CleanupDelete
    <2>1. gadget' = Without(doomed)
      BY <1>2 DEF CleanupDelete
    <2>2. VerifiedOf(u)' = VerifiedOf(u) \ doomed
      BY <2>1, DeletedGadgets
    <2>3. \A g \in VerifiedOf(u) : gadget[g].verified
      BY DEF VerifiedOf
    <2> QED BY <1>2, <2>2, <2>3
  <1>3. CASE (\E w \in Workers : VerifySave(w)) \/ (\E g \in Gadgets : GadgetAges(g))
    BY <1>3, UpdatedGadgets
  <1>4. ASSUME NEW w \in Workers, RegisterCommit(w) \/ SocialCreate(w) \/ CreateGadgetInsert(w)
        PROVE  u \in deleted'
    BY <1>4, Inserting
  <1>5. ASSUME NEW w \in Workers, DeleteGadgetRow(w) PROVE u \in deleted'
    <2>1. PICK s \in RequestRow : s = req[w]
      BY DEF Work
    <2>2. PICK c : c = {gadget[g].user : g \in {req[w].gadget} \cap Present}
      OBVIOUS
    <2>3. s.step = "delete" /\ req'[w] = Idle /\ gadget' = Without({s.gadget})
      BY <1>5, <2>1, <2>2, DoneWithMoves DEF DeleteGadgetRow
    <2>4. Current(s)
      BY <2>1, <2>3, EndedAlone
    <2>5. VerifiedOf(u)' = VerifiedOf(u) \ {s.gadget}
      BY <2>3, DeletedGadgets
    <2>6. s.gadget \in VerifiedOf(u) /\ VerifiedOf(u) \ {s.gadget} = {}
      BY <2>5
    <2>7. s.gadget \in Present /\ gadget[s.gadget].user = u /\ gadget[s.gadget].verified
      BY <2>6 DEF VerifiedOf, GadgetsOf
    <2>8. s.user = u
      BY <2>3, <2>4, <2>7 DEF Current
    <2> QED BY <2>3, <2>4, <2>6, <2>7, <2>8 DEF Current
  <1>6. ASSUME NEW w \in Workers, DeleteProfileCommit(w) PROVE u \in deleted'
    <2>1. /\ deleted' = deleted \cup {req[w].user}
          /\ gadget' = Without(GadgetsOf(req[w].user))
      BY <1>6 DEF DeleteProfileCommit
    <2>2. VerifiedOf(u)' = VerifiedOf(u) \ GadgetsOf(req[w].user)
      BY <2>1, DeletedGadgets
    <2>3. u # req[w].user => VerifiedOf(u) \cap GadgetsOf(req[w].user) = {}
      BY DEF VerifiedOf, GadgetsOf
    <2> QED BY <2>1, <2>2, <2>3
  <1>7. ASSUME NEW w \in Workers, ChangePasswordSave(w) \/ ResetSave(w) PROVE u \in deleted'
    BY <1>7, Saving, SameGadgets
  <1> QED BY <1>1, <1>2, <1>3, <1>4, <1>5, <1>6, <1>7, Writers

LEMMA DeletedStep ==
  ASSUME Aware, Next, ~AdminStep, ~Overlapped
  PROVE  /\ deleted \subseteq deleted'
         /\ \A u \in deleted' :
              \/ GadgetsOf(u)' = {}
              \/ u \in deleted /\ GadgetsOf(u)' \subseteq GadgetsOf(u)
  <1> USE DEF Aware, Sound
  <1>s. ASSUME deleted' = deleted, \A u \in deleted : GadgetsOf(u)' \subseteq GadgetsOf(u)
        PROVE  /\ deleted \subseteq deleted'
               /\ \A u \in deleted' :
                    \/ GadgetsOf(u)' = {}
                    \/ u \in deleted /\ GadgetsOf(u)' \subseteq GadgetsOf(u)
    BY <1>s
  <1>1. CASE UNCHANGED <<deleted, gadget>>
    BY <1>1, <1>s, SameGadgets
  <1>2. CASE CleanupDelete
    BY <1>2, <1>s, DeletedGadgets DEF CleanupDelete
  <1>3. CASE (\E w \in Workers : VerifySave(w)) \/ (\E g \in Gadgets : GadgetAges(g))
    BY <1>3, <1>s, UpdatedGadgets, UpdatedRows
  <1>4. CASE \E w \in Workers : RegisterCommit(w) \/ SocialCreate(w) \/ CreateGadgetInsert(w)
    BY <1>4, <1>s, Inserting
  <1>5. CASE \E w \in Workers : DeleteGadgetRow(w)
    BY <1>5, <1>s, DeletedGadgets DEF DeleteGadgetRow
  <1>6. ASSUME NEW w \in Workers, DeleteProfileCommit(w)
        PROVE  /\ deleted \subseteq deleted'
               /\ \A u \in deleted' :
                    \/ GadgetsOf(u)' = {}
                    \/ u \in deleted /\ GadgetsOf(u)' \subseteq GadgetsOf(u)
    <2>1. /\ deleted' = deleted \cup {req[w].user}
          /\ gadget' = Without(GadgetsOf(req[w].user))
      BY <1>6 DEF DeleteProfileCommit
    <2>2. \A x : GadgetsOf(x)' = GadgetsOf(x) \ GadgetsOf(req[w].user)
      BY <2>1, DeletedGadgets
    <2> QED BY <2>1, <2>2
  <1>7. CASE \E w \in Workers : ChangePasswordSave(w) \/ ResetSave(w)
    BY <1>7, <1>s, Saving, SameGadgets
  <1> QED BY <1>1, <1>2, <1>3, <1>4, <1>5, <1>6, <1>7, Writers

LEMMA CodesStep ==
  ASSUME Aware, NEW w \in Workers, req[w].step = "burn", req[w].code # MockCode, req[w].alone
  PROVE  /\ used[req[w].code] = 0
         /\ \A i \in req[w].identifiers : cache[<<req[w].purpose, i>>] \in {NoCode, req[w].code}
  <1>1. PICK s \in RequestRow : s = req[w]
    BY DEF Aware, Sound, Work
  <1>2. Current(s)
    BY <1>1 DEF Aware, Touch
  <1> QED BY <1>1, <1>2 DEF Current

LEMMA BurnStep ==
  ASSUME Aware, NEW w \in Workers, NEW k \in Keys, BurnCode(w), cache[k] # NoCode, cache'[k] = NoCode
  PROVE  req[w].code \in {cache[k], MockCode} \/ ~req[w].alone
  <1>1. PICK i \in req[w].identifiers : cache' = [cache EXCEPT ![<<req[w].purpose, i>>] = NoCode]
    BY DEF BurnCode, Key
  <1>2. k = <<req[w].purpose, i>>
    BY <1>1 DEF Aware, Sound, CachedCodesWereSent
  <1>3. req[w].step = "burn"
    BY DEF BurnCode
  <1> QED BY <1>2, <1>3, CodesStep

-----------------------------------------------------------------------------
LEMMA AlwaysAware == Spec => []Aware
  BY InitAware, NextAware, PTL DEF Spec

\* Whatever overlaps, a user who can sign in keeps a verified gadget, unless the
\* step deletes the profile, is the admin's, ends a request that was met by
\* another, or is a cleanup whose selection was verified since (delete_gadget).
THEOREM VerifiedGadgetsStay == Spec => KeepsVerifiedGadget
  <1>1. Aware /\ [Next]_vars =>
          [\A u \in Users : VerifiedOf(u) # {} /\ VerifiedOf(u)' = {} =>
             \/ u \in deleted'
             \/ AdminStep
             \/ Overlapped
             \/ CleanupDelete /\ \E g \in doomed : gadget[g].verified]_vars
    BY VerifiedStep
  <1> QED BY <1>1, AlwaysAware, PTL DEF Spec, KeepsVerifiedGadget

\* Only the admin site and a request that was met by another, which saves the user
\* it loaded before, bring a deleted profile back (change_password, password reset).
THEOREM DeletionIsFinal == Spec => DeletedStaysDeleted
  <1>1. Aware /\ [Next]_vars => [deleted \subseteq deleted' \/ AdminStep \/ Overlapped]_vars
    BY DeletedStep
  <1> QED BY <1>1, AlwaysAware, PTL DEF Spec, DeletedStaysDeleted

\* A profile that is deleted loses its gadgets with the mark and gets none later
\* (delete_profile, create_gadget), with the same two exceptions.
THEOREM DeletionEmpties == Spec => DeletedProfilesAreEmptied
  <1>1. Aware /\ [Next]_vars =>
          [\A u \in deleted' :
             \/ GadgetsOf(u)' = {}
             \/ u \in deleted /\ GadgetsOf(u)' \subseteq GadgetsOf(u)
             \/ AdminStep
             \/ Overlapped]_vars
    BY DeletedStep
  <1> QED BY <1>1, AlwaysAware, PTL DEF Spec, DeletedProfilesAreEmptied

\* A code is accepted a second time only by a request that overlapped another one
\* on the same identifier (both verify_otp_code).
THEOREM CodesAreSpent == Spec => CodesWorkOnce
  <1>1. Aware /\ [Next]_vars =>
          [\A w \in Workers :
             req[w].step = "burn" /\ req[w].code # MockCode /\ used[req[w].code] > 0
               => req'[w] = req[w] \/ ~req[w].alone \/ used' = used]_vars
    BY CodesStep
  <1> QED BY <1>1, AlwaysAware, PTL DEF Spec, CodesWorkOnce

\* A request takes another code than its own out of the cache only if that one was
\* sent while it ran (both verify_otp_code).
THEOREM CodesStayGood == Spec => LiveCodesSurvive
  <1>1. Aware /\ [Next]_vars =>
          [\A w \in Workers, k \in Keys :
             BurnCode(w) /\ cache[k] # NoCode /\ cache'[k] = NoCode
               => req[w].code \in {cache[k], MockCode} \/ ~req[w].alone]_vars
    BY BurnStep
  <1> QED BY <1>1, AlwaysAware, PTL DEF Spec, LiveCodesSurvive
=============================================================================
