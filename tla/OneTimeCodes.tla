---------------------------- MODULE OneTimeCodes ----------------------------
(***************************************************************************)
(* One-time codes for verifying a gadget and for resetting a password:       *)
(* whimo/auth/otp/services.  The tasks that carry them are in module         *)
(* TaskQueue; a message that is lost is here one that nobody answers.       *)
(***************************************************************************)
EXTENDS SignIn

CONSTANT MockCode   \* settings.OTP_MOCK_CODE, NoCode when it is not set

ASSUME MockAssumption == MockCode \in Codes \cup {NoCode}

VARIABLES
  cache,      \* the code under each key, NoCode where none is (or it expired)
  received,   \* messages to the holder of each identifier
  used        \* how often each code was accepted for more than a check

codeVars == <<cache, received, used>>

\* OTP_CACHE_KEY and PASSWORD_RESET_CACHE_KEY, formatted with the identifier.
Keys == Purposes \X Identifiers

\* Mutant: both kinds of code share a key.
KeyOfIdentifier(purpose, i) == <<"otp", i>>

Key(purpose, i) == <<purpose, i>>

Issued == {c \in Codes : \/ \E k \in Keys : cache[k] = c
                         \/ \E m \in received : m.code = c
                         \/ \E w \in Workers : req[w].code = c
                         \/ used[c] > 0}

-----------------------------------------------------------------------------
\* Both send_otp_code: the gadget exists, the code replaces an older one in the
\* cache, and a task is queued that delivers it.
SendCode(purpose, i) ==
  /\ Named(i) # {}
  /\ \E c \in Codes \ Issued :
       /\ cache' = [cache EXCEPT ![Key(purpose, i)] = c]
       /\ received' = received \cup {[code |-> c, purpose |-> purpose, to |-> i]}
  /\ Intrude({i})
  /\ UNCHANGED <<directory, doomed, token, used>>

\* settings.OTP_EXPIRY_MINUTES have passed.
CodeExpires(k) ==
  /\ cache[k] # NoCode
  /\ cache' = [cache EXCEPT ![k] = NoCode]
  /\ UNCHANGED <<directory, doomed, req, token, received, used>>

-----------------------------------------------------------------------------
\* cache.get(key) == code, or the code that settings allow everywhere.
Matches(k, c) == cache[k] = c \/ (MockCode # NoCode /\ c = MockCode)

\* The first statement of both verify_otp_code.  Whoever received code c for
\* identifier i presents it, for either purpose.
PresentCode(w, purpose, i, c, pw) ==
  /\ req[w] = Idle
  /\ Matches(Key(purpose, i), c)
  /\ Continue(w, [Idle EXCEPT !.step = "burn", !.purpose = purpose, !.identifiers = {i},
                              !.code = c, !.password = pw])
  /\ UNCHANGED <<directory, doomed, token, codeVars>>

\* Mutant: the code stays in the cache.
BurnNothing(w) ==
  /\ req[w].step = "burn"
  /\ used' = [used EXCEPT ![req[w].code] = @ + 1]
  /\ \E i \in req[w].identifiers :
       /\ \/ Named(i) = {} /\ Done(w)
          \/ \E g \in Named(i) :
               Continue(w, IF req[w].purpose = "otp"
                           THEN [req[w] EXCEPT !.step = "verify", !.gadget = g]
                           ELSE [req[w] EXCEPT !.step = "reset", !.user = gadget[g].user,
                                               !.deleted = gadget[g].user \in deleted])
  /\ UNCHANGED <<directory, doomed, token, cache, received>>

\* Mutant: every code for the identifier goes.
BurnAll(w) ==
  /\ req[w].step = "burn"
  /\ used' = [used EXCEPT ![req[w].code] = @ + 1]
  /\ \E i \in req[w].identifiers :
       /\ cache' = [k \in Keys |-> IF k[2] = i THEN NoCode ELSE cache[k]]
       /\ \/ Named(i) = {} /\ Done(w)
          \/ \E g \in Named(i) :
               Continue(w, IF req[w].purpose = "otp"
                           THEN [req[w] EXCEPT !.step = "verify", !.gadget = g]
                           ELSE [req[w] EXCEPT !.step = "reset", !.user = gadget[g].user,
                                               !.deleted = gadget[g].user \in deleted])
  /\ UNCHANGED <<directory, doomed, token, received>>

\* cache.delete(key), whatever code is there by now; then the gadget is loaded,
\* with its user when the password is to be reset.
BurnCode(w) ==
  /\ req[w].step = "burn"
  /\ used' = [used EXCEPT ![req[w].code] = @ + 1]
  /\ \E i \in req[w].identifiers :
       /\ cache' = [cache EXCEPT ![Key(req[w].purpose, i)] = NoCode]
       /\ \/ Named(i) = {} /\ Done(w)
          \/ \E g \in Named(i) :
               Continue(w, IF req[w].purpose = "otp"
                           THEN [req[w] EXCEPT !.step = "verify", !.gadget = g]
                           ELSE [req[w] EXCEPT !.step = "reset", !.user = gadget[g].user,
                                               !.deleted = gadget[g].user \in deleted])
  /\ UNCHANGED <<directory, doomed, token, received>>

\* UPDATE of is_verified by primary key; a row that is gone fails the request.
VerifySave(w) ==
  /\ req[w].step = "verify"
  /\ gadget' = [gadget EXCEPT ![req[w].gadget].verified = @ \/ req[w].gadget \in Present]
  /\ Done(w)
  /\ UNCHANGED <<member, deleted, password, doomed, token, codeVars>>

\* set_password, and user.save() of every column.
ResetSave(w) ==
  /\ req[w].step = "reset"
  /\ SaveUser(w)
  /\ Done(w)
  /\ UNCHANGED <<member, gadget, doomed, token, codeVars>>

CodesInit ==
  /\ cache = [k \in Keys |-> NoCode]
  /\ received = {}
  /\ used = [c \in Codes \cup {NoCode, MockCode} |-> 0]
=============================================================================
