------------------------------- MODULE SignIn -------------------------------
(***************************************************************************)
(* Tokens: whimo/auth/jwt/services.py, whimo/auth/social/service.py and the  *)
(* checks of whimo/common/authentication.py.  A token is a signed statement  *)
(* "user u"; the server keeps none, so the model keeps which users have a    *)
(* client that holds one.                                                   *)
(***************************************************************************)
EXTENDS Directory

VARIABLE token   \* users for whom some client holds a refresh token

Providers == {"google", "apple"}

\* The name under which each provider's client is registered with OAuth().
Registered == [p \in Providers |-> "google"]

\* JWTAuthentication: a valid token, and a profile that is not deleted.
Authenticated(u) == u \in token /\ u \notin deleted

-----------------------------------------------------------------------------
\* GadgetsModelBackend.authenticate: the identifier need not be verified.
Credentials(i, pw) ==
  {u \in Users : /\ \E g \in Named(i) : gadget[g].user = u
                 /\ u \notin deleted
                 /\ password[u] = pw}

\* obtain_token_pair.
ObtainTokenPair(i, pw) ==
  /\ \E u \in Credentials(i, pw) :
       /\ VerifiedOf(u) # {}
       /\ token' = token \cup {u}
  /\ UNCHANGED <<directory, doomed, req>>

\* refresh_token_pair: only the token's signature and date are looked at, so it
\* never ends before the client stops using it.  A token that is neither
\* refreshed nor young is of no use.
TokenExpires(u) ==
  /\ u \in token
  /\ token' = token \ {u}
  /\ UNCHANGED <<directory, doomed, req>>

-----------------------------------------------------------------------------
\* authorize_id_token and authorize_code, once the provider has confirmed the
\* address: the code asks the OAuth object for a client by the provider's name.
SocialFetch(w, provider, i) ==
  /\ req[w] = Idle
  /\ Registered[provider] = provider
  /\ LET found == Named(i) IN
     \/ /\ found # {}
        /\ token' = token \cup {gadget[g].user : g \in found}
        /\ UNCHANGED req
     \/ /\ found = {}
        /\ Continue(w, [Idle EXCEPT !.step = "social", !.identifiers = {i}])
        /\ UNCHANGED token
  /\ UNCHANGED <<directory, doomed>>

\* Mutant: the token is made for the user that the rolled back insert lost.
SocialCreateAnyway(w) ==
  /\ req[w].step = "social"
  /\ \E u \in Users \ member :
       /\ token' = token \cup {u}
       /\ UNCHANGED directory
  /\ Done(w)
  /\ UNCHANGED doomed

\* _create_user_with_gadget; an identifier taken meanwhile fails the insert.
SocialCreate(w) ==
  /\ req[w].step = "social"
  /\ \/ /\ Taken(req[w].identifiers)
        /\ UNCHANGED <<directory, token>>
     \/ \E u \in Users \ member, confirmed \in BOOLEAN :
          /\ Insert(u, req[w].identifiers, confirmed)
          /\ member' = member \cup {u}
          /\ token' = token \cup {u}
          /\ UNCHANGED <<deleted, password>>
  /\ Done(w)
  /\ UNCHANGED doomed
=============================================================================
