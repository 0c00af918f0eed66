------------------------------- MODULE Sessions -------------------------------
(***************************************************************************)
(* The life of a bearer token between a browser tab (AuthContext.tsx,      *)
(* lib/api.ts) and the API: issued by AuthController.login, checked by     *)
(* JWTAuthGuard, revoked by AuthController.logout through a key of Valkey  *)
(* that expires (core/security.py).                                        *)
(*                                                                         *)
(* Every call of the tab is a request of its own; the tab may start        *)
(* another one, or be reloaded, before the answer arrives, and answers     *)
(* arrive in any order.  On the server a request awaits Valkey between     *)
(* decoding the token and being let through.                               *)
(*                                                                         *)
(* Time goes in ticks, Second ticks to a second: clocks are read with      *)
(* fractions of a second, the exp claim and the TTL of a key are whole     *)
(* seconds.                                                                *)
(***************************************************************************)
EXTENDS Integers

CONSTANTS
  Tokens,     \* identifiers (jti) of the tokens (bounds the logins)
  Users,
  Calls,      \* requests under way at the same time
  Life,       \* ACCESS_TOKEN_EXPIRE_MINUTES, in ticks
  Second,     \* ticks to a second
  MaxTime,    \* bound on the clock
  None

ASSUME SessionsAssumption ==
  /\ None \notin Tokens /\ None \notin Users
  /\ Second \in Nat \ {0} /\ Life \in Nat /\ Life >= Second /\ MaxTime \in Nat

VARIABLES
  now,        \* the clock of the API and of Valkey
  sub,        \* sub[t]: the user token t was issued to, None before
  exp,        \* exp[t]: its exp claim
  until,      \* until[t]: when token:revoked:<t> expires, 0 if never set
  call,       \* call[c]: kind, token, progress and result of request c
  stored,     \* localStorage "access_token"
  token,      \* React state of AuthProvider
  user,
  isLoading

server == <<sub, exp, until>>
tab    == <<stored, token, user, isLoading>>
vars   == <<now, server, call, tab>>

Kinds == {"refresh", "login", "logout"}
Steps == {"sent", "decoded", "revoking", "answered"}
\* "cred" is the bearer token or, once a login is answered, the one it brings;
\* "heard" says whether the page that made the call is still there.
Call  == [kind: Kinds, as: Users \cup {None}, cred: Tokens \cup {None}, at: Steps,
          ttl: Nat, ok: BOOLEAN, heard: BOOLEAN]

TypeOK ==
  /\ now \in 0..MaxTime
  /\ sub \in [Tokens -> Users \cup {None}]
  /\ exp \in [Tokens -> Nat]
  /\ until \in [Tokens -> Nat]
  /\ call \in [Calls -> Call \cup {None}]
  /\ stored \in Tokens \cup {None} /\ token \in Tokens \cup {None}
  /\ user \in Users \cup {None}
  /\ isLoading \in BOOLEAN

\* The page after its first effect, with nothing stored.
Init ==
  /\ now = 0
  /\ sub = [t \in Tokens |-> None] /\ exp = [t \in Tokens |-> 0] /\ until = [t \in Tokens |-> 0]
  /\ call = [c \in Calls |-> None]
  /\ stored = None /\ token = None /\ user = None /\ isLoading = FALSE

-----------------------------------------------------------------------------
(* The tab                                                                 *)

isAuthenticated == token # None /\ user # None

\* A request leaves with the token stored at that moment.
Sent(kind, as, cred) ==
  [kind |-> kind, as |-> as, cred |-> cred, at |-> "sent", ttl |-> 0, ok |-> FALSE, heard |-> TRUE]

Forget == stored' = None /\ token' = None /\ user' = None

\* Mutated forms (operators named "Broken") hold a plausible bug each, for the
\* mutation runs; nothing else uses them.

\* refreshProfile, from the "Refresh" button of the shell.
ClickRefresh(c) ==
  /\ call[c] = None /\ isAuthenticated /\ ~isLoading
  /\ IF stored = None
     THEN user' = None /\ isLoading' = FALSE /\ UNCHANGED call
     ELSE call' = [call EXCEPT ![c] = Sent("refresh", None, stored)] /\ UNCHANGED <<user, isLoading>>
  /\ UNCHANGED <<now, server, stored, token>>

\* The login form is shown to a tab that is neither loading nor signed in.
Login(c) ==
  /\ call[c] = None /\ ~isAuthenticated /\ ~isLoading
  /\ \E u \in Users : call' = [call EXCEPT ![c] = Sent("login", u, None)]
  /\ isLoading' = TRUE
  /\ UNCHANGED <<now, server, stored, token, user>>

Logout(c) ==
  /\ call[c] = None /\ isAuthenticated /\ ~isLoading
  /\ call' = [call EXCEPT ![c] = Sent("logout", None, stored)]
  /\ UNCHANGED <<now, server, tab>>

\* The page is loaded anew: the state starts over from the store, the first
\* effect refreshes the profile, nobody hears the calls under way.
Reload(c) ==
  /\ call[c] = None
  /\ token' = stored /\ user' = None /\ isLoading' = (stored # None)
  /\ call' = [d \in Calls |->
                IF d = c /\ stored # None THEN Sent("refresh", None, stored)
                ELSE IF call[d] = None THEN None ELSE [call[d] EXCEPT !.heard = FALSE]]
  /\ UNCHANGED <<now, server, stored>>

Answered(c, kind) == call[c] # None /\ call[c].at = "answered" /\ call[c].kind = kind /\ call[c].heard
Done(c) == call' = [call EXCEPT ![c] = None]

\* A refresh puts the token it was sent with back.
BrokenProfileRestores(c) ==
  /\ Answered(c, "refresh") /\ Done(c) /\ isLoading' = FALSE
  /\ IF call[c].ok THEN /\ user' = sub[call[c].cred]
                        /\ stored' = call[c].cred /\ token' = call[c].cred
     ELSE Forget
  /\ UNCHANGED <<now, server>>

\* refreshProfile goes on: whatever the failure, the stored token is dropped.
ProfileArrives(c) ==
  /\ Answered(c, "refresh") /\ Done(c) /\ isLoading' = FALSE
  /\ IF call[c].ok THEN user' = sub[call[c].cred] /\ UNCHANGED <<stored, token>> ELSE Forget
  /\ UNCHANGED <<now, server>>

\* A refused login leaves the spinner on.
BrokenTokenArrives(c) ==
  /\ Answered(c, "login")
  /\ IF call[c].ok
     THEN /\ stored' = call[c].cred /\ token' = call[c].cred
          /\ call' = [call EXCEPT ![c] = Sent("refresh", None, call[c].cred)]
          /\ UNCHANGED <<user, isLoading>>
     ELSE Done(c) /\ UNCHANGED <<stored, token, user, isLoading>>
  /\ UNCHANGED <<now, server>>

\* login goes on: it stores the token and refreshes the profile.
TokenArrives(c) ==
  /\ Answered(c, "login")
  /\ IF call[c].ok
     THEN /\ stored' = call[c].cred /\ token' = call[c].cred
          /\ call' = [call EXCEPT ![c] = Sent("refresh", None, call[c].cred)]
          /\ UNCHANGED <<user, isLoading>>
     ELSE Done(c) /\ isLoading' = FALSE /\ UNCHANGED <<stored, token, user>>
  /\ UNCHANGED <<now, server>>

\* logout goes on, also after an error: best effort clean-up.
LogoutArrives(c) ==
  /\ Answered(c, "logout") /\ Done(c) /\ Forget
  /\ UNCHANGED <<now, server, isLoading>>

\* An answer to a page that is gone.
Unheard(c) ==
  /\ call[c] # None /\ call[c].at = "answered" /\ ~call[c].heard /\ Done(c)
  /\ UNCHANGED <<now, server, tab>>

-----------------------------------------------------------------------------
(* The API                                                                 *)

Reach(c, step) == call[c] # None /\ call[c].at = step
Reply(c, ok)   == call' = [call EXCEPT ![c].at = "answered", ![c].ok = ok, ![c].ttl = 0]

\* _authenticate: create_access_token signs a new jti; exp is cut to a second.
Issue(c) ==
  /\ Reach(c, "sent") /\ call[c].kind = "login"
  /\ \E x \in Tokens : sub[x] = None
  /\ LET t == CHOOSE x \in Tokens : sub[x] = None IN
       /\ sub' = [sub EXCEPT ![t] = call[c].as]
       /\ exp' = [exp EXCEPT ![t] = ((now + Life) \div Second) * Second]
       /\ call' = [call EXCEPT ![c].at = "answered", ![c].ok = TRUE, ![c].cred = t]
  /\ UNCHANGED <<now, until, tab>>

\* jwt.decode raises from the second of exp on; signatures are always right.
decode_access_token(t) == now < exp[t]

\* JWTAuthGuard: signature and expiry.
Decode(c) ==
  /\ Reach(c, "sent") /\ call[c].kind # "login"
  /\ IF decode_access_token(call[c].cred) THEN call' = [call EXCEPT ![c].at = "decoded"] ELSE Reply(c, FALSE)
  /\ UNCHANGED <<now, server, tab>>

\* GET token:revoked:<jti>.
isRevoked(t) == now < until[t]

\* min for max.
BrokenRemaining(t) == IF exp[t] - now < Second THEN (exp[t] - now) \div Second ELSE 1

\* max(1, int(exp - now)): the TTL logout gives the key, in seconds.
Remaining(t) == IF exp[t] - now < Second THEN 1 ELSE (exp[t] - now) \div Second

\* JWTAuthGuard: revocation; then the handler, which for logout decodes again.
Check(c) ==
  /\ Reach(c, "decoded")
  /\ LET t == call[c].cred IN
     IF isRevoked(t) \/ (call[c].kind = "logout" /\ now >= exp[t]) THEN Reply(c, FALSE)
     ELSE IF call[c].kind = "refresh" THEN Reply(c, TRUE)
     ELSE call' = [call EXCEPT ![c].at = "revoking", ![c].ttl = Remaining(t)]
  /\ UNCHANGED <<now, server, tab>>

\* The answer does not wait for Valkey, and the SET is lost.
BrokenRevoke(c) ==
  /\ Reach(c, "revoking") /\ Reply(c, TRUE)
  /\ UNCHANGED <<now, server, tab>>

\* SET token:revoked:<jti> EX ttl.
Revoke(c) ==
  /\ Reach(c, "revoking")
  /\ until' = [until EXCEPT ![call[c].cred] = now + call[c].ttl * Second]
  /\ Reply(c, TRUE)
  /\ UNCHANGED <<now, sub, exp, tab>>

\* The network, a limit, the credentials or Valkey: any other answer.
Fails(c) ==
  /\ call[c] # None /\ call[c].at # "answered"
  /\ Reply(c, FALSE)
  /\ UNCHANGED <<now, server, tab>>

Tick == now < MaxTime /\ now' = now + 1 /\ UNCHANGED <<server, call, tab>>

Serve(c) == Issue(c) \/ Decode(c) \/ Check(c) \/ Revoke(c) \/ Fails(c)
Hear(c)  == ProfileArrives(c) \/ TokenArrives(c) \/ LogoutArrives(c) \/ Unheard(c)
Click(c) == ClickRefresh(c) \/ Login(c) \/ Logout(c) \/ Reload(c)
Next == Tick \/ \E c \in Calls : Click(c) \/ Serve(c) \/ Hear(c)

\* Every request is answered, if only by an error, and the tab runs the code
\* that awaits the answer.
Fairness == \A c \in Calls : WF_vars(Serve(c)) /\ WF_vars(Hear(c))

Spec == Init /\ [][Next]_vars /\ Fairness

-----------------------------------------------------------------------------
(* What must hold                                                          *)

\* A revoked token is let through again only in the last second before its exp
\* claim, whenever the logout came and however long its SET was on the way: the
\* key lives as long as the token, to the second.
RevokedStaysRefused ==
  [][\A c \in Calls :
       Reach(c, "decoded") /\ until[call[c].cred] # 0 /\ (Reach(c, "revoking")' \/ call'[c].ok)
         => now + Second > exp[call[c].cred]]_vars

\* A logout that the API confirms to the tab has revoked the token it carried.
ConfirmedLogoutRevokes ==
  \A c \in Calls : call[c] # None /\ call[c].kind = "logout" /\ call[c].ok => until[call[c].cred] # 0

\* The store and the React state name the same token, in whatever order the
\* answers of overlapping calls arrive.
StoreMatchesState == token = stored

\* An answer that arrives late revives no session: a tab without a token gets
\* one from an answered login only.
OnlyLoginSignsIn ==
  [][token = None /\ token' # None =>
       \E c \in Calls : Answered(c, "login") /\ call[c].ok /\ token' = call[c].cred]_vars

\* The spinner that hides the whole application goes away, again and again,
\* unless the page is reloaded for ever.
SpinnerEnds == []<>~isLoading \/ []<><<\E c \in Calls : Reload(c)>>_vars
=============================================================================
