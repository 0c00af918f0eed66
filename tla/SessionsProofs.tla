---------------------------- MODULE SessionsProofs ----------------------------
(***************************************************************************)
(* Theorems about Sessions for any number of tokens, users and requests    *)
(* under way, any lifetime and any length of a tick.                       *)
(***************************************************************************)
EXTENDS Sessions, TLAPS

USE SessionsAssumption

\* The key that call c is about to set lives on until the last second of the token.
Covers(c) == now + (call[c].ttl * Second) + Second > exp[call[c].cred]

\* What holds of a call by itself.
Sound(c) ==
  call[c] # None =>
    /\ call[c].kind = "login" => call[c].as \in Users
    /\ call[c].kind # "login" \/ call[c].ok => call[c].cred \in Tokens /\ sub[call[c].cred] # None
    /\ call[c].at # "answered" => ~call[c].ok
    /\ call[c].at \in {"decoded", "revoking"} => call[c].kind # "login"
    /\ call[c].at = "revoking" => call[c].kind = "logout" /\ call[c].ttl >= 1 /\ Covers(c)
    /\ call[c].kind = "logout" /\ call[c].ok => until[call[c].cred] # 0

\* A key outlives its token but for its last second, and was set for one that
\* was issued.
Keys ==
  \A t \in Tokens : until[t] # 0 => sub[t] # None /\ until[t] + Second > exp[t]

IInv ==
  /\ TypeOK
  /\ \A c \in Calls : Sound(c)
  /\ Keys
  /\ StoreMatchesState
  /\ stored # None => sub[stored] # None

LEMMA Initially == Init => IInv
<1> SUFFICES ASSUME Init PROVE IInv
  OBVIOUS
<1> USE DEF Init
<1>1. TypeOK
  <2>1. now \in 0..MaxTime
    OBVIOUS
  <2>2. exp \in [Tokens -> Nat] /\ until \in [Tokens -> Nat] /\ sub \in [Tokens -> Users \cup {None}]
    OBVIOUS
  <2>3. call \in [Calls -> Call \cup {None}]
    OBVIOUS
  <2>4. QED
    BY <2>1, <2>2, <2>3 DEF TypeOK
<1>2. Keys /\ StoreMatchesState /\ \A c \in Calls : Sound(c)
  BY DEF Keys, StoreMatchesState, Sound
<1>3. stored = None
  OBVIOUS
<1>4. QED
  BY <1>1, <1>2, <1>3 DEF IInv

-----------------------------------------------------------------------------
(* Whole seconds                                                           *)

\* What is left of a token, cut to seconds, is short of it by less than one.
LEMMA Seconds ==
  ASSUME NEW a \in Nat
  PROVE  a \div Second \in Nat /\ ((a \div Second) * Second) + Second > a /\ (a >= Second => a \div Second >= 1)
<1>1. Second \in Nat /\ Second > 0
  OBVIOUS
<1>2. a \div Second \in Int /\ a \div Second >= 0 /\ a % Second \in 0..(Second - 1)
  BY <1>1
<1>3. a = (a \div Second) * Second + (a % Second)
  BY <1>1
<1>4. ((a \div Second) * Second) + Second > a
  BY <1>1, <1>2, <1>3
<1>5. a >= Second => a \div Second >= 1
  BY <1>1
<1>6. QED
  BY <1>2, <1>4, <1>5

LEMMA Products ==
  ASSUME NEW a \in Nat
  PROVE  a * Second \in Nat /\ (a >= 1 => a * Second >= 1)
<1>1. Second \in Nat /\ Second > 0
  OBVIOUS
<1>2. QED
  BY <1>1

\* The key logout sets outlives the token but for its last second.
LEMMA TimeLeft ==
  ASSUME TypeOK, NEW t \in Tokens, now < exp[t]
  PROVE  /\ Remaining(t) \in Nat /\ Remaining(t) >= 1
         /\ now + (Remaining(t) * Second) + Second > exp[t]
<1>1. now \in Nat /\ exp[t] \in Nat /\ Second \in Nat /\ Second > 0
  BY DEF TypeOK
<1>2. CASE exp[t] - now < Second
  BY <1>1, <1>2 DEF Remaining
<1>3. CASE ~(exp[t] - now < Second)
  <2> DEFINE a == exp[t] - now
             q == a \div Second
             p == q * Second
  <2>1. a \in Nat /\ a >= Second
    BY <1>1, <1>3
  <2>2. q \in Nat /\ p + Second > a /\ q >= 1
    <3> HIDE DEF a
    <3>1. QED
      BY <2>1, Seconds
  <2>3. p \in Nat
    <3> HIDE DEF q
    <3>1. QED
      BY <2>2, Products
  <2>4. Remaining(t) = q
    BY <1>3 DEF Remaining
  <2>5. now + p + Second > exp[t]
    <3> HIDE DEF p
    <3>1. QED
      BY <1>1, <2>2, <2>3
  <2>6. QED
    BY <2>2, <2>4, <2>5
<1>4. QED
  BY <1>2, <1>3

-----------------------------------------------------------------------------
(* Steps                                                                   *)

\* What the server knows only grows, and the clock runs.
Grows ==
  /\ now' >= now
  /\ \A t \in Tokens : sub[t] # None => sub'[t] # None /\ exp'[t] = exp[t]
  /\ \A t \in Tokens : until[t] # 0 => until'[t] # 0

\* A call that is where it was, or whose page is gone, stays sound.
LEMMA Kept ==
  ASSUME IInv, TypeOK', Grows, NEW c \in Calls,
         \/ call'[c] = call[c]
         \/ call[c] # None /\ call'[c] = [call[c] EXCEPT !.heard = FALSE]
  PROVE  Sound(c)'
<1>1. CASE call[c] = None
  BY <1>1 DEF Sound
<1>2. CASE call[c] # None
  <2>1. call[c] \in Call
    BY <1>2 DEF IInv, TypeOK
  <2>2. /\ call'[c].kind = call[c].kind /\ call'[c].cred = call[c].cred /\ call'[c].as = call[c].as
        /\ call'[c].at = call[c].at /\ call'[c].ttl = call[c].ttl /\ call'[c].ok = call[c].ok
    BY <1>2, <2>1 DEF Call
  <2>3. Sound(c)
    BY DEF IInv
  <2>4. ASSUME call[c].at = "revoking" PROVE Covers(c)'
    <3>1. call[c].ttl \in Nat /\ call[c].cred \in Tokens /\ sub[call[c].cred] # None /\ Covers(c)
      BY <1>2, <2>1, <2>3, <2>4 DEF Call, Sound
    <3>2. (call[c].ttl * Second) \in Nat
      BY <3>1, Products
    <3>3. exp'[call[c].cred] = exp[call[c].cred] /\ exp[call[c].cred] \in Nat
      BY <3>1 DEF Grows, IInv, TypeOK
    <3>4. now \in Nat /\ now' \in Nat /\ now' >= now
      BY DEF Grows, IInv, TypeOK
    <3> DEFINE p == call[c].ttl * Second
    <3>5. now + p + Second > exp[call[c].cred] /\ p \in Nat
      BY <3>1, <3>2 DEF Covers
    <3>6. now' + p + Second > exp'[call[c].cred]
      <4> HIDE DEF p
      <4>1. QED
        BY <3>3, <3>4, <3>5
    <3>7. QED
      BY <2>2, <3>6 DEF Covers
  <2>5. /\ call[c].cred \in Tokens /\ sub[call[c].cred] # None => sub'[call[c].cred] # None
        /\ call[c].cred \in Tokens /\ until[call[c].cred] # 0 => until'[call[c].cred] # 0
    BY DEF Grows
  <2>6. QED
    BY <1>2, <2>2, <2>3, <2>4, <2>5 DEF Sound
<1>3. QED
  BY <1>1, <1>2

\* A step that leaves the server alone.
LEMMA ServerKept ==
  ASSUME IInv, UNCHANGED server, now' >= now
  PROVE  Grows /\ Keys'
BY DEF IInv, Grows, Keys, TypeOK, server

\* What a page does: a call is sent, or heard, and the page changes.
LEMMA Page ==
  ASSUME IInv, UNCHANGED <<now, server>>,
         call' \in [Calls -> Call \cup {None}],
         \A c \in Calls :
            \/ call'[c] = call[c] \/ call'[c] = None
            \/ call[c] # None /\ call'[c] = [call[c] EXCEPT !.heard = FALSE]
            \/ \E kind \in Kinds, u \in Users \cup {None}, t \in Tokens \cup {None} :
                  /\ call'[c] = Sent(kind, u, t)
                  /\ IF kind = "login" THEN u \in Users ELSE t \in Tokens /\ sub[t] # None,
         token' = stored', stored' \in Tokens \cup {None}, stored' # None => sub[stored'] # None,
         user' \in Users \cup {None}, isLoading' \in BOOLEAN
  PROVE  IInv'
<1>1. TypeOK'
  BY DEF IInv, TypeOK, server
<1>2. Grows /\ Keys'
  BY ServerKept DEF IInv, TypeOK
<1>3. ASSUME NEW c \in Calls PROVE Sound(c)'
  <2>1. CASE call'[c] = None
    BY <2>1 DEF Sound
  <2>2. CASE call'[c] = call[c] \/ (call[c] # None /\ call'[c] = [call[c] EXCEPT !.heard = FALSE])
    BY <1>1, <1>2, <2>2, Kept
  <2>3. ASSUME NEW kind \in Kinds, NEW u \in Users \cup {None}, NEW t \in Tokens \cup {None},
               call'[c] = Sent(kind, u, t), IF kind = "login" THEN u \in Users ELSE t \in Tokens /\ sub[t] # None
        PROVE  Sound(c)'
    BY <1>2, <2>3 DEF Sound, Sent, Grows
  <2>4. QED
    BY <2>1, <2>2, <2>3
<1>4. QED
  BY <1>1, <1>2, <1>3 DEF IInv, StoreMatchesState, server

LEMMA Sends ==
  ASSUME IInv, NEW kind \in Kinds, NEW u \in Users \cup {None}, NEW t \in Tokens \cup {None}
  PROVE  Sent(kind, u, t) \in Call
BY DEF Sent, Call, Steps

LEMMA ClickSteps == ASSUME IInv, NEW c \in Calls, ClickRefresh(c) \/ Login(c) \/ Logout(c) PROVE IInv'
<1>1. CASE ClickRefresh(c) /\ stored = None
  <2>1. UNCHANGED <<now, server, stored, token, call>> /\ user' = None /\ isLoading' = FALSE
    BY <1>1 DEF ClickRefresh
  <2>2. call' \in [Calls -> Call \cup {None}]
    BY <2>1 DEF IInv, TypeOK
  <2>3. token' = stored' /\ stored' \in Tokens \cup {None} /\ (stored' # None => sub[stored'] # None)
    BY <2>1 DEF IInv, TypeOK, StoreMatchesState
  <2>4. QED
    BY <2>1, <2>2, <2>3, Page
<1>2. ASSUME NEW kind \in Kinds, NEW u \in Users \cup {None}, NEW t \in Tokens \cup {None},
             call' = [call EXCEPT ![c] = Sent(kind, u, t)],
             IF kind = "login" THEN u \in Users ELSE t \in Tokens /\ sub[t] # None,
             UNCHANGED <<now, server, stored, token, user>>, isLoading' \in BOOLEAN
      PROVE  IInv'
  <2>1. call' \in [Calls -> Call \cup {None}]
    BY <1>2, Sends DEF IInv, TypeOK
  <2>2. call'[c] = Sent(kind, u, t) /\ \A d \in Calls : d # c => call'[d] = call[d]
    BY <1>2 DEF IInv, TypeOK
  <2>3. /\ token' = stored' /\ stored' \in Tokens \cup {None} /\ (stored' # None => sub[stored'] # None)
        /\ user' \in Users \cup {None}
    BY <1>2 DEF IInv, TypeOK, StoreMatchesState
  <2>4. \A d \in Calls :
            \/ call'[d] = call[d]
            \/ \E k \in Kinds, v \in Users \cup {None}, x \in Tokens \cup {None} :
                  /\ call'[d] = Sent(k, v, x)
                  /\ IF k = "login" THEN v \in Users ELSE x \in Tokens /\ sub[x] # None
    BY <1>2, <2>2
  <2>5. QED
    BY <1>2, <2>1, <2>3, <2>4, Page
<1>3. CASE ClickRefresh(c) /\ stored # None
  <2>1. stored \in Tokens /\ sub[stored] # None /\ isLoading \in BOOLEAN
    BY <1>3 DEF IInv, TypeOK
  <2>2. "refresh" \in Kinds
    BY DEF Kinds
  <2>3. QED
    BY <1>2, <1>3, <2>1, <2>2 DEF ClickRefresh
<1>4. CASE Login(c)
  <2>1. "login" \in Kinds
    BY DEF Kinds
  <2>2. QED
    BY <1>2, <1>4, <2>1 DEF Login
<1>5. CASE Logout(c)
  <2>1. "logout" \in Kinds
    BY DEF Kinds
  <2>2. stored \in Tokens /\ sub[stored] # None /\ isLoading \in BOOLEAN
    BY <1>5 DEF IInv, TypeOK, Logout, isAuthenticated, StoreMatchesState
  <2>3. QED
    BY <1>2, <1>5, <2>1, <2>2 DEF Logout, tab
<1>6. QED
  BY <1>1, <1>3, <1>4, <1>5

LEMMA ReloadSteps == ASSUME IInv, NEW c \in Calls, Reload(c) PROVE IInv'
<1>1. /\ token' = stored /\ user' = None /\ isLoading' = (stored # None)
      /\ UNCHANGED <<now, server, stored>> /\ call[c] = None
  BY DEF Reload
<1>2. \A d \in Calls :
         call'[d] = IF d = c /\ stored # None THEN Sent("refresh", None, stored)
                    ELSE IF call[d] = None THEN None ELSE [call[d] EXCEPT !.heard = FALSE]
  BY DEF Reload
<1>3. "refresh" \in Kinds /\ stored \in Tokens \cup {None} /\ (stored # None => sub[stored] # None)
  BY DEF Kinds, IInv, TypeOK
<1>4. call' \in [Calls -> Call \cup {None}]
  <2>1. \A d \in Calls : call[d] # None => [call[d] EXCEPT !.heard = FALSE] \in Call
    <3>1. \A d \in Calls : call[d] # None => call[d] \in Call
      BY DEF IInv, TypeOK
    <3>2. QED
      BY <3>1 DEF Call
  <2>2. Sent("refresh", None, stored) \in Call
    BY <1>3, Sends
  <2>3. QED
    BY <2>1, <2>2 DEF Reload
<1>5. \A d \in Calls :
         \/ call'[d] = None
         \/ call[d] # None /\ call'[d] = [call[d] EXCEPT !.heard = FALSE]
         \/ \E k \in Kinds, v \in Users \cup {None}, x \in Tokens \cup {None} :
               /\ call'[d] = Sent(k, v, x)
               /\ IF k = "login" THEN v \in Users ELSE x \in Tokens /\ sub[x] # None
  BY <1>2, <1>3
<1>6. QED
  BY <1>1, <1>3, <1>4, <1>5, Page

LEMMA HearSteps == ASSUME IInv, NEW c \in Calls, Hear(c) PROVE IInv'
<1>1. call[c] # None /\ call[c].at = "answered" /\ call[c] \in Call /\ Sound(c) /\ UNCHANGED <<now, server>>
  BY DEF Hear, ProfileArrives, TokenArrives, LogoutArrives, Unheard, Answered, IInv, TypeOK
<1>2. StoreMatchesState /\ stored \in Tokens \cup {None} /\ (stored # None => sub[stored] # None)
  BY DEF IInv, TypeOK
<1>3. user \in Users \cup {None} /\ isLoading \in BOOLEAN
  BY DEF IInv, TypeOK
<1>4. CASE Done(c) /\ ~(TokenArrives(c) /\ call[c].ok)
  <2>1. call' \in [Calls -> Call \cup {None}] /\ call'[c] = None /\ \A d \in Calls : d # c => call'[d] = call[d]
    BY <1>4 DEF Done, IInv, TypeOK
  <2>2. \A d \in Calls : call'[d] = call[d] \/ call'[d] = None
    BY <2>1
  <2>3. CASE ProfileArrives(c)
    <3>1. call[c].cred \in Tokens
      BY <1>1, <2>3 DEF ProfileArrives, Answered, Sound
    <3>2. sub[call[c].cred] \in Users \cup {None}
      BY <3>1 DEF IInv, TypeOK
    <3>3. /\ user' \in Users \cup {None} /\ isLoading' \in BOOLEAN
          /\ (stored' = stored /\ token' = token) \/ (stored' = None /\ token' = None)
      BY <2>3, <3>2 DEF ProfileArrives, Forget
    <3>4. token' = stored' /\ stored' \in Tokens \cup {None} /\ (stored' # None => sub[stored'] # None)
      BY <1>2, <3>3 DEF StoreMatchesState
    <3>5. QED
      BY <1>1, <2>1, <2>2, <3>3, <3>4, Page
  <2>4. CASE TokenArrives(c) /\ ~call[c].ok
    <3>1. UNCHANGED <<stored, token, user>> /\ isLoading' = FALSE
      BY <2>4 DEF TokenArrives
    <3>2. token' = stored' /\ stored' \in Tokens \cup {None} /\ (stored' # None => sub[stored'] # None)
      BY <1>2, <3>1 DEF StoreMatchesState
    <3>3. QED
      BY <1>1, <1>3, <2>1, <2>2, <3>1, <3>2, Page
  <2>5. CASE LogoutArrives(c)
    BY <1>1, <1>3, <2>1, <2>2, <2>5, Page DEF LogoutArrives, Forget
  <2>6. CASE Unheard(c)
    <3>1. UNCHANGED tab
      BY <2>6 DEF Unheard
    <3>2. token' = stored' /\ stored' \in Tokens \cup {None} /\ (stored' # None => sub[stored'] # None)
      BY <1>2, <3>1 DEF StoreMatchesState, tab
    <3>3. QED
      BY <1>1, <1>3, <2>1, <2>2, <3>1, <3>2, Page DEF tab
  <2>7. QED
    BY <1>4, <2>3, <2>4, <2>5, <2>6 DEF Hear
<1>5. CASE TokenArrives(c) /\ call[c].ok
  <2>1. call[c].cred \in Tokens /\ sub[call[c].cred] # None
    BY <1>1, <1>5 DEF Sound
  <2>2. /\ stored' = call[c].cred /\ token' = call[c].cred /\ UNCHANGED <<user, isLoading>>
        /\ call' = [call EXCEPT ![c] = Sent("refresh", None, call[c].cred)]
    BY <1>5 DEF TokenArrives
  <2>3. "refresh" \in Kinds
    BY DEF Kinds
  <2>4. call' \in [Calls -> Call \cup {None}]
    BY <2>1, <2>2, <2>3, Sends DEF IInv, TypeOK
  <2>5. \A d \in Calls :
           \/ call'[d] = call[d]
           \/ \E k \in Kinds, v \in Users \cup {None}, x \in Tokens \cup {None} :
                 /\ call'[d] = Sent(k, v, x)
                 /\ IF k = "login" THEN v \in Users ELSE x \in Tokens /\ sub[x] # None
    BY <2>1, <2>2, <2>3 DEF IInv, TypeOK
  <2>6. sub' = sub
    BY <1>1 DEF server
  <2>7. QED
    BY <1>1, <1>3, <2>1, <2>2, <2>4, <2>5, <2>6, Page
<1>6. Done(c) \/ (TokenArrives(c) /\ call[c].ok)
  BY DEF Hear, ProfileArrives, TokenArrives, LogoutArrives, Unheard
<1>7. QED
  BY <1>4, <1>5, <1>6

\* What the server does: one call moves on.
LEMMA Served ==
  ASSUME IInv, NEW c \in Calls, NEW new \in Call, call' = [call EXCEPT ![c] = new],
         UNCHANGED <<now, tab>>, Grows, Keys', Sound(c)',
         sub' \in [Tokens -> Users \cup {None}], exp' \in [Tokens -> Nat], until' \in [Tokens -> Nat]
  PROVE  IInv'
<1>1. TypeOK'
  BY DEF IInv, TypeOK, tab
<1>2. ASSUME NEW d \in Calls, d # c PROVE Sound(d)'
  <2>1. call'[d] = call[d]
    BY <1>2 DEF IInv, TypeOK
  <2>2. QED
    BY <1>1, <2>1, Kept
<1>3. StoreMatchesState' /\ (stored' # None => sub'[stored'] # None)
  BY DEF IInv, TypeOK, StoreMatchesState, tab, Grows
<1>4. QED
  BY <1>1, <1>2, <1>3 DEF IInv

LEMMA ReplyTyped ==
  ASSUME IInv, NEW c \in Calls, call[c] # None, NEW ok \in BOOLEAN, Reply(c, ok)
  PROVE  \E new \in Call : /\ call' = [call EXCEPT ![c] = new] /\ call'[c] = new
                           /\ new.kind = call[c].kind /\ new.cred = call[c].cred
                           /\ new.at = "answered" /\ new.ok = ok /\ new.as = call[c].as
<1>1. call[c] \in Call
  BY DEF IInv, TypeOK
<1> DEFINE new == [call[c] EXCEPT !.at = "answered", !.ok = ok, !.ttl = 0]
<1>2. new \in Call
  BY <1>1 DEF Call, Steps
<1>3. call' = [call EXCEPT ![c] = new]
  BY <1>1 DEF Reply
<1>4. call'[c] = new
  BY <1>3 DEF IInv, TypeOK
<1>5. /\ new.kind = call[c].kind /\ new.cred = call[c].cred
      /\ new.at = "answered" /\ new.ok = ok /\ new.as = call[c].as
  BY <1>1 DEF Call
<1>6. QED
  BY <1>2, <1>3, <1>4, <1>5

LEMMA RefuseSteps == ASSUME IInv, NEW c \in Calls, call[c] # None, Reply(c, FALSE), UNCHANGED <<now, server, tab>> PROVE IInv'
<1>1. PICK new \in Call : /\ call' = [call EXCEPT ![c] = new] /\ call'[c] = new
                         /\ new.kind = call[c].kind /\ new.cred = call[c].cred
                         /\ new.at = "answered" /\ new.ok = FALSE /\ new.as = call[c].as
  BY ReplyTyped
<1>2. Grows /\ Keys'
  BY ServerKept DEF IInv, TypeOK
<1>3. Sound(c)'
  BY <1>1, <1>2 DEF IInv, Sound, Grows
<1>4. QED
  BY <1>1, <1>2, <1>3, Served DEF IInv, TypeOK, server

LEMMA IssueSteps == ASSUME IInv, NEW c \in Calls, Issue(c) PROVE IInv'
<1> DEFINE t   == CHOOSE x \in Tokens : sub[x] = None
           new == [call[c] EXCEPT !.at = "answered", !.ok = TRUE, !.cred = t]
           end == ((now + Life) \div Second) * Second
<1>1. t \in Tokens /\ sub[t] = None
  BY DEF Issue
<1>2. call[c] \in Call /\ call[c].kind = "login"
  BY DEF Issue, Reach, IInv, TypeOK
<1>3. end \in Nat
  <2> DEFINE a == now + Life
             q == a \div Second
  <2>1. a \in Nat
    BY DEF IInv, TypeOK
  <2>2. q \in Nat
    <3> HIDE DEF a
    <3>1. QED
      BY <2>1, Seconds
  <2>3. q * Second \in Nat
    <3> HIDE DEF q
    <3>1. QED
      BY <2>2, Products
  <2>4. QED
    BY <2>3
<1>4. /\ sub' = [sub EXCEPT ![t] = call[c].as] /\ exp' = [exp EXCEPT ![t] = end]
      /\ call' = [call EXCEPT ![c].at = "answered", ![c].ok = TRUE, ![c].cred = t]
      /\ UNCHANGED <<now, until, tab>>
  BY DEF Issue
<1> HIDE DEF t, end
<1>5. new \in Call /\ new.kind = "login" /\ new.at = "answered" /\ new.cred = t /\ new.as = call[c].as
  BY <1>1, <1>2 DEF Call, Steps
<1>6. call' = [call EXCEPT ![c] = new]
  BY <1>4
<1> HIDE DEF new
<1>7. call'[c] = new
  BY <1>6 DEF IInv, TypeOK
<1>8. call[c].as \in Users
  BY <1>2 DEF IInv, Sound, Issue, Reach
<1>9. sub' \in [Tokens -> Users \cup {None}] /\ exp' \in [Tokens -> Nat] /\ until' \in [Tokens -> Nat]
  BY <1>3, <1>4, <1>8 DEF IInv, TypeOK
<1>10. Grows /\ Keys'
  BY <1>1, <1>4 DEF IInv, TypeOK, Grows, Keys
<1>11. sub'[t] # None
  BY <1>1, <1>4, <1>8 DEF IInv, TypeOK
<1>12. QED
  BY <1>1, <1>4, <1>5, <1>6, <1>7, <1>8, <1>9, <1>10, <1>11, Served DEF Sound

LEMMA DecodeSteps == ASSUME IInv, NEW c \in Calls, Decode(c) PROVE IInv'
<1>1. call[c] \in Call /\ call[c] # None /\ call[c].at = "sent" /\ call[c].kind # "login" /\ Sound(c)
  BY DEF Decode, Reach, IInv, TypeOK
<1>2. CASE now < exp[call[c].cred]
  <2> DEFINE new == [call[c] EXCEPT !.at = "decoded"]
  <2>1. call' = [call EXCEPT ![c] = new] /\ UNCHANGED <<now, server, tab>>
    BY <1>2 DEF Decode, decode_access_token
  <2>2. /\ new \in Call /\ new.kind = call[c].kind /\ new.cred = call[c].cred /\ new.as = call[c].as
        /\ new.at = "decoded" /\ new.ok = call[c].ok
    BY <1>1 DEF Call, Steps
  <2> HIDE DEF new
  <2>3. call'[c] = new
    BY <2>1 DEF IInv, TypeOK
  <2>4. Grows /\ Keys'
    BY <2>1, ServerKept DEF IInv, TypeOK
  <2>5. Sound(c)'
    BY <1>1, <2>2, <2>3, <2>4 DEF Sound, Grows
  <2>6. QED
    BY <2>1, <2>2, <2>4, <2>5, Served DEF IInv, TypeOK, server
<1>3. CASE ~(now < exp[call[c].cred])
  BY <1>1, <1>3, RefuseSteps DEF Decode, decode_access_token
<1>4. QED
  BY <1>2, <1>3

LEMMA CheckSteps == ASSUME IInv, NEW c \in Calls, Check(c) PROVE IInv'
<1> DEFINE t == call[c].cred
<1>1. /\ call[c] \in Call /\ call[c] # None /\ call[c].at = "decoded"
      /\ Sound(c) /\ UNCHANGED <<now, server, tab>>
  BY DEF Check, Reach, IInv, TypeOK
<1>2. call[c].kind # "login" /\ t \in Tokens /\ sub[t] # None /\ ~call[c].ok
  BY <1>1 DEF Sound
<1>3. Grows /\ Keys'
  BY <1>1, ServerKept DEF IInv, TypeOK
<1>4. CASE isRevoked(t) \/ (call[c].kind = "logout" /\ now >= exp[t])
  BY <1>1, <1>4, RefuseSteps DEF Check
<1>5. CASE ~(isRevoked(t) \/ (call[c].kind = "logout" /\ now >= exp[t])) /\ call[c].kind = "refresh"
  <2>1. Reply(c, TRUE)
    BY <1>5 DEF Check
  <2>2. PICK new \in Call : /\ call' = [call EXCEPT ![c] = new] /\ call'[c] = new
                           /\ new.kind = call[c].kind /\ new.cred = call[c].cred
                           /\ new.at = "answered" /\ new.ok = TRUE /\ new.as = call[c].as
    BY <1>1, <2>1, ReplyTyped
  <2>3. Sound(c)'
    BY <1>1, <1>2, <1>3, <1>5, <2>2 DEF Sound, Grows
  <2>4. QED
    BY <1>1, <1>3, <2>2, <2>3, Served DEF IInv, TypeOK, server
<1>6. CASE ~(isRevoked(t) \/ (call[c].kind = "logout" /\ now >= exp[t])) /\ call[c].kind # "refresh"
  <2> DEFINE new == [call[c] EXCEPT !.at = "revoking", !.ttl = Remaining(t)]
  <2>1. call' = [call EXCEPT ![c] = new]
    BY <1>6 DEF Check
  <2>2. call[c].kind = "logout" /\ now < exp[t]
    BY <1>1, <1>2, <1>6 DEF Call, Kinds, IInv, TypeOK
  <2>3. /\ Remaining(t) \in Nat /\ Remaining(t) >= 1
        /\ now + (Remaining(t) * Second) + Second > exp[t]
    BY <1>2, <2>2, TimeLeft DEF IInv
  <2>4. /\ new \in Call /\ new.kind = "logout" /\ new.cred = t /\ new.as = call[c].as
        /\ new.at = "revoking" /\ new.ok = call[c].ok /\ new.ttl = Remaining(t)
    BY <1>1, <2>2, <2>3 DEF Call, Steps
  <2> HIDE DEF new
  <2>5. call'[c] = new
    BY <2>1 DEF IInv, TypeOK
  <2>6. now' = now /\ exp' = exp /\ sub' = sub
    BY <1>1 DEF server
  <2>7. Covers(c)'
    BY <2>3, <2>4, <2>5, <2>6 DEF Covers
  <2>8. Sound(c)'
    BY <1>2, <2>3, <2>4, <2>5, <2>6, <2>7 DEF Sound
  <2>9. QED
    BY <1>1, <1>3, <2>1, <2>4, <2>8, Served DEF IInv, TypeOK, server
<1>7. QED
  BY <1>4, <1>5, <1>6

LEMMA RevokeSteps == ASSUME IInv, NEW c \in Calls, Revoke(c) PROVE IInv'
<1> DEFINE t    == call[c].cred
           life == call[c].ttl * Second
<1>1. /\ call[c] \in Call /\ call[c] # None /\ call[c].at = "revoking" /\ Sound(c)
      /\ Reply(c, TRUE) /\ until' = [until EXCEPT ![t] = now + life]
      /\ UNCHANGED <<now, sub, exp, tab>>
  BY DEF Revoke, Reach, IInv, TypeOK
<1>2. /\ t \in Tokens /\ sub[t] # None /\ call[c].kind = "logout" /\ call[c].ttl >= 1
      /\ now + life + Second > exp[t]
  BY <1>1 DEF Sound, Covers
<1>3. life \in Nat /\ life >= 1
  BY <1>1, <1>2, Products DEF Call
<1> HIDE DEF life
<1>4. now \in Nat
  BY DEF IInv, TypeOK
<1>5. now + life \in Nat /\ now + life # 0
  BY <1>3, <1>4
<1>6. /\ until' \in [Tokens -> Nat] /\ until'[t] = now + life
      /\ \A x \in Tokens : x # t => until'[x] = until[x]
  BY <1>1, <1>2, <1>5 DEF IInv, TypeOK
<1>7. PICK new \in Call : /\ call' = [call EXCEPT ![c] = new] /\ call'[c] = new
                         /\ new.kind = call[c].kind /\ new.cred = call[c].cred
                         /\ new.at = "answered" /\ new.ok = TRUE /\ new.as = call[c].as
  BY <1>1, ReplyTyped
<1>8. Grows
  BY <1>1, <1>4, <1>5, <1>6 DEF Grows
<1>9. Keys'
  BY <1>1, <1>2, <1>6 DEF Keys, IInv
<1>10. Sound(c)'
  BY <1>1, <1>2, <1>5, <1>6, <1>7 DEF Sound
<1>11. QED
  BY <1>1, <1>6, <1>7, <1>8, <1>9, <1>10, Served DEF IInv, TypeOK

LEMMA TickSteps == ASSUME IInv, Tick PROVE IInv'
<1>1. now' >= now /\ UNCHANGED <<server, call, tab>> /\ now' \in 0..MaxTime
  BY DEF Tick, IInv, TypeOK
<1>2. TypeOK' /\ Grows /\ Keys'
  BY <1>1, ServerKept DEF IInv, TypeOK, server, tab
<1>3. \A c \in Calls : Sound(c)'
  BY <1>1, <1>2, Kept
<1>4. QED
  BY <1>1, <1>2, <1>3 DEF IInv, StoreMatchesState, tab, server

LEMMA Inductive == IInv /\ [Next]_vars => IInv'
<1> SUFFICES ASSUME IInv, [Next]_vars PROVE IInv'
  OBVIOUS
<1>1. CASE Tick
  BY <1>1, TickSteps
<1>2. ASSUME NEW c \in Calls, Click(c) \/ Serve(c) \/ Hear(c) PROVE IInv'
  <2>1. CASE Fails(c)
    BY <2>1, RefuseSteps DEF Fails
  <2>2. QED
    BY <1>2, <2>1, ClickSteps, ReloadSteps, HearSteps, IssueSteps, DecodeSteps, CheckSteps, RevokeSteps
       DEF Click, Serve
<1>3. CASE UNCHANGED vars
  BY <1>3 DEF IInv, TypeOK, Sound, Covers, Keys, StoreMatchesState, vars, server, tab
<1>4. QED
  BY <1>1, <1>2, <1>3 DEF Next

LEMMA Invariant == Spec => []IInv
BY Initially, Inductive, PTL DEF Spec

\* A call the guard has decoded is checked or fails next; meanwhile its page may go.
LEMMA Decoded ==
  ASSUME IInv, [Next]_vars, NEW c \in Calls, Reach(c, "decoded")
  PROVE  \/ Check(c) \/ Fails(c) \/ call'[c] = call[c]
         \/ call'[c] = [call[c] EXCEPT !.heard = FALSE]
<1>1. call \in [Calls -> Call \cup {None}] /\ call[c] # None /\ call[c].at = "decoded"
  BY DEF IInv, TypeOK, Reach
<1>2. ASSUME NEW d \in Calls, Reload(d) PROVE call'[c] = call[c] \/ call'[c] = [call[c] EXCEPT !.heard = FALSE]
  BY <1>1, <1>2 DEF Reload
<1>3. ASSUME NEW d \in Calls, d # c, ClickRefresh(d) \/ Login(d) \/ Logout(d) \/ Serve(d) \/ Hear(d)
      PROVE  call'[c] = call[c]
  BY <1>1, <1>3 DEF ClickRefresh, Login, Logout, Serve, Issue, Decode, Check, Revoke, Fails, Reply, Hear,
                    ProfileArrives, TokenArrives, LogoutArrives, Unheard, Done
<1>4. (~ClickRefresh(c) /\ ~Login(c) /\ ~Logout(c) /\ ~Hear(c) /\ ~Issue(c) /\ ~Decode(c) /\ ~Revoke(c))
         \/ call'[c] = call[c]
  BY <1>1 DEF ClickRefresh, Login, Logout, Issue, Decode, Revoke, Reach, Hear,
              ProfileArrives, TokenArrives, LogoutArrives, Unheard, Answered
<1>5. Tick \/ UNCHANGED vars => call'[c] = call[c]
  BY DEF Tick, vars
<1>6. QED
  BY <1>2, <1>3, <1>4, <1>5 DEF Next, Click, Serve

-----------------------------------------------------------------------------
(* Theorems                                                                *)

\* Tokens, keys, calls and the page have their types.
THEOREM TypeCorrect == Spec => []TypeOK
<1>1. IInv => TypeOK
  BY DEF IInv
<1>2. QED
  BY <1>1, Invariant, PTL

\* The store and the state of the page name the same token, for any number of
\* calls whose answers arrive in any order.
THEOREM StoreAgrees == Spec => []StoreMatchesState
<1>1. IInv => StoreMatchesState
  BY DEF IInv
<1>2. QED
  BY <1>1, Invariant, PTL

\* A logout the API confirmed has set the key of its token.
THEOREM LogoutRevokes == Spec => []ConfirmedLogoutRevokes
<1>1. IInv => ConfirmedLogoutRevokes
  BY DEF IInv, Sound, ConfirmedLogoutRevokes
<1>2. QED
  BY <1>1, Invariant, PTL

\* A revoked token passes the guard in the last second of its life only, for
\* every lifetime and every fraction of a second at which it was revoked.
THEOREM RevokedIsRefused == Spec => RevokedStaysRefused
<1> DEFINE Good(c) ==
      Reach(c, "decoded") /\ until[call[c].cred] # 0 /\ (Reach(c, "revoking")' \/ call'[c].ok)
        => now + Second > exp[call[c].cred]
<1>1. ASSUME IInv, [Next]_vars, NEW c \in Calls PROVE Good(c)
  <2> SUFFICES ASSUME Reach(c, "decoded"), until[call[c].cred] # 0, Reach(c, "revoking")' \/ call'[c].ok
               PROVE  now + Second > exp[call[c].cred]
    OBVIOUS
  <2>1. call[c] \in Call /\ call[c] # None /\ call[c].at = "decoded" /\ ~call[c].ok /\ call[c].kind # "login"
        /\ call[c].cred \in Tokens
    BY <1>1 DEF Reach, IInv, TypeOK, Sound
  <2>2. CASE Check(c)
    <3>1. ~isRevoked(call[c].cred)
      <4>1. ASSUME Reply(c, FALSE) PROVE FALSE
        <5>1. call'[c].at = "answered" /\ ~call'[c].ok
          BY <1>1, <2>1, <4>1, ReplyTyped
        <5>2. QED
          BY <5>1 DEF Reach
      <4>2. QED
        BY <2>2, <4>1 DEF Check
    <3>2. until[call[c].cred] + Second > exp[call[c].cred]
      BY <1>1, <2>1 DEF IInv, Keys
    <3>3. /\ now \in Nat /\ until[call[c].cred] \in Nat /\ exp[call[c].cred] \in Nat
      BY <1>1, <2>1 DEF IInv, TypeOK
    <3>4. QED
      BY <3>1, <3>2, <3>3 DEF isRevoked
  <2>3. CASE ~Check(c)
    <3>1. CASE Fails(c)
      <4>1. call'[c].at = "answered" /\ ~call'[c].ok
        BY <1>1, <2>1, <3>1, ReplyTyped DEF Fails
      <4>2. QED
        BY <4>1 DEF Reach
    <3>2. CASE call'[c] = call[c] \/ call'[c] = [call[c] EXCEPT !.heard = FALSE]
      <4>1. call'[c].at = "decoded" /\ ~call'[c].ok
        BY <2>1, <3>2 DEF Call
      <4>2. QED
        BY <4>1 DEF Reach
    <3>3. QED
      BY <1>1, <2>3, <3>1, <3>2, Decoded
  <2>4. QED
    BY <2>2, <2>3
<1>2. IInv /\ [Next]_vars => [\A c \in Calls : Good(c)]_vars
  BY <1>1
<1>3. QED
  BY <1>2, Invariant, PTL DEF Spec, RevokedStaysRefused

\* However late answers arrive, a page without a token is given one by an
\* answered login only.
THEOREM OnlyALoginSignsIn == Spec => OnlyLoginSignsIn
<1> DEFINE Good == token = None /\ token' # None =>
                     \E c \in Calls : Answered(c, "login") /\ call[c].ok /\ token' = call[c].cred
<1>1. ASSUME IInv, [Next]_vars PROVE Good
  <2> SUFFICES ASSUME token = None, token' # None
               PROVE  \E c \in Calls : Answered(c, "login") /\ call[c].ok /\ token' = call[c].cred
    OBVIOUS
  <2>1. stored = None
    BY <1>1 DEF IInv, StoreMatchesState
  <2>2. PICK c \in Calls : Click(c) \/ Serve(c) \/ Hear(c)
    BY <1>1 DEF Next, Tick, vars, tab
  <2>3. ~Click(c) /\ ~Serve(c)
    BY <2>1 DEF Click, ClickRefresh, Login, Logout, Reload, Serve, Issue, Decode, Check, Revoke, Fails, tab
  <2>4. TokenArrives(c) /\ call[c].ok
    BY <2>2, <2>3 DEF Hear, ProfileArrives, TokenArrives, LogoutArrives, Unheard, Forget, tab
  <2>5. QED
    BY <2>4 DEF TokenArrives
<1>2. IInv /\ [Next]_vars => [Good]_vars
  BY <1>1
<1>3. QED
  BY <1>2, Invariant, PTL DEF Spec, OnlyLoginSignsIn
=============================================================================
