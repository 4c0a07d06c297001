--------------------------- MODULE OnboardingProofs ---------------------------
(***************************************************************************)
(* Sessions and Onboarding for any accounts, keys and bounds: whose token  *)
(* the page keeps, what a session was signed for, what a flag of the       *)
(* wizard stands on, and which flags are not lost.                         *)
(***************************************************************************)
EXTENDS Onboarding, SequenceTheorems, TLAPS

FlightType == [account : Accounts, signer : Accounts \cup {None},
               pc : {"nonce", "sign", "read", "mark", "session", "answer", "done"}]
AuthType == [token : Tokens \cup {None}, address : Accounts \cup {None},
             loading : BOOLEAN, error : BOOLEAN]

\* What the server has checked of a sign-in by the time it is where it is.
FlightIsSigned(f) ==
  /\ flights[f].pc \in {"mark", "session", "answer"} => flights[f].signer = flights[f].account
  /\ flights[f].pc \in {"session", "answer"} => nonces[f] # "fresh"
  /\ sessions[f] # None =>
       /\ sessions[f] = flights[f].account
       /\ flights[f].signer = flights[f].account
       /\ nonces[f] # "fresh"
       /\ flights[f].pc \in {"answer", "done"}
FlightInv == \A f \in DOMAIN flights : FlightIsSigned(f)

\* No session has a token that no sign-in has asked for.
TokenInv ==
  /\ Len(flights) <= MaxFlights
  /\ \A n \in Tokens \ DOMAIN flights : sessions[n] = None

\* The token the page holds is of a finished sign-in, as the account shown.
Holds(a, fs, w) == a.token # None =>
  /\ a.token \in DOMAIN fs
  /\ fs[a.token].pc = "done"
  /\ fs[a.token].account = a.address
  /\ w \in {None, a.address}
AuthInv == Holds(auth, flights, wallet)

SessionInv == SessionTypeOK /\ TokenInv /\ FlightInv /\ AuthInv

----------------------------------------------------------------------------
(* The browser.                                                            *)

\* A page in the middle of a commit, with auth state of the sign-ins fs.
PageOK(pg, fs) ==
  /\ pg \in [auth : AuthType, attempted : Accounts \cup {None}, signIn : {None}]
  /\ (pg.auth.token = None) = (pg.auth.address = None)
  /\ Holds(pg.auth, fs, None)

\* The effects leave no token of another account than the connected one.
LEMMA EffectsAgree ==
  ASSUME SessionsAssumption, NEW pg, NEW fs, NEW w \in Accounts \cup {None},
         PageOK(pg, fs)
  PROVE  /\ Effects(pg, w).auth \in AuthType
         /\ Effects(pg, w).attempted \in Accounts \cup {None}
         /\ Effects(pg, w).signIn \in Accounts \cup {None}
         /\ (Effects(pg, w).auth.token = None) = (Effects(pg, w).auth.address = None)
         /\ Holds(Effects(pg, w).auth, fs, w)
<1> DEFINE mid == SignOutOther(pg, w)
<1>0. SignedOut \in AuthType /\ SignedOut.token = None /\ SignedOut.address = None
  BY DEF SignedOut, AuthType
<1>1. /\ mid \in [auth : AuthType, attempted : Accounts \cup {None}, signIn : {None}]
      /\ (mid.auth.token = None) = (mid.auth.address = None)
      /\ Holds(mid.auth, fs, w)
  <2>1. CASE w # None /\ pg.auth.address \notin {None, w}
    <3>1. mid = [pg EXCEPT !.auth = SignedOut, !.attempted = None]
      BY <2>1 DEF SignOutOther
    <3> QED  BY <3>1, <1>0 DEF PageOK, Holds
  <2>2. CASE ~(w # None /\ pg.auth.address \notin {None, w})
    <3>1. mid = pg
      BY <2>2 DEF SignOutOther
    <3>2. pg.auth.token # None => w \in {None, pg.auth.address}
      BY <2>2 DEF PageOK
    <3> QED  BY <3>1, <3>2 DEF PageOK, Holds
  <2> QED  BY <2>1, <2>2
<1>2. Effects(pg, w) = SignInOnce(mid, w)
  BY DEF Effects
<1> HIDE DEF mid
<1>3. CASE w = None \/ mid.auth.token # None \/ mid.auth.loading \/ mid.attempted = w
  <2>1. SignInOnce(mid, w) = mid
    BY <1>3 DEF SignInOnce
  <2> QED  BY <1>1, <1>2, <2>1
<1>4. CASE ~(w = None \/ mid.auth.token # None \/ mid.auth.loading \/ mid.attempted = w)
  <2>1. SignInOnce(mid, w) = [auth |-> [mid.auth EXCEPT !.loading = TRUE, !.error = FALSE],
                              attempted |-> w, signIn |-> w]
    BY <1>4 DEF SignInOnce
  <2> DEFINE loading == [mid.auth EXCEPT !.loading = TRUE, !.error = FALSE]
  <2>2. /\ loading \in AuthType
        /\ loading.token = mid.auth.token
        /\ loading.address = mid.auth.address
    BY <1>1 DEF AuthType
  <2>3. /\ Effects(pg, w).auth = loading
        /\ Effects(pg, w).attempted = w
        /\ Effects(pg, w).signIn = w
    BY <1>2, <2>1
  <2> HIDE DEF loading
  <2>4. Holds(loading, fs, w)
    BY <1>1, <2>2 DEF Holds
  <2> QED  BY <1>1, <2>2, <2>3, <2>4
<1> QED  BY <1>3, <1>4

\* A commit keeps the sign-ins and may start one.
LEMMA CommitAgrees ==
  ASSUME SessionsAssumption, NEW pg, NEW w \in Accounts \cup {None},
         NEW fs \in Seq(FlightType), Len(fs) <= MaxFlights,
         PageOK(pg, fs), Commit(pg, w, fs)
  PROVE  /\ auth' \in AuthType
         /\ attempted' \in Accounts \cup {None}
         /\ flights' \in Seq(FlightType)
         /\ Len(flights') <= MaxFlights
         /\ DOMAIN fs \subseteq DOMAIN flights'
         /\ \A f \in DOMAIN fs : flights'[f] = fs[f]
         /\ \A f \in DOMAIN flights' \ DOMAIN fs : flights'[f].pc = "nonce"
         /\ (auth'.token = None) = (auth'.address = None)
         /\ Holds(auth', flights', w)
<1> DEFINE next == Effects(pg, w)
<1>1. /\ next.auth \in AuthType
      /\ next.attempted \in Accounts \cup {None}
      /\ next.signIn \in Accounts \cup {None}
      /\ (next.auth.token = None) = (next.auth.address = None)
      /\ Holds(next.auth, fs, w)
  BY EffectsAgree
<1>2. /\ Len(fs) < MaxFlights \/ next.signIn = None
      /\ auth' = next.auth
      /\ attempted' = next.attempted
      /\ flights' = IF next.signIn = None THEN fs
            ELSE Append(fs, [account |-> next.signIn, signer |-> None, pc |-> "nonce"])
  BY DEF Commit
<1> HIDE DEF next
<1>3. CASE next.signIn = None
  BY <1>1, <1>2, <1>3
<1>4. CASE next.signIn # None
  <2> DEFINE new == [account |-> next.signIn, signer |-> None, pc |-> "nonce"]
  <2>1. new \in FlightType /\ new.pc = "nonce"
    BY <1>1, <1>4 DEF FlightType
  <2>2. flights' = Append(fs, new) /\ Len(fs) < MaxFlights
    BY <1>2, <1>4
  <2> HIDE DEF new
  <2>3. /\ flights' \in Seq(FlightType) /\ Len(flights') = Len(fs) + 1
        /\ \A f \in 1 .. Len(fs) : flights'[f] = fs[f]
        /\ flights'[Len(fs) + 1] = new
    BY <2>1, <2>2, AppendProperties
  <2>4. DOMAIN fs = 1 .. Len(fs) /\ DOMAIN flights' = 1 .. Len(flights') /\ Len(fs) \in Nat
    BY <2>3, LenProperties
  <2>5. Len(flights') <= MaxFlights
    BY <2>2, <2>3, <2>4 DEF SessionsAssumption
  <2>6. DOMAIN fs \subseteq DOMAIN flights' /\ \A f \in DOMAIN flights' \ DOMAIN fs : f = Len(fs) + 1
    BY <2>3, <2>4
  <2>7. Holds(auth', flights', w)
    BY <1>1, <1>2, <2>3, <2>4, <2>6 DEF Holds
  <2> QED  BY <1>1, <1>2, <2>1, <2>3, <2>4, <2>5, <2>6, <2>7
<1> QED  BY <1>3, <1>4

LEMMA FlightsTyped ==
  ASSUME SessionTypeOK
  PROVE  /\ flights \in Seq(FlightType) /\ Len(flights) \in Nat
         /\ DOMAIN flights = 1 .. Len(flights)
         /\ \A f \in DOMAIN flights : flights[f] \in FlightType
<1>1. flights \in Seq(FlightType)
  BY DEF SessionTypeOK, FlightType
<1> QED  BY <1>1, LenProperties, ElementOfSeq

\* What changes when one sign-in is rewritten.
LEMMA OneFlight ==
  ASSUME SessionTypeOK, NEW f \in DOMAIN flights, NEW q \in FlightType
  PROVE  /\ [flights EXCEPT ![f] = q] \in Seq(FlightType)
         /\ Len([flights EXCEPT ![f] = q]) = Len(flights)
         /\ DOMAIN [flights EXCEPT ![f] = q] = DOMAIN flights
         /\ [flights EXCEPT ![f] = q][f] = q
         /\ \A g \in DOMAIN flights : g # f => [flights EXCEPT ![f] = q][g] = flights[g]
<1>1. flights \in Seq(FlightType) /\ DOMAIN flights = 1 .. Len(flights) /\ Len(flights) \in Nat
  BY FlightsTyped
<1> QED  BY <1>1, ExceptSeq

LEMMA MoveFlight ==
  ASSUME SessionTypeOK, NEW f \in DOMAIN flights,
         NEW pc \in {"nonce", "sign", "read", "mark", "session", "answer", "done"}
  PROVE  /\ Move(f, pc) \in Seq(FlightType) /\ Len(Move(f, pc)) = Len(flights)
         /\ DOMAIN Move(f, pc) = DOMAIN flights
         /\ Move(f, pc)[f].pc = pc
         /\ Move(f, pc)[f].account = flights[f].account
         /\ Move(f, pc)[f].signer = flights[f].signer
         /\ \A g \in DOMAIN flights : g # f => Move(f, pc)[g] = flights[g]
<1> DEFINE q == [flights[f] EXCEPT !.pc = pc]
<1>1. flights[f] \in FlightType
  BY FlightsTyped
<1>2. q \in FlightType /\ q.pc = pc /\ q.account = flights[f].account /\ q.signer = flights[f].signer
  BY <1>1 DEF FlightType
<1>3. Move(f, pc) = [flights EXCEPT ![f] = q]
  BY DEF Move
<1> HIDE DEF q
<1>4. /\ Move(f, pc) \in Seq(FlightType) /\ Len(Move(f, pc)) = Len(flights)
      /\ DOMAIN Move(f, pc) = DOMAIN flights
      /\ Move(f, pc)[f] = q
      /\ \A g \in DOMAIN flights : g # f => Move(f, pc)[g] = flights[g]
  <2>1. q \in FlightType
    BY <1>2
  <2>2. /\ [flights EXCEPT ![f] = q] \in Seq(FlightType)
        /\ Len([flights EXCEPT ![f] = q]) = Len(flights)
        /\ DOMAIN [flights EXCEPT ![f] = q] = DOMAIN flights
        /\ [flights EXCEPT ![f] = q][f] = q
        /\ \A g \in DOMAIN flights : g # f => [flights EXCEPT ![f] = q][g] = flights[g]
    BY <2>1, OneFlight, Zenon
  <2> QED  BY <1>3, <2>2, Zenon
<1> QED  BY <1>2, <1>4

----------------------------------------------------------------------------
(* Every step of a session.                                                *)

\* A commit over sign-ins that are as signed as before, with the server as it is.
LEMMA CommitStep ==
  ASSUME SessionsAssumption, SessionInv,
         NEW pg, NEW w \in Accounts \cup {None}, NEW fs \in Seq(FlightType),
         DOMAIN fs = DOMAIN flights, Len(fs) = Len(flights),
         \A f \in DOMAIN flights :
           \/ fs[f] = flights[f]
           \/ /\ fs[f].pc = "done"
              /\ fs[f].account = flights[f].account /\ fs[f].signer = flights[f].signer,
         PageOK(pg, fs), Commit(pg, w, fs), wallet' = w, UNCHANGED server
  PROVE  SessionInv'
<1> USE DEF SessionInv
<1>1. /\ flights \in Seq(FlightType) /\ Len(flights) \in Nat /\ DOMAIN flights = 1 .. Len(flights)
      /\ Len(fs) <= MaxFlights /\ MaxFlights \in Nat
  BY FlightsTyped DEF TokenInv, SessionsAssumption
<1>2. /\ auth' \in AuthType
      /\ attempted' \in Accounts \cup {None}
      /\ flights' \in Seq(FlightType)
      /\ Len(flights') <= MaxFlights
      /\ DOMAIN fs \subseteq DOMAIN flights'
      /\ \A f \in DOMAIN fs : flights'[f] = fs[f]
      /\ \A f \in DOMAIN flights' \ DOMAIN fs : flights'[f].pc = "nonce"
      /\ (auth'.token = None) = (auth'.address = None)
      /\ Holds(auth', flights', w)
  BY <1>1, CommitAgrees
<1>3. DOMAIN flights' = 1 .. Len(flights') /\ Len(flights') \in Nat
  BY <1>2, LenProperties
<1>4. UNCHANGED <<nonces, sessions, partners>>
  BY DEF server
<1>5. SessionTypeOK'
  BY <1>2, <1>4 DEF SessionTypeOK, AuthType, FlightType, Tokens
<1>6. TokenInv'
  BY <1>2, <1>4 DEF TokenInv, Tokens
<1>7. FlightInv'
  <2> SUFFICES ASSUME NEW f \in DOMAIN flights' PROVE FlightIsSigned(f)'
    BY DEF FlightInv
  <2>1. CASE f \in DOMAIN flights
    <3>1. FlightIsSigned(f) /\ flights'[f] = fs[f]
      BY <2>1, <1>2 DEF FlightInv
    <3>2. CASE fs[f] = flights[f]
      BY <3>1, <3>2, <1>4 DEF FlightIsSigned
    <3>3. CASE /\ fs[f].pc = "done"
               /\ fs[f].account = flights[f].account /\ fs[f].signer = flights[f].signer
      BY <3>1, <3>3, <1>4 DEF FlightIsSigned
    <3> QED  BY <2>1, <3>2, <3>3
  <2>2. CASE f \notin DOMAIN flights
    <3>1. flights'[f].pc = "nonce" /\ f \in Tokens
      BY <2>2, <1>1, <1>2, <1>3 DEF Tokens
    <3>2. sessions'[f] = None
      BY <2>2, <3>1, <1>4 DEF TokenInv
    <3> QED  BY <3>1, <3>2 DEF FlightIsSigned
  <2> QED  BY <2>1, <2>2
<1>8. AuthInv'
  BY <1>2 DEF AuthInv
<1> QED  BY <1>5, <1>6, <1>7, <1>8

\* The page of a commit is the page as it is, or one without a token.
LEMMA PageStays ==
  ASSUME SessionInv, NEW fs, DOMAIN fs = DOMAIN flights,
         \A f \in DOMAIN flights :
           flights[f].pc = "done" => fs[f].pc = "done" /\ fs[f].account = flights[f].account,
         NEW a \in AuthType, a.token = auth.token, a.address = auth.address
  PROVE  PageOK(Page(a, attempted), fs)
<1>1. Page(a, attempted) = [auth |-> a, attempted |-> attempted, signIn |-> None]
  BY DEF Page
<1>2. Holds(a, fs, None)
  BY DEF SessionInv, AuthInv, Holds
<1> QED  BY <1>1, <1>2 DEF PageOK, SessionInv, SessionTypeOK

LEMMA FailStep ==
  ASSUME SessionsAssumption, SessionInv, NEW f \in DOMAIN flights,
         flights[f].pc # "done", Fail(f), UNCHANGED <<wallet, server>>
  PROVE  SessionInv'
<1> DEFINE fs == Move(f, "done")
<1>1. /\ fs \in Seq(FlightType) /\ Len(fs) = Len(flights) /\ DOMAIN fs = DOMAIN flights
      /\ fs[f].pc = "done"
      /\ fs[f].account = flights[f].account /\ fs[f].signer = flights[f].signer
      /\ \A g \in DOMAIN flights : g # f => fs[g] = flights[g]
  BY MoveFlight DEF SessionInv
<1>2. auth \in AuthType /\ wallet \in Accounts \cup {None}
  BY DEF SessionInv, SessionTypeOK, AuthType
<1>3. /\ Failed \in AuthType
      /\ Failed.token = auth.token /\ Failed.address = auth.address
  BY <1>2 DEF Failed, AuthType
<1>4. Commit(Page(Failed, attempted), wallet, fs)
  BY DEF Fail
<1> HIDE DEF fs
<1>5. PageOK(Page(Failed, attempted), fs)
  BY <1>1, <1>3, PageStays
<1> QED  BY <1>1, <1>2, <1>4, <1>5, CommitStep

\* A step of the server or the wallet that rewrites one sign-in alone.
LEMMA ServerStep ==
  ASSUME SessionsAssumption, SessionInv, NEW f \in DOMAIN flights, flights[f].pc # "done",
         NEW q \in FlightType, q.account = flights[f].account,
         flights' = [flights EXCEPT ![f] = q],
         nonces' \in [Tokens -> NonceStates],
         sessions' \in [Tokens -> Accounts \cup {None}],
         \A n \in Tokens : n # f =>
           sessions'[n] = sessions[n] /\ (nonces[n] # "fresh" => nonces'[n] # "fresh"),
         FlightIsSigned(f)',
         UNCHANGED <<wallet, auth, attempted, partners>>
  PROVE  SessionInv'
<1> USE DEF SessionInv
<1>1. /\ flights' \in Seq(FlightType) /\ Len(flights') = Len(flights)
      /\ DOMAIN flights' = DOMAIN flights
      /\ flights'[f] = q
      /\ \A g \in DOMAIN flights : g # f => flights'[g] = flights[g]
  BY OneFlight, Zenon
<1>2. /\ DOMAIN flights = 1 .. Len(flights) /\ Len(flights) \in Nat /\ Len(flights) <= MaxFlights
      /\ MaxFlights \in Nat
  BY FlightsTyped DEF TokenInv, SessionsAssumption
<1>3. DOMAIN flights \subseteq Tokens
  BY <1>2 DEF Tokens
<1>4. SessionTypeOK'
  BY <1>1 DEF SessionTypeOK, FlightType, Tokens
<1>5. TokenInv'
  BY <1>1, <1>2, <1>3 DEF TokenInv, Tokens
<1>6. FlightInv'
  <2> SUFFICES ASSUME NEW g \in DOMAIN flights', g # f PROVE FlightIsSigned(g)'
    BY DEF FlightInv
  <2>1. /\ FlightIsSigned(g) /\ flights'[g] = flights[g] /\ sessions'[g] = sessions[g]
        /\ nonces[g] # "fresh" => nonces'[g] # "fresh"
    BY <1>1, <1>3 DEF FlightInv
  <2> QED  BY <2>1 DEF FlightIsSigned
<1>7. AuthInv'
  BY <1>1 DEF AuthInv, Holds
<1> QED  BY <1>4, <1>5, <1>6, <1>7

LEMMA SessionStepKeeps ==
  ASSUME SessionsAssumption, SessionInv, SessionNext
  PROVE  SessionInv'
<1> USE DEF SessionInv
<1>0. /\ SessionTypeOK /\ FlightInv
      /\ auth \in AuthType /\ wallet \in Accounts \cup {None}
      /\ flights \in Seq(FlightType) /\ Len(flights) \in Nat
      /\ DOMAIN flights = 1 .. Len(flights) /\ DOMAIN flights \subseteq Tokens
      /\ \A f \in DOMAIN flights : flights[f] \in FlightType
  BY FlightsTyped DEF SessionTypeOK, AuthType, TokenInv, SessionsAssumption, Tokens
<1>1. ASSUME NEW w \in Accounts \cup {None}, SwitchWallet(w) PROVE SessionInv'
  <2> DEFINE pg == IF w = None THEN OnDisconnect(Page(auth, attempted)) ELSE Page(auth, attempted)
  <2>1. PageOK(Page(auth, attempted), flights)
    BY <1>0, PageStays
  <2>2. PageOK(OnDisconnect(Page(auth, attempted)), flights)
    BY <2>1 DEF PageOK, OnDisconnect, Page, SignedOut, AuthType, Holds
  <2>3. PageOK(pg, flights) /\ Commit(pg, w, flights) /\ wallet' = w /\ UNCHANGED server
    BY <1>1, <2>1, <2>2 DEF SwitchWallet
  <2> HIDE DEF pg
  <2> QED  BY <1>0, <2>3, CommitStep
<1>2. ASSUME NEW f \in DOMAIN flights, FlightStep(f) PROVE SessionInv'
  <2>0. flights[f] \in FlightType /\ f \in Tokens /\ FlightIsSigned(f)
    BY <1>0 DEF FlightInv
  <2>1. CASE CreateNonce(f)
    <3> DEFINE q == [flights[f] EXCEPT !.pc = "sign"]
    <3>1. q \in FlightType /\ q.pc = "sign" /\ q.account = flights[f].account /\ q.signer = flights[f].signer
      BY <2>0 DEF FlightType
    <3>2. flights' = [flights EXCEPT ![f] = q] /\ flights[f].pc = "nonce"
      BY <2>1 DEF CreateNonce, Move, At
    <3> HIDE DEF q
    <3>3. /\ nonces' \in [Tokens -> NonceStates]
          /\ sessions' = sessions /\ sessions \in [Tokens -> Accounts \cup {None}]
          /\ \A n \in Tokens : nonces[n] # "fresh" /\ n # f => nonces'[n] # "fresh"
      BY <2>1, <2>0, <1>0 DEF CreateNonce, Cleaned, SessionTypeOK, NonceStates
    <3>4. sessions[f] = None /\ flights'[f] = q
      BY <2>0, <3>2, <1>0 DEF FlightIsSigned
    <3>5. FlightIsSigned(f)'
      BY <3>1, <3>3, <3>4 DEF FlightIsSigned
    <3>6. UNCHANGED <<wallet, auth, attempted, partners>>
      BY <2>1 DEF CreateNonce
    <3> QED  BY <3>1, <3>2, <3>3, <3>5, <3>6, ServerStep
  <2>2. CASE Sign(f)
    <3>1. CASE wallet = None
      BY <2>2, <3>1, FailStep DEF Sign, At
    <3>2. CASE wallet # None
      <4> DEFINE q == [flights[f] EXCEPT !.pc = "read", !.signer = wallet]
      <4>1. q \in FlightType /\ q.pc = "read" /\ q.account = flights[f].account
        BY <1>0, <2>0 DEF FlightType
      <4>2. flights' = [flights EXCEPT ![f] = q] /\ flights[f].pc = "sign"
        BY <2>2, <3>2, <1>0 DEF Sign, At
      <4> HIDE DEF q
      <4>3. UNCHANGED <<wallet, auth, attempted, partners, nonces, sessions>>
        BY <2>2, <3>2 DEF Sign, server
      <4>4. sessions[f] = None /\ flights'[f] = q
        BY <2>0, <4>2, <1>0 DEF FlightIsSigned
      <4>5. FlightIsSigned(f)'
        BY <4>1, <4>3, <4>4 DEF FlightIsSigned
      <4> QED  BY <4>1, <4>2, <4>3, <4>5, ServerStep DEF SessionTypeOK
    <3> QED  BY <3>1, <3>2
  <2>3. CASE ReadNonce(f)
    <3>1. CASE SignatureFits(f) /\ NonceFresh(f)
      <4> DEFINE q == [flights[f] EXCEPT !.pc = "mark"]
      <4>1. q \in FlightType /\ q.pc = "mark" /\ q.account = flights[f].account /\ q.signer = flights[f].account
        BY <1>0, <2>0, <3>1 DEF FlightType, SignatureFits
      <4>2. flights' = [flights EXCEPT ![f] = q] /\ flights[f].pc = "read"
        BY <2>3, <3>1, <1>0 DEF ReadNonce, At, Move
      <4> HIDE DEF q
      <4>3. UNCHANGED <<wallet, auth, attempted, partners, nonces, sessions>>
        BY <2>3, <3>1 DEF ReadNonce, server
      <4>4. sessions[f] = None /\ flights'[f] = q
        BY <2>0, <4>2, <1>0 DEF FlightIsSigned
      <4>5. FlightIsSigned(f)'
        BY <4>1, <4>3, <4>4 DEF FlightIsSigned
      <4> QED  BY <4>1, <4>2, <4>3, <4>5, ServerStep DEF SessionTypeOK
    <3>2. CASE ~(SignatureFits(f) /\ NonceFresh(f))
      BY <2>3, <3>2, FailStep DEF ReadNonce, At
    <3> QED  BY <3>1, <3>2
  <2>4. CASE MarkNonce(f)
    <3> DEFINE q == [flights[f] EXCEPT !.pc = "session"]
    <3>1. q \in FlightType /\ q.pc = "session" /\ q.account = flights[f].account /\ q.signer = flights[f].signer
      BY <2>0 DEF FlightType
    <3>2. flights' = [flights EXCEPT ![f] = q] /\ flights[f].pc = "mark"
      BY <2>4 DEF MarkNonce, Move, At
    <3> HIDE DEF q
    <3>3. /\ nonces' \in [Tokens -> NonceStates] /\ nonces'[f] # "fresh"
          /\ sessions' = sessions /\ sessions \in [Tokens -> Accounts \cup {None}]
          /\ \A n \in Tokens : nonces[n] # "fresh" /\ n # f => nonces'[n] # "fresh"
      BY <2>4, <2>0, <1>0 DEF MarkNonce, SessionTypeOK, NonceStates
    <3>4. sessions[f] = None /\ flights'[f] = q /\ flights[f].signer = flights[f].account
      BY <2>0, <3>2, <1>0 DEF FlightIsSigned
    <3>5. FlightIsSigned(f)'
      BY <3>1, <3>3, <3>4 DEF FlightIsSigned
    <3>6. UNCHANGED <<wallet, auth, attempted, partners>>
      BY <2>4 DEF MarkNonce
    <3> QED  BY <3>1, <3>2, <3>3, <3>5, <3>6, ServerStep
  <2>5. CASE CreateSession(f)
    <3> DEFINE q == [flights[f] EXCEPT !.pc = "answer"]
    <3>1. q \in FlightType /\ q.pc = "answer" /\ q.account = flights[f].account /\ q.signer = flights[f].signer
      BY <2>0 DEF FlightType
    <3>2. flights' = [flights EXCEPT ![f] = q] /\ flights[f].pc = "session"
      BY <2>5 DEF CreateSession, Move, At
    <3> HIDE DEF q
    <3>3. flights[f].account \in Accounts
      BY <2>0 DEF FlightType
    <3>4. /\ nonces' = nonces /\ nonces \in [Tokens -> NonceStates]
          /\ sessions' \in [Tokens -> Accounts \cup {None}]
          /\ sessions'[f] = flights[f].account
          /\ \A n \in Tokens : n # f => sessions'[n] = sessions[n]
      BY <2>5, <2>0, <1>0, <3>3 DEF CreateSession, SessionTypeOK
    <3>5. flights[f].signer = flights[f].account /\ nonces[f] # "fresh" /\ flights'[f] = q
      BY <2>0, <3>2, <1>0 DEF FlightIsSigned
    <3>6. FlightIsSigned(f)'
      BY <3>1, <3>4, <3>5 DEF FlightIsSigned
    <3>7. UNCHANGED <<wallet, auth, attempted, partners>>
      BY <2>5 DEF CreateSession
    <3> QED  BY <3>1, <3>2, <3>4, <3>6, <3>7, ServerStep
  <2>6. CASE ReceiveToken(f)
    <3> DEFINE fs == Move(f, "done")
    <3>1. /\ fs \in Seq(FlightType) /\ Len(fs) = Len(flights) /\ DOMAIN fs = DOMAIN flights
          /\ fs[f].pc = "done"
          /\ fs[f].account = flights[f].account /\ fs[f].signer = flights[f].signer
          /\ \A g \in DOMAIN flights : g # f => fs[g] = flights[g]
      BY MoveFlight
    <3>2. /\ Commit(Page(Authenticated(f), attempted), wallet, fs)
          /\ UNCHANGED <<wallet, server>>
      BY <2>6 DEF ReceiveToken
    <3> HIDE DEF fs
    <3>3. /\ Authenticated(f) \in AuthType
          /\ Authenticated(f).token = f /\ Authenticated(f).address = flights[f].account
          /\ f # None /\ flights[f].account # None
      BY <2>0, <1>0 DEF Authenticated, AuthType, FlightType, SessionsAssumption
    <3>4. PageOK(Page(Authenticated(f), attempted), fs)
      <4>1. Holds(Authenticated(f), fs, None)
        BY <3>1, <3>3 DEF Holds
      <4> QED  BY <1>0, <3>3, <4>1 DEF PageOK, Page, SessionTypeOK
    <3> QED  BY <1>0, <3>1, <3>2, <3>4, CommitStep
  <2> QED  BY <1>2, <2>1, <2>2, <2>3, <2>4, <2>5, <2>6 DEF FlightStep
<1>3. ASSUME NEW f \in DOMAIN flights, Refuse(f) PROVE SessionInv'
  BY <1>3, FailStep DEF Refuse
<1>4. ASSUME NEW f \in DOMAIN flights, Expire(f) PROVE SessionInv'
  <2>1. UNCHANGED <<wallet, auth, attempted, flights, partners>>
    BY <1>4 DEF Expire
  <2>2. /\ nonces' \in [Tokens -> NonceStates]
        /\ sessions' \in [Tokens -> Accounts \cup {None}]
        /\ \A n \in Tokens : /\ nonces[n] # "fresh" => nonces'[n] # "fresh"
                             /\ sessions'[n] \in {sessions[n], None}
    BY <1>4, <1>0 DEF Expire, SessionTypeOK, NonceStates
  <2>3. SessionTypeOK'
    BY <2>1, <2>2, <1>0 DEF SessionTypeOK, Tokens
  <2>4. TokenInv' /\ AuthInv'
    BY <2>1, <2>2 DEF TokenInv, AuthInv, Holds, Tokens
  <2>5. FlightInv'
    BY <2>1, <2>2, <1>0 DEF FlightInv, FlightIsSigned
  <2> QED  BY <2>3, <2>4, <2>5
<1>5. ASSUME NEW key \in PartnerKeys, Deactivate(key) PROVE SessionInv'
  <2>1. /\ UNCHANGED <<wallet, auth, attempted, flights, nonces, sessions>>
        /\ partners' \subseteq partners
    BY <1>5 DEF Deactivate
  <2>2. SessionTypeOK'
    BY <2>1, <1>0 DEF SessionTypeOK, Tokens
  <2>3. FlightInv' /\ TokenInv' /\ AuthInv'
    BY <2>1 DEF FlightInv, FlightIsSigned, TokenInv, AuthInv, Holds, Tokens
  <2> QED  BY <2>2, <2>3
<1>6. ASSUME NEW f \in DOMAIN flights, Unwritten(f) PROVE SessionInv'
  <2>0. flights[f] \in FlightType /\ f \in Tokens /\ FlightIsSigned(f)
    BY <1>0 DEF FlightInv
  <2>1. UNCHANGED <<wallet, auth, attempted, sessions, partners>>
    BY <1>6 DEF Unwritten
  <2>2. PICK pc \in {"sign", "session", "answer"} :
          /\ flights' = Move(f, pc)
          /\ \/ pc = "sign" /\ At(f, "nonce") /\ nonces' = Cleaned(f)
             \/ /\ pc = "session" /\ At(f, "mark")
                /\ nonces' = [nonces EXCEPT ![f] = IF @ = "fresh" THEN "unmarked" ELSE @]
             \/ pc = "answer" /\ At(f, "session") /\ nonces' = nonces
    BY <1>6 DEF Unwritten
  <2> DEFINE q == [flights[f] EXCEPT !.pc = pc]
  <2>3. q \in FlightType /\ q.pc = pc /\ q.account = flights[f].account /\ q.signer = flights[f].signer
    BY <2>0 DEF FlightType
  <2>4. flights' = [flights EXCEPT ![f] = q]
    BY <2>2 DEF Move
  <2> HIDE DEF q
  <2>5. /\ nonces' \in [Tokens -> NonceStates]
        /\ \A n \in Tokens : nonces[n] # "fresh" => nonces'[n] # "fresh"
        /\ pc = "session" => nonces'[f] # "fresh"
    BY <2>0, <2>2, <1>0 DEF Cleaned, SessionTypeOK, NonceStates
  <2>6. flights[f].pc \in {"nonce", "mark", "session"} /\ sessions[f] = None /\ flights'[f] = q
    BY <2>0, <2>2, <2>4, <1>0 DEF At, FlightIsSigned
  <2>7. FlightIsSigned(f)'
    BY <2>0, <2>1, <2>2, <2>3, <2>5, <2>6 DEF At, FlightIsSigned
  <2>8. sessions' \in [Tokens -> Accounts \cup {None}] /\ \A n \in Tokens : sessions'[n] = sessions[n]
    BY <2>1, <1>0 DEF SessionTypeOK
  <2> QED  BY <2>1, <2>3, <2>4, <2>5, <2>6, <2>7, <2>8, ServerStep
<1> QED  BY <1>1, <1>2, <1>3, <1>4, <1>5, <1>6 DEF SessionNext

LEMMA SessionStutters ==
  ASSUME SessionInv, UNCHANGED <<wallet, auth, attempted, flights, server>>
  PROVE  SessionInv'
<1>1. UNCHANGED <<nonces, sessions, partners>>
  BY DEF server
<1> QED
  BY <1>1 DEF SessionInv, SessionTypeOK, FlightInv, FlightIsSigned, TokenInv, AuthInv, Holds, Tokens

LEMMA SessionStarts ==
  ASSUME SessionsAssumption, SessionInit
  PROVE  SessionInv
<1>1. flights \in Seq(FlightType) /\ Len(flights) = 0 /\ DOMAIN flights = {}
  BY EmptySeq DEF SessionInit
<1>2. SessionTypeOK
  BY <1>1 DEF SessionInit, SessionTypeOK, SignedOut, FlightType, NonceStates
<1>3. TokenInv
  BY <1>1 DEF TokenInv, SessionInit, SessionsAssumption
<1>4. FlightInv /\ AuthInv
  BY <1>1 DEF FlightInv, AuthInv, Holds, SessionInit, SignedOut
<1> QED  BY <1>2, <1>3, <1>4 DEF SessionInv

LEMMA SessionsSigned ==
  ASSUME SessionInv
  PROVE  SessionIsSigned
BY DEF SessionInv, FlightInv, FlightIsSigned, SessionIsSigned

\* A bearer token is the account's or nobody's, whichever key goes with it.
LEMMA TokensServeWallet ==
  ASSUME SessionsAssumption, SessionInv
  PROVE  ServedAsWallet
<1> SUFFICES ASSUME wallet # None, auth.token # None PROVE
             /\ auth.address = wallet
             /\ \A key \in PartnerKeys \cup {None}, route \in Routes, read \in SUBSET Tables :
                  LET id == TryAuthenticate(auth.token, key, read) IN
                  Allowed(route, id) =>
                    /\ id.type = "user" => id.who = wallet /\ route \in {"open", "stream"}
                    /\ id.type # "user" => sessions[auth.token] = None \/ "user_sessions" \notin read
  BY DEF ServedAsWallet
<1>1. auth.address = wallet
  BY DEF SessionInv, AuthInv, Holds
<1>2. sessions[auth.token] \in {None, wallet}
  BY <1>1 DEF SessionInv, AuthInv, Holds, FlightInv, FlightIsSigned
<1>3. ASSUME NEW key \in PartnerKeys \cup {None}, NEW route \in Routes,
             NEW read \in SUBSET Tables, NEW id,
             id = TryAuthenticate(auth.token, key, read), Allowed(route, id)
      PROVE  /\ id.type = "user" => id.who = wallet /\ route \in {"open", "stream"}
             /\ id.type # "user" => sessions[auth.token] = None \/ "user_sessions" \notin read
  <2>1. CASE sessions[auth.token] = None \/ "user_sessions" \notin read
    <3>1. id.type \in {"partner", "none"}
      BY <1>3, <2>1 DEF TryAuthenticate, VerifySessionToken, VerifyApiKey, Anonymous
    <3> QED  BY <2>1, <3>1
  <2>2. CASE ~(sessions[auth.token] = None \/ "user_sessions" \notin read)
    <3>1. VerifySessionToken(auth.token, read) = [type |-> "user", who |-> wallet]
      BY <1>2, <2>2 DEF VerifySessionToken
    <3>2. VerifySessionToken(auth.token, read) # Anonymous
      BY <3>1 DEF Anonymous
    <3>3. id.type = "user" /\ id.who = wallet
      BY <1>3, <3>1, <3>2 DEF TryAuthenticate
    <3>4. route # "execute"
      BY <1>3, <3>3 DEF Allowed, RequireAuth
    <3>5. route # "resolve"
      BY <1>3, <3>3 DEF Allowed, RequireRole, Roles
    <3> QED  BY <3>3, <3>4, <3>5 DEF Routes
  <2> QED  BY <2>1, <2>2
<1> QED  BY <1>1, <1>3

----------------------------------------------------------------------------
(* The wizard.                                                             *)

OpType == [kind : Kinds, account : Accounts \cup {None}, sender : Accounts \cup {None},
           seen : SUBSET Flags, pc : {"pin", "sign", "confirm", "done", "failed"},
           at : {"step", "wizard", "gone"}]
WidgetType == [notified : BOOLEAN, confirmed : BOOLEAN, allowance : {"unread", "no", "yes"}]

\* Of a kind that has not succeeded on chain, nothing shows that it has.
EarnedInv == \A k \in Kinds : chain[k] = {} =>
  /\ k \notin flags \cup stored
  /\ \A i \in DOMAIN ops : k \notin ops[i].seen
  /\ k = "approve" => widget.allowance # "yes" /\ ~widget.confirmed

\* A transaction that waits to be mined has a sender.
SenderInv == \A i \in DOMAIN ops : ops[i].pc = "confirm" => ops[i].sender \in Accounts

\* A flag that is not contested is where it is read from, and every handler on
\* its way writes it back.
KeptInv == \A k \in Reported \ contested :
  /\ k \in flags \cap stored
  /\ \A i \in DOMAIN ops : Running(i) => k \in ops[i].seen \cup {ops[i].kind}

\* What was reported is approved still.
NotifiedInv == widget.notified => Approved

WizardInv == WizardTypeOK /\ EarnedInv /\ SenderInv /\ KeptInv /\ NotifiedInv

LEMMA WizardTyped ==
  ASSUME WizardTypeOK
  PROVE  /\ authenticated \in BOOLEAN
         /\ page \in {"login", "onboarding", "dashboard"}
         /\ step \in StepIds
         /\ flags \subseteq Flags /\ stored \subseteq Flags
         /\ widget \in WidgetType
         /\ ops \in Seq(OpType) /\ Len(ops) \in Nat /\ DOMAIN ops = 1 .. Len(ops)
         /\ \A i \in DOMAIN ops : ops[i] \in OpType
         /\ chain \in [Kinds -> SUBSET Accounts]
         /\ contested \subseteq Kinds
<1>1. ops \in Seq(OpType)
  BY DEF WizardTypeOK, OpType
<1>2. Len(ops) \in Nat /\ DOMAIN ops = 1 .. Len(ops) /\ \A i \in DOMAIN ops : ops[i] \in OpType
  BY <1>1, LenProperties, ElementOfSeq
<1> QED  BY <1>1, <1>2 DEF WizardTypeOK, WidgetType

\* A step that ends no transaction and begins none: handlers may lose their page
\* or fail, the chain may know more, and flags are added that stand on it.
LEMMA QuietStep ==
  ASSUME WizardInv,
         authenticated' \in BOOLEAN, page' \in {"login", "onboarding", "dashboard"},
         step' \in StepIds, contested' \subseteq Kinds, contested \subseteq contested',
         chain' \in [Kinds -> SUBSET Accounts], \A k \in Kinds : chain[k] # {} => chain'[k] # {},
         flags' \subseteq Flags, stored' \subseteq Flags,
         \A k \in Kinds : k \in flags' \cup stored' => k \in flags \cup stored \/ chain'[k] # {},
         flags \cap stored \subseteq flags' \cap stored',
         widget' \in WidgetType,
         widget'.allowance = "yes" => widget.allowance = "yes" \/ chain'["approve"] # {},
         widget'.confirmed => widget.confirmed,
         widget'.notified => widget.notified \/
           (/\ "approve" \in flags' \cap stored'
            /\ Unseen("approve") => "approve" \in contested'),
         NotifiedInv',
         ops' \in Seq(OpType), DOMAIN ops' = DOMAIN ops,
         \A i \in DOMAIN ops :
           /\ ops'[i].kind = ops[i].kind
           /\ ops'[i].pc = "done" => ops[i].pc = "done"
           /\ ops'[i].pc = "confirm" => ops'[i].sender \in Accounts
           /\ ops'[i].seen \subseteq ops[i].seen
           /\ ops'[i].at = "step" => ops[i].at = "step"
           /\ Running(i)' =>
                /\ Running(i)
                /\ ops'[i].seen = ops[i].seen
  PROVE  WizardInv'
<1> USE DEF WizardInv
<1>1. WizardTypeOK'
  BY DEF WizardTypeOK, OpType, WidgetType
<1>2. EarnedInv'
  <2> SUFFICES ASSUME NEW k \in Kinds, chain'[k] = {}
               PROVE  /\ k \notin flags' \cup stored'
                      /\ \A i \in DOMAIN ops' : k \notin ops'[i].seen
                      /\ k = "approve" => widget'.allowance # "yes" /\ ~widget'.confirmed
    BY DEF EarnedInv
  <2>1. /\ k \notin flags \cup stored
        /\ \A i \in DOMAIN ops : k \notin ops[i].seen
        /\ k = "approve" => widget.allowance # "yes" /\ ~widget.confirmed
    BY DEF EarnedInv
  <2> QED  BY <2>1
<1>3. SenderInv'
  BY DEF SenderInv
<1>4. KeptInv'
  <2> SUFFICES ASSUME NEW k \in Kinds, k \in Reported', k \notin contested'
               PROVE  /\ k \in flags' \cap stored'
                      /\ \A i \in DOMAIN ops : Running(i)' => k \in ops'[i].seen \cup {ops'[i].kind}
    BY DEF KeptInv, Reported
  <2>1. k \notin contested
    OBVIOUS
  <2>2. CASE k \in Reported
    <3>1. /\ k \in flags \cap stored
          /\ \A i \in DOMAIN ops : Running(i) => k \in ops[i].seen \cup {ops[i].kind}
      BY <2>1, <2>2 DEF KeptInv
    <3> QED  BY <3>1
  <2>3. CASE k \notin Reported
    <3>1. k = "approve" /\ widget'.notified /\ ~widget.notified
      BY <2>3 DEF Reported
    <3>2. "approve" \in flags' \cap stored' /\ ~Unseen("approve")
      BY <3>1
    <3>3. \A i \in DOMAIN ops : Running(i) => k \in ops[i].seen \cup {ops[i].kind}
      BY <3>1, <3>2 DEF Unseen
    <3> QED  BY <3>1, <3>2, <3>3
  <2> QED  BY <2>2, <2>3
<1> QED  BY <1>1, <1>2, <1>3, <1>4

----------------------------------------------------------------------------
(* The handlers of a step or a page that is left, and one that moves on.   *)

\* A handler is the same when its own transaction is not the one rewritten.
LEMMA OneOp ==
  ASSUME WizardTypeOK, NEW i \in DOMAIN ops, NEW q \in OpType
  PROVE  /\ [ops EXCEPT ![i] = q] \in Seq(OpType)
         /\ DOMAIN [ops EXCEPT ![i] = q] = DOMAIN ops
         /\ [ops EXCEPT ![i] = q][i] = q
         /\ \A j \in DOMAIN ops : j # i => [ops EXCEPT ![i] = q][j] = ops[j]
<1>1. ops \in Seq(OpType) /\ DOMAIN ops = 1 .. Len(ops) /\ Len(ops) \in Nat
  BY WizardTyped
<1> QED  BY <1>1, ExceptSeq

LEMMA EndedOp ==
  ASSUME WizardTypeOK, NEW i \in DOMAIN ops, NEW pc \in {"done", "failed"},
         NEW S, S = Ended(i, pc)
  PROVE  /\ S \in Seq(OpType) /\ DOMAIN S = DOMAIN ops
         /\ S[i].kind = ops[i].kind /\ S[i].pc = pc /\ S[i].seen = {} /\ S[i].at = ops[i].at
         /\ \A j \in DOMAIN ops : j # i => S[j] = ops[j]
<1> DEFINE q == [ops[i] EXCEPT !.pc = pc, !.seen = {}, !.account = None, !.sender = None]
<1>1. ops[i] \in OpType
  BY WizardTyped
<1>2. q \in OpType /\ q.kind = ops[i].kind /\ q.pc = pc /\ q.seen = {} /\ q.at = ops[i].at
  BY <1>1 DEF OpType
<1>3. S = [ops EXCEPT ![i] = q]
  BY DEF Ended
<1> HIDE DEF q
<1>4. q \in OpType
  BY <1>2
<1>5. /\ S \in Seq(OpType) /\ DOMAIN S = DOMAIN ops /\ S[i] = q
      /\ \A j \in DOMAIN ops : j # i => S[j] = ops[j]
  <2>1. /\ [ops EXCEPT ![i] = q] \in Seq(OpType)
        /\ DOMAIN [ops EXCEPT ![i] = q] = DOMAIN ops
        /\ [ops EXCEPT ![i] = q][i] = q
        /\ \A j \in DOMAIN ops : j # i => [ops EXCEPT ![i] = q][j] = ops[j]
    BY <1>4, OneOp, Zenon
  <2> QED  BY <1>3, <2>1, Zenon
<1> QED  BY <1>2, <1>5

\* Leaving rewrites where the handlers run, and nothing else of them.
LEMMA LeavingKeeps ==
  ASSUME WizardTypeOK
  PROVE  /\ LeaveStep \in Seq(OpType) /\ DOMAIN LeaveStep = DOMAIN ops
         /\ LeaveWizard \in Seq(OpType) /\ DOMAIN LeaveWizard = DOMAIN ops
         /\ \A i \in DOMAIN ops :
              /\ LeaveStep[i].at \in {ops[i].at, "wizard"}
              /\ LeaveWizard[i].at = IF Running(i) THEN "gone" ELSE "wizard"
              /\ \A S \in {LeaveStep, LeaveWizard} :
                   /\ S[i].kind = ops[i].kind /\ S[i].pc = ops[i].pc
                   /\ S[i].seen = ops[i].seen /\ S[i].sender = ops[i].sender
<1>1. /\ ops \in Seq(OpType) /\ DOMAIN ops = 1 .. Len(ops) /\ Len(ops) \in Nat
      /\ \A i \in DOMAIN ops : ops[i] \in OpType
  BY WizardTyped
<1>2. ASSUME NEW i \in DOMAIN ops, NEW at \in {"step", "wizard", "gone"}
      PROVE  /\ [ops[i] EXCEPT !.at = at] \in OpType
             /\ [ops[i] EXCEPT !.at = at].at = at
             /\ [ops[i] EXCEPT !.at = at].kind = ops[i].kind
             /\ [ops[i] EXCEPT !.at = at].pc = ops[i].pc
             /\ [ops[i] EXCEPT !.at = at].seen = ops[i].seen
             /\ [ops[i] EXCEPT !.at = at].sender = ops[i].sender
  BY <1>1 DEF OpType
<1>3. DOMAIN LeaveStep = 1 .. Len(ops) /\ DOMAIN LeaveWizard = 1 .. Len(ops)
  BY <1>1 DEF LeaveStep, LeaveWizard
<1>4. ASSUME NEW i \in DOMAIN ops
      PROVE  /\ LeaveStep[i] \in OpType
             /\ LeaveStep[i].at \in {ops[i].at, "wizard"}
             /\ LeaveStep[i].kind = ops[i].kind
             /\ LeaveStep[i].pc = ops[i].pc
             /\ LeaveStep[i].seen = ops[i].seen
             /\ LeaveStep[i].sender = ops[i].sender
  <2>1. LeaveStep[i] = IF ops[i].at = "step" THEN [ops[i] EXCEPT !.at = "wizard"] ELSE ops[i]
    BY DEF LeaveStep
  <2> QED  BY <1>1, <1>2, <2>1
<1>5. ASSUME NEW i \in DOMAIN ops
      PROVE  /\ LeaveWizard[i] \in OpType
             /\ LeaveWizard[i].at = IF Running(i) THEN "gone" ELSE "wizard"
             /\ LeaveWizard[i].kind = ops[i].kind
             /\ LeaveWizard[i].pc = ops[i].pc
             /\ LeaveWizard[i].seen = ops[i].seen
             /\ LeaveWizard[i].sender = ops[i].sender
  <2>1. PICK at \in {"step", "wizard", "gone"} : at = IF Running(i) THEN "gone" ELSE "wizard"
    OBVIOUS
  <2>2. LeaveWizard[i] = [ops[i] EXCEPT !.at = at]
    BY <2>1 DEF LeaveWizard
  <2>3. /\ LeaveWizard[i] \in OpType
        /\ LeaveWizard[i].at = at
        /\ LeaveWizard[i].kind = ops[i].kind
        /\ LeaveWizard[i].pc = ops[i].pc
        /\ LeaveWizard[i].seen = ops[i].seen
        /\ LeaveWizard[i].sender = ops[i].sender
    <3>1. /\ [ops[i] EXCEPT !.at = at] \in OpType
          /\ [ops[i] EXCEPT !.at = at].at = at
          /\ [ops[i] EXCEPT !.at = at].kind = ops[i].kind
          /\ [ops[i] EXCEPT !.at = at].pc = ops[i].pc
          /\ [ops[i] EXCEPT !.at = at].seen = ops[i].seen
          /\ [ops[i] EXCEPT !.at = at].sender = ops[i].sender
      BY <1>2
    <3> QED  BY <2>2, <3>1, Zenon
  <2> QED  BY <2>1, <2>3
<1>6. LeaveStep \in Seq(OpType) /\ LeaveWizard \in Seq(OpType)
  <2>1. LeaveStep \in [1 .. Len(ops) -> OpType] /\ LeaveWizard \in [1 .. Len(ops) -> OpType]
    BY <1>1, <1>4, <1>5 DEF LeaveStep, LeaveWizard
  <2> QED  BY <2>1, <1>1, SeqDef
<1> QED  BY <1>1, <1>3, <1>4, <1>5, <1>6

----------------------------------------------------------------------------
(* Every step of the wizard.                                               *)

FreshTyped == FreshWidget \in WidgetType /\ ~FreshWidget.notified /\ ~FreshWidget.confirmed
              /\ FreshWidget.allowance # "yes"

LEMMA FreshIsTyped == FreshTyped
BY DEF FreshTyped, FreshWidget, WidgetType

\* The wizard's own variables but the widget and the handlers.
Progress == <<authenticated, page, step, flags, stored, chain, contested>>

\* Handlers that stay where they are.
LEMMA OpsStay ==
  ASSUME WizardInv, UNCHANGED ops
  PROVE  /\ ops' \in Seq(OpType) /\ DOMAIN ops' = DOMAIN ops
         /\ \A i \in DOMAIN ops :
              /\ ops'[i].kind = ops[i].kind
              /\ ops'[i].pc = "done" => ops[i].pc = "done"
              /\ ops'[i].pc = "confirm" => ops'[i].sender \in Accounts
              /\ ops'[i].seen \subseteq ops[i].seen
              /\ ops'[i].at = "step" => ops[i].at = "step"
              /\ Running(i)' =>
                   /\ Running(i)
                   /\ ops'[i].seen = ops[i].seen
BY WizardTyped DEF WizardInv, SenderInv, Running

\* Handlers whose step is left.
LEMMA OpsLeaveStep ==
  ASSUME WizardInv, ops' = LeaveStep
  PROVE  /\ ops' \in Seq(OpType) /\ DOMAIN ops' = DOMAIN ops
         /\ \A i \in DOMAIN ops :
              /\ ops'[i].kind = ops[i].kind
              /\ ops'[i].pc = "done" => ops[i].pc = "done"
              /\ ops'[i].pc = "confirm" => ops'[i].sender \in Accounts
              /\ ops'[i].seen \subseteq ops[i].seen
              /\ ops'[i].at = "step" => ops[i].at = "step"
              /\ Running(i)' =>
                   /\ Running(i)
                   /\ ops'[i].seen = ops[i].seen
<1>1. PICK S : S = LeaveStep
  OBVIOUS
<1>2. /\ S \in Seq(OpType) /\ DOMAIN S = DOMAIN ops /\ ops' = S
      /\ \A i \in DOMAIN ops :
           /\ S[i].at \in {ops[i].at, "wizard"}
           /\ S[i].kind = ops[i].kind /\ S[i].pc = ops[i].pc
           /\ S[i].seen = ops[i].seen /\ S[i].sender = ops[i].sender
  BY <1>1, LeavingKeeps DEF WizardInv
<1> QED  BY <1>2 DEF WizardInv, SenderInv, Running

\* Handlers whose page is left.
LEMMA OpsLeaveWizard ==
  ASSUME WizardInv, ops' = LeaveWizard
  PROVE  /\ ops' \in Seq(OpType) /\ DOMAIN ops' = DOMAIN ops
         /\ \A i \in DOMAIN ops :
              /\ ops'[i].kind = ops[i].kind
              /\ ops'[i].pc = "done" => ops[i].pc = "done"
              /\ ops'[i].pc = "confirm" => ops'[i].sender \in Accounts
              /\ ops'[i].seen \subseteq ops[i].seen
              /\ ops'[i].at = "step" => ops[i].at = "step"
              /\ Running(i)' => Running(i) /\ ops'[i].seen = ops[i].seen
<1>1. PICK S : S = LeaveWizard
  OBVIOUS
<1>2. /\ S \in Seq(OpType) /\ DOMAIN S = DOMAIN ops /\ ops' = S
      /\ \A i \in DOMAIN ops :
           /\ S[i].at = IF Running(i) THEN "gone" ELSE "wizard"
           /\ S[i].kind = ops[i].kind /\ S[i].pc = ops[i].pc
           /\ S[i].seen = ops[i].seen /\ S[i].sender = ops[i].sender
  BY <1>1, LeavingKeeps DEF WizardInv
<1> QED  BY <1>2 DEF WizardInv, SenderInv, Running

\* One handler that goes on to pc, or ends; nothing but the chain learns of it.
LEMMA OpsOne ==
  ASSUME WizardInv, NEW i \in DOMAIN ops, NEW q \in OpType,
         ops' = [ops EXCEPT ![i] = q],
         q.kind = ops[i].kind, q.at = ops[i].at, q.pc # "done",
         q.pc = "confirm" => q.sender \in Accounts,
         q.seen \subseteq ops[i].seen,
         q.pc # "failed" => Running(i) /\ q.seen = ops[i].seen
  PROVE  /\ ops' \in Seq(OpType) /\ DOMAIN ops' = DOMAIN ops
         /\ \A j \in DOMAIN ops :
              /\ ops'[j].kind = ops[j].kind
              /\ ops'[j].pc = "done" => ops[j].pc = "done"
              /\ ops'[j].pc = "confirm" => ops'[j].sender \in Accounts
              /\ ops'[j].seen \subseteq ops[j].seen
              /\ ops'[j].at = "step" => ops[j].at = "step"
              /\ Running(j)' =>
                   /\ Running(j)
                   /\ ops'[j].seen = ops[j].seen
<1>1. /\ ops' \in Seq(OpType) /\ DOMAIN ops' = DOMAIN ops /\ ops'[i] = q
      /\ \A j \in DOMAIN ops : j # i => ops'[j] = ops[j]
  <2>1. WizardTypeOK
    BY DEF WizardInv
  <2>2. /\ [ops EXCEPT ![i] = q] \in Seq(OpType)
        /\ DOMAIN [ops EXCEPT ![i] = q] = DOMAIN ops
        /\ [ops EXCEPT ![i] = q][i] = q
        /\ \A j \in DOMAIN ops : j # i => [ops EXCEPT ![i] = q][j] = ops[j]
    BY <2>1, OneOp, Zenon
  <2> QED  BY <2>2, Zenon
<1>2. /\ ops'[i].kind = ops[i].kind
      /\ ops'[i].pc # "done"
      /\ ops'[i].pc = "confirm" => ops'[i].sender \in Accounts
      /\ ops'[i].seen \subseteq ops[i].seen
      /\ ops'[i].at = ops[i].at
      /\ Running(i)' => Running(i) /\ ops'[i].seen = ops[i].seen
  BY <1>1 DEF Running
<1>3. ASSUME NEW j \in DOMAIN ops, j # i
      PROVE  /\ ops'[j] = ops[j] /\ Running(j)' = Running(j)
             /\ ops'[j].pc = "confirm" => ops'[j].sender \in Accounts
  BY <1>1, <1>3 DEF Running, WizardInv, SenderInv
<1> QED  BY <1>1, <1>2, <1>3

\* What leaving a page shows is what localStorage holds.
LEMMA OpenPageStep ==
  ASSUME WizardInv, NEW p \in {"login", "onboarding", "dashboard"}, NEW s \in StepIds,
         OpenPage(p, s)
  PROVE  WizardInv'
<1> USE DEF WizardInv
<1>0. /\ ops' = LeaveWizard
      /\ page' = p /\ step' = s /\ flags' = stored /\ widget' = FreshWidget
      /\ UNCHANGED <<authenticated, stored, chain, contested>>
  BY DEF OpenPage, Hydrated
<1>1. /\ ops' \in Seq(OpType) /\ DOMAIN ops' = DOMAIN ops
      /\ \A i \in DOMAIN ops :
           /\ ops'[i].kind = ops[i].kind
           /\ ops'[i].pc = "done" => ops[i].pc = "done"
           /\ ops'[i].pc = "confirm" => ops'[i].sender \in Accounts
           /\ ops'[i].seen \subseteq ops[i].seen
           /\ ops'[i].at = "step" => ops[i].at = "step"
           /\ Running(i)' => Running(i) /\ ops'[i].seen = ops[i].seen
  BY <1>0, OpsLeaveWizard
<1>2. NotifiedInv'
  BY <1>0, FreshIsTyped DEF FreshTyped, NotifiedInv
<1> QED  BY <1>0, <1>1, <1>2, WizardTyped, FreshIsTyped, QuietStep DEF FreshTyped

\* The first open step is a step.
LEMMA FirstIncompleteTyped ==
  ASSUME NEW fs
  PROVE  FirstIncomplete(fs) \in StepIds
<1> DEFINE open == {i \in DOMAIN Steps : Unlocked(Steps[i], fs) /\ ~Complete(Steps[i], fs)}
           first == CHOOSE i \in open : \A j \in open : i <= j
<1>1. DOMAIN Steps = 1 .. 5 /\ Steps[5] = "firstRun"
  BY DEF Steps
<1>2. FirstIncomplete(fs) = IF open = {} THEN "firstRun" ELSE Steps[first]
  BY DEF FirstIncomplete
<1>3. open \subseteq 1 .. 5
  BY <1>1
<1> HIDE DEF open
<1>4. CASE open # {}
  <2>1. \E i \in open : \A j \in open : i <= j
    <3>1. CASE 1 \in open
      BY <1>3, <3>1
    <3>2. CASE 1 \notin open /\ 2 \in open
      BY <1>3, <3>2
    <3>3. CASE 1 \notin open /\ 2 \notin open /\ 3 \in open
      BY <1>3, <3>3
    <3>4. CASE 1 \notin open /\ 2 \notin open /\ 3 \notin open /\ 4 \in open
      BY <1>3, <3>4
    <3>5. CASE /\ 1 \notin open /\ 2 \notin open /\ 3 \notin open /\ 4 \notin open
               /\ 5 \in open
      BY <1>3, <3>5
    <3>6. 1 \in open \/ 2 \in open \/ 3 \in open \/ 4 \in open \/ 5 \in open
      <4>1. PICK x \in open : TRUE
        BY <1>4
      <4>2. x = 1 \/ x = 2 \/ x = 3 \/ x = 4 \/ x = 5
        BY <1>3, <4>1
      <4> QED  BY <4>1, <4>2
    <3> QED  BY <3>1, <3>2, <3>3, <3>4, <3>5, <3>6
  <2>2. first \in open
    BY <2>1
  <2> QED  BY <1>1, <1>2, <1>3, <1>4, <2>2 DEF StepIds
<1>5. CASE open = {}
  BY <1>1, <1>2, <1>5 DEF StepIds
<1> QED  BY <1>4, <1>5

LEMMA MarkSeenStep ==
  ASSUME WizardInv, MarkSeen
  PROVE  WizardInv'
<1> USE DEF WizardInv
<1>0. /\ ops' = LeaveWizard
      /\ page' = "dashboard" /\ step' = "wallet"
      /\ stored' = flags \cup {"firstRun"} /\ flags' = stored' /\ widget' = FreshWidget
      /\ UNCHANGED <<authenticated, chain, contested>>
  BY DEF MarkSeen
<1>1. /\ ops' \in Seq(OpType) /\ DOMAIN ops' = DOMAIN ops
      /\ \A i \in DOMAIN ops :
           /\ ops'[i].kind = ops[i].kind
           /\ ops'[i].pc = "done" => ops[i].pc = "done"
           /\ ops'[i].pc = "confirm" => ops'[i].sender \in Accounts
           /\ ops'[i].seen \subseteq ops[i].seen
           /\ ops'[i].at = "step" => ops[i].at = "step"
           /\ Running(i)' => Running(i) /\ ops'[i].seen = ops[i].seen
  BY <1>0, OpsLeaveWizard
<1>2. "firstRun" \in Flags /\ "firstRun" \notin Kinds
  BY DEF Flags, Kinds
<1>3. NotifiedInv'
  BY <1>0, FreshIsTyped DEF FreshTyped, NotifiedInv
<1>4. "wallet" \in StepIds
  <2>1. Steps[1] = "wallet" /\ 1 \in DOMAIN Steps
    BY DEF Steps
  <2> QED  BY <2>1 DEF StepIds
<1> QED  BY <1>0, <1>1, <1>2, <1>3, <1>4, WizardTyped, FreshIsTyped, QuietStep DEF FreshTyped

LEMMA ShowStep ==
  ASSUME WizardInv, NEW s \in StepIds, Show(s),
         UNCHANGED <<authenticated, page, flags, stored, chain, contested>>
  PROVE  WizardInv'
<1> USE DEF WizardInv
<1>1. CASE s = step
  <2>1. UNCHANGED <<ops, widget, step>>
    BY <1>1 DEF Show
  <2>2. NotifiedInv'
    BY <2>1 DEF NotifiedInv, Approved
  <2> QED  BY <2>1, <2>2, OpsStay, WizardTyped, QuietStep
<1>2. CASE s # step
  <2>1. ops' = LeaveStep /\ widget' = FreshWidget /\ step' = s
    BY <1>2 DEF Show
  <2>2. NotifiedInv'
    BY <2>1, FreshIsTyped DEF NotifiedInv, FreshTyped
  <2> QED  BY <2>1, <2>2, OpsLeaveStep, WizardTyped, FreshIsTyped, QuietStep DEF FreshTyped
<1> QED  BY <1>1, <1>2

LEMMA AdvanceStep ==
  ASSUME WizardInv, NEW from, NEW to \in StepIds, NEW ready, Advance(from, to, ready)
  PROVE  WizardInv'
BY ShowStep DEF Advance

\* A handler that goes on, or one that fails while the chain may learn of it.
LEMMA HandlerStep ==
  ASSUME WizardInv, NEW i \in DOMAIN ops, NEW q \in OpType,
         ops' = [ops EXCEPT ![i] = q],
         q.kind = ops[i].kind, q.at = ops[i].at, q.pc # "done",
         q.pc = "confirm" => q.sender \in Accounts,
         q.seen \subseteq ops[i].seen,
         q.pc # "failed" => Running(i) /\ q.seen = ops[i].seen,
         chain' \in [Kinds -> SUBSET Accounts], \A k \in Kinds : chain[k] # {} => chain'[k] # {},
         UNCHANGED <<authenticated, page, step, flags, stored, widget, contested>>
  PROVE  WizardInv'
<1> USE DEF WizardInv
<1>1. NotifiedInv'
  BY DEF NotifiedInv, Approved
<1>2. /\ ops' \in Seq(OpType) /\ DOMAIN ops' = DOMAIN ops
      /\ \A j \in DOMAIN ops :
           /\ ops'[j].kind = ops[j].kind
           /\ ops'[j].pc = "done" => ops[j].pc = "done"
           /\ ops'[j].pc = "confirm" => ops'[j].sender \in Accounts
           /\ ops'[j].seen \subseteq ops[j].seen
           /\ ops'[j].at = "step" => ops[j].at = "step"
           /\ Running(j)' =>
                /\ Running(j)
                /\ ops'[j].seen = ops[j].seen
  BY OpsOne
<1> QED  BY <1>1, <1>2, WizardTyped, QuietStep

\* What a mined transaction adds to the chain.
LEMMA Mined ==
  ASSUME WizardInv, NEW i \in DOMAIN ops, ops[i].pc = "confirm", Mine(i)
  PROVE  /\ chain' \in [Kinds -> SUBSET Accounts]
         /\ \A k \in Kinds : chain[k] \subseteq chain'[k]
         /\ Accepts(i) => chain'[ops[i].kind] # {}
<1>1. ops[i].sender \in Accounts /\ ops[i].kind \in Kinds /\ chain \in [Kinds -> SUBSET Accounts]
  BY WizardTyped DEF WizardInv, SenderInv, OpType
<1> QED  BY <1>1 DEF Mine

LEMMA FailingStep ==
  ASSUME WizardInv, NEW i \in DOMAIN ops, Failing(i),
         chain' \in [Kinds -> SUBSET Accounts], \A k \in Kinds : chain[k] \subseteq chain'[k]
  PROVE  WizardInv'
<1> DEFINE q == [ops[i] EXCEPT !.pc = "failed", !.seen = {}, !.account = None, !.sender = None]
<1>1. ops[i] \in OpType
  BY WizardTyped DEF WizardInv
<1>2. /\ q \in OpType /\ q.kind = ops[i].kind /\ q.pc = "failed" /\ q.seen = {}
      /\ q.at = ops[i].at
  BY <1>1 DEF OpType
<1>3. /\ ops' = [ops EXCEPT ![i] = q]
      /\ UNCHANGED <<authenticated, page, step, flags, stored, widget, contested>>
  BY DEF Failing, Ended
<1>4. \A k \in Kinds : chain[k] # {} => chain'[k] # {}
  OBVIOUS
<1> HIDE DEF q
<1> QED  BY <1>2, <1>3, <1>4, HandlerStep

LEMMA AbortStep ==
  ASSUME WizardInv, NEW i \in DOMAIN ops, Abort(i)
  PROVE  WizardInv'
<1>1. Failing(i) /\ (UNCHANGED chain \/ (ops[i].pc = "confirm" /\ Mine(i)))
  BY DEF Abort
<1>2. chain' \in [Kinds -> SUBSET Accounts] /\ \A k \in Kinds : chain[k] \subseteq chain'[k]
  BY <1>1, Mined, WizardTyped DEF WizardInv
<1> QED  BY <1>1, <1>2, FailingStep

LEMMA PinStep ==
  ASSUME WizardInv, NEW i \in DOMAIN ops, Pin(i)
  PROVE  WizardInv'
<1> DEFINE q == [ops[i] EXCEPT !.pc = "sign"]
<1>1. ops[i] \in OpType
  BY WizardTyped DEF WizardInv
<1>2. /\ q \in OpType /\ q.kind = ops[i].kind /\ q.pc = "sign" /\ q.seen = ops[i].seen
      /\ q.at = ops[i].at
  BY <1>1 DEF OpType
<1>3. /\ ops' = [ops EXCEPT ![i] = q] /\ Running(i)
      /\ UNCHANGED <<authenticated, page, step, flags, stored, widget, chain, contested>>
  BY DEF Pin, Running
<1> HIDE DEF q
<1>4. chain' \in [Kinds -> SUBSET Accounts] /\ \A k \in Kinds : chain[k] # {} => chain'[k] # {}
  BY <1>3, WizardTyped DEF WizardInv
<1> QED  BY <1>2, <1>3, <1>4, HandlerStep

LEMMA SignTxStep ==
  ASSUME WizardInv, SessionInv, NEW i \in DOMAIN ops, SignTx(i)
  PROVE  WizardInv'
<1>0. chain' = chain /\ chain' \in [Kinds -> SUBSET Accounts]
  BY WizardTyped DEF WizardInv, SignTx
<1>1. CASE wallet = None
  BY <1>0, <1>1, FailingStep DEF SignTx
<1>2. CASE wallet # None
  <2> DEFINE q == [ops[i] EXCEPT !.pc = "confirm", !.sender = wallet]
  <2>1. ops[i] \in OpType /\ wallet \in Accounts
    BY <1>2, WizardTyped DEF WizardInv, SessionInv, SessionTypeOK
  <2>2. /\ q \in OpType /\ q.kind = ops[i].kind /\ q.pc = "confirm" /\ q.seen = ops[i].seen
        /\ q.at = ops[i].at /\ q.sender \in Accounts
    BY <2>1 DEF OpType
  <2>3. /\ ops' = [ops EXCEPT ![i] = q] /\ Running(i)
        /\ UNCHANGED <<authenticated, page, step, flags, stored, widget, contested>>
    BY <1>2 DEF SignTx, Running
  <2> HIDE DEF q
  <2> QED  BY <1>0, <2>2, <2>3, HandlerStep
<1> QED  BY <1>1, <1>2

\* The button makes a handler from the render, and a refused form makes none.
LEMMA BeginStep ==
  ASSUME WizardInv, SessionInv, NEW k \in Kinds, Begin(k)
  PROVE  WizardInv'
<1> USE DEF WizardInv
<1>0. /\ page = "onboarding" /\ ButtonReady(k)
      /\ UNCHANGED <<authenticated, page, step, flags, stored, widget, chain, contested>>
  BY DEF Begin, WidgetShown
<1>1. PICK sent \in BOOLEAN : ops' = Append(ops, IF sent THEN Started(k) ELSE Refused(k))
  BY DEF Begin
<1> DEFINE q == IF sent THEN Started(k) ELSE Refused(k)
<1>2. /\ q \in OpType /\ q.kind = k /\ q.pc \in {"pin", "sign", "failed"} /\ q.at = "step"
      /\ q.seen \subseteq flags
      /\ q.pc # "failed" => sent /\ q.seen = flags
  <2>1. wallet \in Accounts \cup {None} /\ flags \subseteq Flags
    BY DEF SessionInv, SessionTypeOK, WizardTypeOK
  <2>2. CASE sent
    BY <2>1, <2>2 DEF Started, OpType
  <2>3. CASE ~sent
    BY <2>1, <2>3 DEF Refused, OpType
  <2> QED  BY <2>2, <2>3
<1> HIDE DEF q
<1>b. PICK n : n = Len(ops) + 1
  OBVIOUS
<1>3. ops \in Seq(OpType) /\ Len(ops) \in Nat /\ DOMAIN ops = 1 .. Len(ops)
  BY WizardTyped
<1>4. /\ ops' \in Seq(OpType) /\ DOMAIN ops' = DOMAIN ops \cup {n} /\ n \notin DOMAIN ops
      /\ ops'[n] = q
      /\ \A i \in DOMAIN ops : ops'[i] = ops[i]
  <2>1. ops' = Append(ops, q)
    BY <1>1 DEF q
  <2>2. /\ ops' \in Seq(OpType) /\ Len(ops') = n
        /\ \A i \in 1 .. Len(ops) : ops'[i] = ops[i]
        /\ ops'[n] = q
    BY <1>b, <1>2, <1>3, <2>1, AppendProperties
  <2>3. DOMAIN ops' = 1 .. n
    BY <2>2, LenProperties
  <2> QED  BY <1>b, <1>3, <2>2, <2>3
<1>5. \A i \in DOMAIN ops : Running(i)' = Running(i)
  BY <1>4 DEF Running
<1>6. Running(n)' => sent /\ q.seen = flags
  BY <1>2, <1>4 DEF Running
<1>7. WizardTypeOK'
  BY <1>0, <1>1, <1>4 DEF WizardTypeOK, OpType
<1>8. EarnedInv'
  <2> SUFFICES ASSUME NEW c \in Kinds, chain[c] = {}
               PROVE  /\ c \notin flags \cup stored
                      /\ \A i \in DOMAIN ops' : c \notin ops'[i].seen
                      /\ c = "approve" => widget.allowance # "yes" /\ ~widget.confirmed
    BY <1>0 DEF EarnedInv
  <2> QED  BY <1>2, <1>4 DEF EarnedInv
<1>9. SenderInv'
  BY <1>2, <1>4 DEF SenderInv
<1>10. NotifiedInv'
  BY <1>0 DEF NotifiedInv, Approved
<1>11. KeptInv'
  <2> SUFFICES ASSUME NEW c \in Kinds, c \in Reported', c \notin contested
               PROVE  /\ c \in flags \cap stored
                      /\ \A i \in DOMAIN ops' : Running(i)' => c \in ops'[i].seen \cup {ops'[i].kind}
    BY <1>0 DEF KeptInv, Reported
  <2>1. c \in Reported
    BY <1>0, <1>2, <1>4 DEF Reported
  <2>2. /\ c \in flags \cap stored
        /\ \A i \in DOMAIN ops : Running(i) => c \in ops[i].seen \cup {ops[i].kind}
    BY <2>1 DEF KeptInv
  <2> QED  BY <1>4, <1>5, <1>6, <2>2
<1> QED  BY <1>7, <1>8, <1>9, <1>10, <1>11

LEMMA ReadAllowanceStep ==
  ASSUME WizardInv, ReadAllowance
  PROVE  WizardInv'
<1> USE DEF WizardInv
<1>1. PICK a \in {"yes", "no"} : /\ widget' = [widget EXCEPT !.allowance = a]
                                 /\ a = "yes" => chain["approve"] # {}
  BY DEF ReadAllowance
<1>2. /\ widget \in WidgetType /\ widget.allowance = "unread"
      /\ UNCHANGED <<authenticated, page, step, flags, stored, ops, chain, contested>>
  BY WizardTyped DEF ReadAllowance
<1>3. /\ widget' \in WidgetType /\ widget'.allowance = a
      /\ widget'.confirmed = widget.confirmed /\ widget'.notified = widget.notified
  BY <1>1, <1>2 DEF WidgetType
<1>4. NotifiedInv'
  BY <1>2, <1>3 DEF NotifiedInv, Approved
<1> QED  BY <1>1, <1>2, <1>3, <1>4, OpsStay, WizardTyped, QuietStep

\* An account with an allowance has been through the approval.
LEMMA NotifyApprovedStep ==
  ASSUME WizardInv, NotifyApproved
  PROVE  WizardInv'
<1> USE DEF WizardInv
<1> DEFINE w == [widget EXCEPT !.notified = TRUE]
<1>0. /\ Approved
      /\ stored' = flags \cup {"approve"} /\ flags' = flags \cup {"approve"}
      /\ widget' = IF "policy" \in flags' THEN w ELSE FreshWidget
      /\ contested' = IF Unseen("approve") THEN contested \cup {"approve"} ELSE contested
      /\ UNCHANGED <<authenticated, page, step, ops, chain>>
  BY DEF NotifyApproved, NotifyDue, Persist, Earned, Contest
<1>1. /\ w \in WidgetType /\ w.allowance = widget.allowance /\ w.confirmed = widget.confirmed
  BY WizardTyped DEF WidgetType
<1> HIDE DEF w
<1>2. chain["approve"] # {} /\ "approve" \in Kinds /\ "approve" \in Flags
  BY <1>0 DEF EarnedInv, Approved, Kinds, Flags
<1>3. NotifiedInv'
  BY <1>0, <1>1, FreshIsTyped DEF NotifiedInv, Approved, FreshTyped
<1>4. widget' \in WidgetType /\ (widget'.allowance = "yes" => widget.allowance = "yes")
      /\ (widget'.confirmed => widget.confirmed)
  BY <1>0, <1>1, FreshIsTyped DEF FreshTyped
<1>5. /\ contested' \subseteq Kinds /\ contested \subseteq contested'
      /\ Unseen("approve") => "approve" \in contested'
  BY <1>0, <1>2, WizardTyped
<1> QED  BY <1>0, <1>2, <1>3, <1>4, <1>5, OpsStay, WizardTyped, QuietStep

\* A confirmed transaction: its kind is on the chain, and its flag joins what the
\* others earned unless one of them will write without it or its page was left.
LEMMA ConfirmStep ==
  ASSUME WizardInv, SessionInv, NEW i \in DOMAIN ops, Confirm(i)
  PROVE  WizardInv'
<1> USE DEF WizardInv
<1>0. ops[i].pc = "confirm" /\ Mine(i) /\ Running(i)
  BY DEF Confirm, Running
<1>1. /\ chain' \in [Kinds -> SUBSET Accounts]
      /\ \A k \in Kinds : chain[k] \subseteq chain'[k]
      /\ Accepts(i) => chain'[ops[i].kind] # {}
  BY <1>0, Mined
<1>2. CASE Throws(i)
  BY <1>1, <1>2, FailingStep DEF Confirm
<1>3. CASE ~Throws(i)
  <2> DEFINE k == ops[i].kind
             mounted == ops[i].at # "gone"
  <2>1. /\ ops' = Ended(i, "done")
        /\ contested' = IF ~mounted \/ Unseen(k) THEN contested \cup {k} ELSE contested
        /\ UNCHANGED <<authenticated, page, step>>
        /\ k = "approve" => ConfirmApproval(i)
        /\ k # "approve" => Persist(Earned(ops[i].seen, k), mounted, widget)
    BY <1>3 DEF Confirm, Contest
  <2>2. /\ ops' \in Seq(OpType) /\ DOMAIN ops' = DOMAIN ops
        /\ ops'[i].kind = k /\ ops'[i].pc = "done" /\ ops'[i].seen = {} /\ ops'[i].at = ops[i].at
        /\ \A j \in DOMAIN ops : j # i => ops'[j] = ops[j]
    BY <2>1, EndedOp
  <2>3. /\ ops[i] \in OpType /\ k \in Kinds /\ ops[i].seen \subseteq Flags /\ flags \subseteq Flags
        /\ stored \subseteq Flags
        /\ k \in Flags /\ widget \in WidgetType /\ wallet \in Accounts \cup {None}
    BY WizardTyped DEF OpType, Flags, SessionInv, SessionTypeOK
  <2>4. chain'[k] # {}
    BY <1>1, <1>3 DEF Throws
  \* The page after the handler: the flags it wrote, or the flags it found.
  <2>5. PICK fs \in SUBSET Flags, w \in WidgetType :
          /\ \/ /\ fs \in {ops[i].seen \cup {k}, flags \cup {k}}
                /\ stored' = fs /\ flags' = IF mounted THEN fs ELSE flags
                /\ widget' = IF "policy" \in flags' THEN w ELSE FreshWidget
             \/ /\ UNCHANGED <<flags, stored>> /\ widget' = w
                /\ k = "approve" /\ ops[i].at = "step" /\ widget.notified
          /\ w.notified => w.confirmed \/ w.allowance = "yes"
          /\ w.confirmed => widget.confirmed \/ k = "approve"
          /\ w.allowance = "yes" => widget.allowance = "yes" \/ chain'["approve"] # {}
          /\ w # widget => k = "approve"
    <3>1. CASE k # "approve"
      <4>1. Persist(ops[i].seen \cup {k}, mounted, widget)
        BY <2>1, <3>1 DEF Earned
      <4>2. widget.notified => widget.confirmed \/ widget.allowance = "yes"
        BY DEF NotifiedInv, Approved
      <4>3. ops[i].seen \cup {k} \in SUBSET Flags
        BY <2>3
      <4>4. /\ stored' = ops[i].seen \cup {k} /\ flags' = IF mounted THEN ops[i].seen \cup {k} ELSE flags
            /\ widget' = IF "policy" \in flags' THEN widget ELSE FreshWidget
        BY <4>1 DEF Persist
      <4> QED  BY <2>3, <4>2, <4>3, <4>4
    <3>2. CASE k = "approve"
      <4> DEFINE here == ops[i].at = "step"
                 read == IF here /\ wallet # None THEN AllowanceOf(wallet) ELSE widget.allowance
                 new == IF here THEN [notified |-> TRUE, confirmed |-> TRUE, allowance |-> read]
                        ELSE widget
      <4>1. \/ here /\ widget.notified /\ widget' = new /\ UNCHANGED <<flags, stored>>
            \/ \E fs \in {ops[i].seen} \cup (IF here THEN {flags} ELSE {}) :
                 Persist(Earned(fs, "approve"), mounted, new)
        BY <2>1, <3>2 DEF ConfirmApproval
      <4>2. /\ read \in {"unread", "no", "yes"}
            /\ read = "yes" => widget.allowance = "yes" \/ chain'["approve"] # {}
        BY <2>3 DEF AllowanceOf, WidgetType
      <4> HIDE DEF read
      <4>3. /\ new \in WidgetType
            /\ new.notified => new.confirmed \/ new.allowance = "yes"
            /\ new.allowance = "yes" => widget.allowance = "yes" \/ chain'["approve"] # {}
        BY <2>3, <4>2 DEF WidgetType, NotifiedInv, Approved
      <4> HIDE DEF new
      <4>4. CASE here /\ widget.notified /\ widget' = new /\ UNCHANGED <<flags, stored>>
        BY <2>3, <3>2, <4>3, <4>4
      <4>5. CASE \E fs \in {ops[i].seen} \cup (IF here THEN {flags} ELSE {}) :
                    Persist(Earned(fs, "approve"), mounted, new)
        <5>1. PICK seen \in {ops[i].seen, flags} : Persist(Earned(seen, "approve"), mounted, new)
          BY <4>5
        <5>2. /\ stored' = seen \cup {k} /\ flags' = IF mounted THEN seen \cup {k} ELSE flags
              /\ widget' = IF "policy" \in flags' THEN new ELSE FreshWidget
          BY <3>2, <5>1 DEF Persist, Earned
        <5>3. seen \cup {k} \in SUBSET Flags
          BY <2>3
        <5> QED  BY <2>3, <3>2, <4>3, <5>2, <5>3
      <4> QED  BY <4>1, <4>4, <4>5
    <3> QED  BY <3>1, <3>2
  <2> HIDE DEF k, mounted
  <2>6. WizardTypeOK'
    <3>1. /\ widget' \in WidgetType /\ flags' \subseteq Flags /\ stored' \subseteq Flags
      BY <2>3, <2>5, FreshIsTyped DEF FreshTyped
    <3>2. contested' \subseteq Kinds
      BY <2>1, <2>3 DEF WizardTypeOK
    <3> QED  BY <1>1, <2>1, <2>2, <3>1, <3>2 DEF WizardTypeOK, OpType, WidgetType
  <2>7. NotifiedInv'
    BY <2>5, FreshIsTyped DEF NotifiedInv, Approved, FreshTyped
  <2>8. SenderInv'
    BY <2>2 DEF SenderInv
  <2>9. EarnedInv'
    <3> SUFFICES ASSUME NEW c \in Kinds, chain'[c] = {}
                 PROVE  /\ c \notin flags' \cup stored'
                        /\ \A j \in DOMAIN ops' : c \notin ops'[j].seen
                        /\ c = "approve" => widget'.allowance # "yes" /\ ~widget'.confirmed
      BY DEF EarnedInv
    <3>1. /\ chain[c] = {} /\ c # k
          /\ c \notin flags \cup stored
          /\ \A j \in DOMAIN ops : c \notin ops[j].seen
          /\ c = "approve" => widget.allowance # "yes" /\ ~widget.confirmed
      BY <1>1, <2>4 DEF EarnedInv
    <3>2. c \notin flags' \cup stored'
      BY <2>5, <3>1
    <3>3. \A j \in DOMAIN ops' : c \notin ops'[j].seen
      BY <2>2, <3>1
    <3>4. c = "approve" => widget'.allowance # "yes" /\ ~widget'.confirmed
      BY <2>5, <3>1, FreshIsTyped DEF FreshTyped
    <3> QED  BY <3>2, <3>3, <3>4
  <2>10. KeptInv'
    <3> SUFFICES ASSUME NEW c \in Kinds, c \in Reported', c \notin contested'
                 PROVE  /\ c \in flags' \cap stored'
                        /\ \A j \in DOMAIN ops : Running(j)' => c \in ops'[j].seen \cup {ops'[j].kind}
      BY <2>2 DEF KeptInv, Reported
    <3>1. /\ c \notin contested
          /\ c = k => mounted /\ ~Unseen(k)
      BY <2>1
    <3>2. \A j \in DOMAIN ops : Running(j)' => j # i /\ Running(j) /\ ops'[j] = ops[j]
      BY <2>2 DEF Running
    <3>3. CASE c \in Reported
      <4>1. /\ c \in flags \cap stored
            /\ \A j \in DOMAIN ops : Running(j) => c \in ops[j].seen \cup {ops[j].kind}
        BY <3>1, <3>3 DEF KeptInv
      <4>2. c \in ops[i].seen \cup {k}
        BY <1>0, <4>1 DEF k
      <4>3. c \in flags' \cap stored'
        BY <2>5, <4>1, <4>2
      <4> QED  BY <3>2, <4>1, <4>3
    <3>4. CASE c \notin Reported
      <4>1. c = k
        <5>1. CASE \E j \in DOMAIN ops : ops'[j].pc = "done" /\ ops'[j].kind = c
          BY <2>2, <3>4, <5>1 DEF Reported
        <5>2. CASE c = "approve" /\ widget'.notified
          <6>1. ~widget.notified
            BY <3>4, <5>2 DEF Reported
          <6> QED  BY <2>5, <5>2, <6>1, FreshIsTyped DEF FreshTyped
        <5> QED  BY <2>2, <5>1, <5>2 DEF Reported
      <4>2. ~(k = "approve" /\ widget.notified)
        BY <3>4, <4>1 DEF Reported
      <4>3. c \in flags' \cap stored'
        BY <2>5, <3>1, <4>1, <4>2
      <4>4. \A j \in DOMAIN ops : Running(j) => c \in ops[j].seen \cup {ops[j].kind}
        BY <3>1, <4>1 DEF Unseen
      <4> QED  BY <3>2, <4>3, <4>4
    <3> QED  BY <3>3, <3>4
  <2> QED  BY <2>6, <2>7, <2>8, <2>9, <2>10
<1> QED  BY <1>2, <1>3

\* The wallet changes: an allowance of the new account was approved on chain.
LEMMA WalletStep ==
  ASSUME WizardInv, SessionStep
  PROVE  WizardInv'
<1> USE DEF WizardInv
<1>0. UNCHANGED <<authenticated, page, step, flags, stored, ops, chain, contested>>
  BY DEF SessionStep
<1>1. widget \in WidgetType
  BY WizardTyped
<1>2. /\ widget' \in WidgetType /\ widget'.confirmed = widget.confirmed
      /\ widget'.allowance = "yes" => widget.allowance = "yes" \/ chain'["approve"] # {}
      /\ widget'.notified => widget.notified
      /\ NotifiedInv'
  <2>1. CASE UNCHANGED widget
    BY <1>1, <2>1 DEF NotifiedInv, Approved
  <2>2. CASE \E read \in {"unread"} \cup Cached(wallet') : widget' = OfAccount(read)
    <3>1. PICK read \in {"unread", "yes"} : /\ widget' = OfAccount(read)
                                            /\ read = "yes" => chain["approve"] # {}
      BY <2>2 DEF Cached
    <3>2. /\ widget' \in WidgetType /\ widget'.confirmed = widget.confirmed
          /\ widget'.allowance = read
          /\ widget'.notified = (widget.notified /\ (read = "yes" \/ widget.confirmed))
      BY <1>1, <3>1 DEF OfAccount, WidgetType
    <3> QED  BY <1>0, <3>1, <3>2 DEF NotifiedInv, Approved
  <2> QED  BY <2>1, <2>2 DEF SessionStep
<1> QED  BY <1>0, <1>2, OpsStay, WizardTyped, QuietStep

LEMMA LogStep ==
  ASSUME WizardInv, UNCHANGED <<page, step, flags, stored, widget, ops, chain, contested>>,
         authenticated' \in BOOLEAN
  PROVE  WizardInv'
<1> USE DEF WizardInv
<1>1. NotifiedInv'
  BY DEF NotifiedInv, Approved
<1> QED  BY <1>1, OpsStay, WizardTyped, QuietStep

LEMMA StepsAreSteps == \A s \in {"wallet", "network", "policy", "delegate", "firstRun"} : s \in StepIds
<1>1. /\ DOMAIN Steps = 1 .. 5
      /\ Steps[1] = "wallet" /\ Steps[2] = "network" /\ Steps[3] = "policy"
      /\ Steps[4] = "delegate" /\ Steps[5] = "firstRun"
  BY DEF Steps
<1>2. 1 \in 1 .. 5 /\ 2 \in 1 .. 5 /\ 3 \in 1 .. 5 /\ 4 \in 1 .. 5 /\ 5 \in 1 .. 5
  OBVIOUS
<1> QED  BY <1>1, <1>2 DEF StepIds

LEMMA OwnerStepKeeps ==
  ASSUME WizardInv, SessionInv, OwnerStep
  PROVE  WizardInv'
<1>1. ASSUME NEW s \in StepIds, Select(s) PROVE WizardInv'
  BY <1>1, AdvanceStep DEF Select
<1>2. CASE Continue
  BY <1>2, AdvanceStep, StepsAreSteps DEF Continue
<1>3. CASE MarkSeen
  BY <1>3, MarkSeenStep
<1>4. CASE EnterDashboard
  BY <1>4, OpenPageStep, StepsAreSteps DEF EnterDashboard
<1>5. CASE GoHome
  <2>1. PICK p \in {"login", "dashboard"} : OpenPage(p, "wallet")
    BY <1>5 DEF GoHome
  <2> QED  BY <2>1, OpenPageStep, StepsAreSteps
<1>6. CASE Resume
  <2>1. PICK s \in StepIds : OpenPage("onboarding", s)
    BY <1>6, FirstIncompleteTyped, StepsAreSteps DEF Resume
  <2> QED  BY <2>1, OpenPageStep
<1>7. ASSUME NEW k \in Kinds, Begin(k) PROVE WizardInv'
  BY <1>7, BeginStep
<1> QED  BY <1>1, <1>2, <1>3, <1>4, <1>5, <1>6, <1>7 DEF OwnerStep

LEMMA PageEffectsKeep ==
  ASSUME WizardInv, PageEffects
  PROVE  WizardInv'
<1>1. CASE LoginRedirect
  <2>1. PICK s \in StepIds : OpenPage("onboarding", s)
    BY <1>1, FirstIncompleteTyped DEF LoginRedirect
  <2> QED  BY <2>1, OpenPageStep
<1>2. CASE GateRedirect
  BY <1>2, OpenPageStep, StepsAreSteps DEF GateRedirect
<1>3. CASE WalletAdvance
  BY <1>3, AdvanceStep, StepsAreSteps DEF WalletAdvance
<1>4. CASE NetworkAdvance
  BY <1>4, AdvanceStep, StepsAreSteps DEF NetworkAdvance
<1>5. CASE ReadAllowance
  BY <1>5, ReadAllowanceStep
<1>6. CASE NotifyApproved
  BY <1>6, NotifyApprovedStep
<1> QED  BY <1>1, <1>2, <1>3, <1>4, <1>5, <1>6 DEF PageEffects

OnboardingInv == SessionInv /\ WizardInv

LEMMA OnboardingStep ==
  ASSUME SessionsAssumption, OnboardingInv, [Next]_vars
  PROVE  OnboardingInv'
<1> USE DEF OnboardingInv
<1>1. CASE SessionStep
  BY <1>1, WalletStep, SessionStepKeeps DEF SessionStep
<1>2. CASE Login
  <2>1. UNCHANGED <<wallet, auth, attempted, flights, server>>
    BY <1>2 DEF Login, sessionVars, server
  <2> QED  BY <1>2, <2>1, SessionStutters, LogStep DEF Login
<1>3. CASE Logout
  BY <1>3, SessionStutters, LogStep DEF Logout
<1>4. ASSUME NEW i \in DOMAIN ops, Abort(i) PROVE OnboardingInv'
  BY <1>4, AbortStep, SessionStutters DEF Abort
<1>5. CASE /\ \/ OwnerStep
              \/ PageEffects
              \/ \E i \in DOMAIN ops : Handler(i)
           /\ UNCHANGED sessionVars
  <2>1. SessionInv'
    BY <1>5, SessionStutters DEF sessionVars, server
  <2>2. ASSUME NEW i \in DOMAIN ops, Handler(i) PROVE WizardInv'
    BY <2>2, PinStep, SignTxStep, ConfirmStep DEF Handler
  <2> QED  BY <1>5, <2>1, <2>2, OwnerStepKeeps, PageEffectsKeep
<1>6. CASE UNCHANGED vars
  <2>1. SessionInv'
    BY <1>6, SessionStutters DEF vars, sessionVars, server
  <2>2. WizardInv'
    BY <1>6, LogStep, WizardTyped DEF vars, wizardVars, WizardInv
  <2> QED  BY <2>1, <2>2
<1> QED  BY <1>1, <1>2, <1>3, <1>4, <1>5, <1>6 DEF Next

LEMMA OnboardingStart ==
  ASSUME SessionsAssumption, Init
  PROVE  OnboardingInv
<1>1. SessionInv
  BY SessionStarts DEF Init
<1>2. ops \in Seq(OpType) /\ DOMAIN ops = {}
  BY EmptySeq DEF Init
<1>3. WizardTypeOK
  BY <1>2, StepsAreSteps, FreshIsTyped DEF Init, WizardTypeOK, OpType, FreshTyped, WidgetType
<1>4. EarnedInv /\ SenderInv /\ KeptInv /\ NotifiedInv
  BY <1>2 DEF Init, EarnedInv, SenderInv, KeptInv, Reported, NotifiedInv, FreshWidget
<1> QED  BY <1>1, <1>3, <1>4 DEF OnboardingInv, WizardInv

LEMMA OnboardingInvariant == Spec => []OnboardingInv
<1>1. Init => OnboardingInv
  BY OnboardingStart, SessionsAssumption
<1>2. OnboardingInv /\ [Next]_vars => OnboardingInv'
  BY OnboardingStep, SessionsAssumption
<1> QED  BY <1>1, <1>2, PTL DEF Spec

\* Whatever the wallet and the user do while sign-ins are under way, the page
\* keeps only its own account's token, and the routes take it for no one else.
THEOREM TokenServesTheWallet == Spec => []ServedAsWallet
<1>1. OnboardingInv => ServedAsWallet
  BY TokensServeWallet, SessionsAssumption DEF OnboardingInv
<1> QED  BY <1>1, OnboardingInvariant, PTL

\* Every live session was signed for by its account, over a nonce that was fresh
\* when it was read and that the verification was through with.
THEOREM SessionsAreSigned == Spec => []SessionIsSigned
<1>1. OnboardingInv => SessionIsSigned
  BY SessionsSigned DEF OnboardingInv
<1> QED  BY <1>1, OnboardingInvariant, PTL

\* No flag of the wizard is ahead of the chain, on a page or in localStorage.
THEOREM FlagsStandOnTheChain == Spec => []FlagsAreEarned
<1>1. OnboardingInv => FlagsAreEarned
  BY DEF OnboardingInv, WizardInv, EarnedInv, FlagsAreEarned
<1> QED  BY <1>1, OnboardingInvariant, PTL

\* However many handlers overlap, whatever fails and whatever page is left, a
\* confirmed flag is lost only to another handler that was on its way without it,
\* or because its own handler had lost the page.
THEOREM UncontestedFlagsAreKept == Spec => []ProgressIsKept
<1>1. OnboardingInv => ProgressIsKept
  BY DEF OnboardingInv, WizardInv, KeptInv, ProgressIsKept
<1> QED  BY <1>1, OnboardingInvariant, PTL

\* The states of the browser, the server and the wizard have their types.
THEOREM OnboardingTypeCorrect == Spec => [](SessionTypeOK /\ WizardTypeOK)
<1>1. OnboardingInv => SessionTypeOK /\ WizardTypeOK
  BY DEF OnboardingInv, SessionInv, WizardInv
<1> QED  BY <1>1, OnboardingInvariant, PTL
===============================================================================
