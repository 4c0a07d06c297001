------------------------------- MODULE Sessions -------------------------------
(***************************************************************************)
(* Sign-in with a wallet: the browser's automatic sign-in and sign-out,    *)
(* the nonces and sessions of the infra server (on Supabase; on SQLite no  *)
(* session can be created), and what the routes make of a bearer token or  *)
(* a partner's key.  Nonces and tokens are numbered by their sign-in.      *)
(***************************************************************************)
EXTENDS Naturals, Sequences

CONSTANTS
  Accounts,    \* accounts of the user's wallet
  PartnerKeys, \* keys issued by createPartnerApiKey
  MaxFlights,  \* bound on sign-ins
  MaxSwitches, \* bound on connects, disconnects and account changes
  MaxFaults,   \* bound on refused signatures, failed calls and expiries
  None

ASSUME SessionsAssumption ==
  /\ {MaxFlights, MaxSwitches, MaxFaults} \subseteq Nat
  /\ None \notin Accounts \cup PartnerKeys \cup Nat

VARIABLES
  wallet,   \* the connected account of useAccount, or None
  auth,     \* AuthState of useSiweAuth; currentToken is its token
  attempted,\* attemptedAddress of AuthSessionBootstrap
  flights,  \* every sign-in: its account, who signed, and where it is
  nonces,   \* auth_nonces: of each sign-in none, fresh, used, unmarked or expired
  sessions, \* user_sessions: the address of each live token
  partners, \* the keys whose partner is active
  switches, faults

sessionVars == <<wallet, auth, attempted, flights, nonces, sessions, partners,
                 switches, faults>>
server == <<nonces, sessions, partners>>

Tokens == 1 .. MaxFlights
\* An unmarked nonce is unused in its row, though a session stands on it.
NonceStates == {"none", "fresh", "used", "unmarked", "expired"}
SignedOut == [token |-> None, address |-> None, loading |-> FALSE, error |-> FALSE]
Anonymous == [type |-> "none", who |-> None]

SessionTypeOK ==
  /\ wallet \in Accounts \cup {None}
  /\ auth \in [token : Tokens \cup {None}, address : Accounts \cup {None},
               loading : BOOLEAN, error : BOOLEAN]
  /\ attempted \in Accounts \cup {None}
  /\ flights \in Seq([account : Accounts, signer : Accounts \cup {None},
                      pc : {"nonce", "sign", "read", "mark", "session", "answer", "done"}])
  /\ nonces \in [Tokens -> NonceStates]
  /\ sessions \in [Tokens -> Accounts \cup {None}]
  /\ partners \subseteq PartnerKeys
  /\ (auth.token = None) = (auth.address = None)

SessionInit ==
  /\ wallet = None
  /\ auth = SignedOut
  /\ attempted = None
  /\ flights = <<>>
  /\ nonces = [n \in Tokens |-> "none"]
  /\ sessions = [n \in Tokens |-> None]
  /\ partners = PartnerKeys
  /\ switches = 0
  /\ faults = 0

Fault == faults < MaxFaults /\ faults' = faults + 1

----------------------------------------------------------------------------
(* The browser: each commit runs the effects of the two components.        *)

\* A page: the auth state, attemptedAddress and the account to sign in, if any.
Page(a, att) == [auth |-> a, attempted |-> att, signIn |-> None]

\* "Clear auth when wallet disconnects", and forget the attempt.
OnDisconnect(pg) == [pg EXCEPT !.auth = SignedOut, !.attempted = None]

\* Signed in as another account than the connected one.
KeepOther(pg, w) == pg
SignOutOther(pg, w) ==
  IF w # None /\ pg.auth.address \notin {None, w}
  THEN [pg EXCEPT !.auth = SignedOut, !.attempted = None] ELSE pg

SignInOnce(pg, w) ==
  IF w = None \/ pg.auth.token # None \/ pg.auth.loading \/ pg.attempted = w THEN pg
  ELSE [auth |-> [pg.auth EXCEPT !.loading = TRUE, !.error = FALSE],
        attempted |-> w, signIn |-> w]

\* An effect that sets state runs the effects again; the order of the effects
\* is their order in one pass.
Effects(pg, w) == SignInOnce(SignOutOther(pg, w), w)

\* fs are the flights before a sign-in that the effects start.
Commit(pg, w, fs) ==
  LET next == Effects(pg, w) IN
  /\ Len(fs) < MaxFlights \/ next.signIn = None
  /\ auth' = next.auth
  /\ attempted' = next.attempted
  /\ flights' = IF next.signIn = None THEN fs
                ELSE Append(fs, [account |-> next.signIn, signer |-> None, pc |-> "nonce"])

\* connect, disconnect, or the wallet reports another account.
SwitchWallet(w) ==
  /\ w # wallet
  /\ switches < MaxSwitches
  /\ switches' = switches + 1
  /\ wallet' = w
  /\ Commit(IF w = None THEN OnDisconnect(Page(auth, attempted))
            ELSE Page(auth, attempted), w, flights)
  /\ UNCHANGED <<server, faults>>

At(f, pc) == flights[f].pc = pc
Move(f, pc) == [flights EXCEPT ![f].pc = pc]

\* The catch of signIn; error and loading are of the component, not the flight.
FailedStillLoading == [auth EXCEPT !.error = TRUE]
Failed == [auth EXCEPT !.loading = FALSE, !.error = TRUE]
Fail(f) == Commit(Page(Failed, attempted), wallet, Move(f, "done"))

\* signMessageAsync: the connected account signs, whatever the message says.
Sign(f) ==
  /\ At(f, "sign")
  /\ IF wallet = None THEN Fail(f)
     ELSE /\ flights' = [flights EXCEPT ![f].pc = "read", ![f].signer = wallet]
          /\ UNCHANGED <<auth, attempted>>
  /\ UNCHANGED <<wallet, server, switches, faults>>

\* The answer of /verify is installed for the account the sign-in began with.
Authenticated(f) ==
  [token |-> f, address |-> flights[f].account, loading |-> FALSE, error |-> FALSE]

ReceiveToken(f) ==
  /\ At(f, "answer")
  /\ Commit(Page(Authenticated(f), attempted), wallet, Move(f, "done"))
  /\ UNCHANGED <<wallet, server, switches, faults>>

\* The user refuses to sign, a request of the sign-in fails, or the read of the
\* nonce does, which counts as no nonce.
Refuse(f) ==
  /\ Fault
  /\ flights[f].pc \in {"nonce", "sign", "read", "answer"}
  /\ Fail(f)
  /\ UNCHANGED <<wallet, server, switches>>

----------------------------------------------------------------------------
(* The server.                                                             *)

\* GET /v1/auth/nonce: expired nonces of the address, used or not, are deleted.
Cleaned(f) == [n \in Tokens |->
  IF nonces[n] = "expired" /\ flights[n].account = flights[f].account THEN "none"
  ELSE nonces[n]]
CreateNonce(f) ==
  /\ At(f, "nonce")
  /\ nonces' = [Cleaned(f) EXCEPT ![f] = "fresh"]
  /\ flights' = Move(f, "sign")
  /\ UNCHANGED <<wallet, auth, attempted, sessions, partners, switches, faults>>

AnySignature(f) == flights[f].signer # None
SignatureFits(f) == flights[f].signer = flights[f].account
NonceFresh(f) == nonces[f] = "fresh"

\* POST /v1/auth/verify, up to the read of the nonce.
ReadNonce(f) ==
  /\ At(f, "read")
  /\ IF SignatureFits(f) /\ NonceFresh(f)
     THEN flights' = Move(f, "mark") /\ UNCHANGED <<auth, attempted>>
     ELSE Fail(f)
  /\ UNCHANGED <<wallet, server, switches, faults>>

\* The nonce may have expired, and been deleted, since it was read.
MarkNonce(f) ==
  /\ At(f, "mark")
  /\ nonces' = [nonces EXCEPT ![f] = IF @ = "fresh" THEN "used" ELSE @]
  /\ flights' = Move(f, "session")
  /\ UNCHANGED <<wallet, auth, attempted, sessions, partners, switches, faults>>

CreateSession(f) ==
  /\ At(f, "session")
  /\ sessions' = [sessions EXCEPT ![f] = flights[f].account]
  /\ flights' = Move(f, "answer")
  /\ UNCHANGED <<wallet, auth, attempted, nonces, partners, switches, faults>>

\* No handler looks at the error of a write: it goes on without its row, without
\* the mark, or without the session whose token it answers with.
Unwritten(f) ==
  /\ Fault
  /\ \/ At(f, "nonce") /\ flights' = Move(f, "sign") /\ nonces' = Cleaned(f)
     \/ /\ At(f, "mark") /\ flights' = Move(f, "session")
        /\ nonces' = [nonces EXCEPT ![f] = IF @ = "fresh" THEN "unmarked" ELSE @]
     \/ At(f, "session") /\ flights' = Move(f, "answer") /\ UNCHANGED nonces
  /\ UNCHANGED <<wallet, auth, attempted, sessions, partners, switches>>

\* Ten minutes pass for a nonce, 24 hours for a session.
Expire(f) ==
  /\ Fault
  /\ \/ /\ nonces[f] \notin {"none", "expired"}
        /\ nonces' = [nonces EXCEPT ![f] = "expired"]
        /\ UNCHANGED sessions
     \/ sessions[f] # None /\ sessions' = [sessions EXCEPT ![f] = None] /\ UNCHANGED nonces
  /\ UNCHANGED <<wallet, auth, attempted, flights, partners, switches>>

----------------------------------------------------------------------------
(* Requests.                                                               *)

\* read is the set of tables whose read does not fail: no row, no error is seen.
Tables == {"user_sessions", "partners"}

VerifySessionToken(token, read) ==
  IF token = None \/ "user_sessions" \notin read \/ sessions[token] = None THEN Anonymous
  ELSE [type |-> "user", who |-> sessions[token]]

VerifyApiKey(key, read) ==
  IF "partners" \in read /\ key \in partners THEN [type |-> "partner", who |-> key]
  ELSE Anonymous

\* A good token is preferred to a key; a bad one does not hide the key.
TryAuthenticate(token, key, read) ==
  IF VerifySessionToken(token, read) # Anonymous THEN VerifySessionToken(token, read)
  ELSE VerifyApiKey(key, read)

Roles(id) ==
  CASE id.type = "user" -> {"owner", "challenger"}
    [] id.type = "partner" -> {"partner_admin"}
    [] OTHER -> {}

Routes == {"open", "execute", "stream", "resolve"}
RequireAuth(id, types) == id.type \in types
RequireRole(id, roles) == Roles(id) \cap roles # {}
Allowed(route, id) ==
  CASE route = "open" -> TRUE
    [] route = "execute" -> RequireAuth(id, {"partner", "service"})
    [] route = "stream" -> RequireAuth(id, {"user", "partner"})
    [] route = "resolve" -> RequireRole(id, {"reviewer", "partner_admin"})

\* A partner is deactivated in the table.
Deactivate(key) ==
  /\ key \in partners
  /\ Fault
  /\ partners' = partners \ {key}
  /\ UNCHANGED <<wallet, auth, attempted, flights, nonces, sessions, switches>>

FlightStep(f) ==
  \/ CreateNonce(f) \/ Sign(f) \/ ReadNonce(f) \/ MarkNonce(f) \/ CreateSession(f)
  \/ ReceiveToken(f)

SessionNext ==
  \/ \E w \in Accounts \cup {None} : SwitchWallet(w)
  \/ \E f \in DOMAIN flights : FlightStep(f) \/ Refuse(f) \/ Unwritten(f) \/ Expire(f)
  \/ \E key \in PartnerKeys : Deactivate(key)

----------------------------------------------------------------------------
(* Properties.                                                             *)

\* Whatever order sign-ins end in while the wallet connects, disconnects and
\* changes account, the page never keeps another account's token: wherever it
\* sends it, alone or beside a partner's key, it is served as the connected
\* account, and no route that wants a partner or a reviewer takes it for one; only
\* when the token's session is gone or cannot be read is the key asked.
ServedAsWallet ==
  wallet # None /\ auth.token # None =>
    /\ auth.address = wallet
    /\ \A key \in PartnerKeys \cup {None}, route \in Routes, read \in SUBSET Tables :
         LET id == TryAuthenticate(auth.token, key, read) IN
         Allowed(route, id) =>
           /\ id.type = "user" => id.who = wallet /\ route \in {"open", "stream"}
           /\ id.type # "user" => sessions[auth.token] = None \/ "user_sessions" \notin read

\* A session is of the account that signed for it, over a nonce that the server
\* gave out, found fresh and then marked, let expire or failed to mark: it is
\* never left fresh by a verification that still has to mark it.
SessionIsSigned ==
  \A f \in DOMAIN flights : sessions[f] # None =>
    /\ flights[f].signer = sessions[f]
    /\ nonces[f] # "fresh"

\* A wallet that stays connected is signed in or told that it is not: no order
\* of late answers leaves the page loading or unattempted.
SignInSettles ==
  \A w \in Accounts :
    <>[](wallet = w) =>
      <>[](~auth.loading /\ (auth.address = w \/ (attempted = w /\ auth.token = None)))
===============================================================================
