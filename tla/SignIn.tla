-------------------------------- MODULE SignIn -------------------------------
\* Who a user is: sessions in the backend, the session and the wallet in the
\* browser, and the gate of the admin pages.
EXTENDS Subject, Naturals, FiniteSets

-----------------------------------------------------------------------------
(***************************************************************************)
(* Sessions                                                                *)
(*                                                                         *)
(* Wallet sessions of one wallet: challenge and verification, tokens and   *)
(* their generation, the Redis denylist with its TTLs, refresh with its    *)
(* grace window, and the registry of device-bound admin sessions. Time is  *)
(* a small clock because every rule here compares expiry times.            *)
(***************************************************************************)

CONSTANTS
  Tabs,          \* clients of the wallet that run requests concurrently
  TokenTtl,      \* JWT_EXPIRES_IN
  RefreshGrace,  \* REFRESH_EXPIRY_GRACE_SECONDS
  MaxTokens,     \* bound: tokens issued
  MaxChallenges, \* bound: challenges issued
  MaxDeviceCalls, \* bound: step-ups, and revocations by device or by jti
  MaxClock       \* bound: the clock

VARIABLES
  clock,
  challenge,     \* the stored challenge (a number), 0 when there is none
  challenges,    \* challenges issued so far
  logins,        \* tokens issued from a verified challenge
  token,         \* issued tokens by jti: iat, tv, admin
  tokens,        \* number of tokens issued
  deniedUntil,   \* denylist entry of a jti: when its TTL ends, 0 when none
  generation,    \* token_version of the wallet
  record,        \* jtis with an admin_session record
  tab,           \* per client: the request under way
  children,      \* tokens minted by refreshing a jti
  loggedOut,     \* jtis revoked by their own holder or by device
  deviceCalls,   \* step-ups and revocations so far
  foreign        \* jtis whose denylist entry was written with another token's expiry

sessVars == <<clock, challenge, challenges, logins, token, tokens, deniedUntil,
              generation, record, tab, children, loggedOut, deviceCalls, foreign>>

Jtis == 1..MaxTokens
AtRest == [op |-> "none", jti |-> 0]
NoSessToken == [iat |-> 0, tv |-> 0, admin |-> FALSE]

SessInit ==
  /\ clock = 0 /\ challenge = 0 /\ challenges = 0 /\ logins = 0 /\ tokens = 0
  /\ token = [j \in Jtis |-> NoSessToken]
  /\ deniedUntil = [j \in Jtis |-> 0]
  /\ generation = 0
  /\ record = {} /\ loggedOut = {} /\ foreign = {} /\ deviceCalls = 0
  /\ tab = [c \in Tabs |-> AtRest]
  /\ children = [j \in Jtis |-> 0]

Exp(j) == token[j].iat + TokenTtl
Issued(j) == j <= tokens
MaxOf(a, b) == IF a >= b THEN a ELSE b

\* isTokenRevoked: the key exists until its TTL runs out.
Denied(j) == clock < deniedUntil[j]

\* validateToken, behind authMiddleware.
Accepted(j) ==
  /\ Issued(j)
  /\ clock < Exp(j)
  /\ ~Denied(j)
  /\ token[j].tv >= generation

\* adminMiddleware on a device-bound token.
AdminAccepted(j) == Accepted(j) /\ token[j].admin /\ j \in record

\* The claims refreshToken checks before it looks at the denylist.
InRefreshWindow(j) == Issued(j) /\ clock <= Exp(j) + RefreshGrace

\* revokeToken stores nothing for an expiry that has passed.
Revoke(j, expiresAt) ==
  deniedUntil' = IF expiresAt > clock THEN [deniedUntil EXCEPT ![j] = expiresAt]
                 ELSE deniedUntil

IssueToken(admin) ==
  /\ tokens < MaxTokens
  /\ tokens' = tokens + 1
  /\ token' = [token EXCEPT ![tokens + 1] =
                 [iat |-> clock, tv |-> generation, admin |-> admin]]

Goes(c, op, j) == tab' = [tab EXCEPT ![c] = [op |-> op, jti |-> j]]
Rests(c) == tab' = [tab EXCEPT ![c] = AtRest]
Doing(c, op) == tab[c].op = op

-----------------------------------------------------------------------------
(* Challenge and verification.                                             *)

GenerateChallenge ==
  /\ challenges < MaxChallenges
  /\ challenges' = challenges + 1
  /\ challenge' = challenges + 1
  /\ UNCHANGED <<clock, logins, token, tokens, deniedUntil, generation, record,
                 tab, children, loggedOut, deviceCalls, foreign>>

ChallengeExpires ==
  /\ challenge # 0
  /\ challenge' = 0
  /\ UNCHANGED <<clock, challenges, logins, token, tokens, deniedUntil, generation,
                 record, tab, children, loggedOut, deviceCalls, foreign>>

\* GETDEL consumes the challenge for exactly one verification.
VerifyTakesChallenge(c) ==
  /\ tab[c] = AtRest
  /\ challenge # 0
  /\ challenge' = 0
  /\ Goes(c, "verify", 0)
  /\ UNCHANGED <<clock, challenges, logins, token, tokens, deniedUntil, generation,
                 record, children, loggedOut, deviceCalls, foreign>>

\* The signature is good: the failure counter is cleared and a token issued.
VerifySucceeds(c) ==
  /\ Doing(c, "verify")
  /\ IssueToken(FALSE)
  /\ logins' = logins + 1
  /\ Rests(c)
  /\ UNCHANGED <<clock, challenge, challenges, deniedUntil, generation, record,
                 children, loggedOut, deviceCalls, foreign>>

VerifyFails(c) ==
  /\ Doing(c, "verify")
  /\ Rests(c)
  /\ UNCHANGED <<clock, challenge, challenges, logins, token, tokens, deniedUntil,
                 generation, record, children, loggedOut, deviceCalls, foreign>>

-----------------------------------------------------------------------------
(* Logout, refresh, generation bump.                                       *)

Logout(j) ==
  /\ Accepted(j)
  /\ Revoke(j, Exp(j))
  /\ record' = record
  /\ loggedOut' = loggedOut \cup {j}
  /\ UNCHANGED <<clock, challenge, challenges, logins, token, tokens, generation,
                 tab, children, deviceCalls, foreign>>

\* The denylist is read here ...
RefreshChecks(c, j) ==
  /\ tab[c] = AtRest
  /\ InRefreshWindow(j)
  /\ ~Denied(j)
  /\ Goes(c, "refresh", j)
  /\ UNCHANGED <<clock, challenge, challenges, logins, token, tokens, deniedUntil,
                 generation, record, children, loggedOut, deviceCalls, foreign>>

\* Mutant: the deny-list entry covers the token's own lifetime only.
RefreshRotatesShort(c) ==
  /\ Doing(c, "refresh")
  /\ LET j == tab[c].jti
     IN /\ Revoke(j, Exp(j))
        /\ IssueToken(FALSE)
        /\ children' = [children EXCEPT ![j] = @ + 1]
  /\ Rests(c)
  /\ UNCHANGED <<clock, challenge, challenges, logins, generation, record, loggedOut, deviceCalls, foreign>>

\* ... and written here, before the new token is issued.
RefreshRotates(c) ==
  /\ Doing(c, "refresh")
  /\ LET j == tab[c].jti
     IN /\ Revoke(j, MaxOf(Exp(j), clock) + RefreshGrace)
        /\ IssueToken(FALSE)
        /\ children' = [children EXCEPT ![j] = @ + 1]
  /\ Rests(c)
  /\ UNCHANGED <<clock, challenge, challenges, logins, generation, record, loggedOut, deviceCalls, foreign>>

BumpTokenVersion ==
  /\ generation = 0
  /\ generation' = generation + 1
  /\ UNCHANGED <<clock, challenge, challenges, logins, token, tokens, deniedUntil,
                 record, tab, children, loggedOut, deviceCalls, foreign>>

-----------------------------------------------------------------------------
(* Device-bound admin sessions.                                            *)

DeviceCall == deviceCalls < MaxDeviceCalls /\ deviceCalls' = deviceCalls + 1

\* Step-up: mint and register the bound token, then retire the presented one.
StepUp(j) ==
  /\ DeviceCall
  /\ Accepted(j)
  /\ IssueToken(TRUE)
  /\ Revoke(j, Exp(j))
  /\ record' = (record \ {j}) \cup {tokens + 1}
  /\ loggedOut' = loggedOut \cup {j}
  /\ UNCHANGED <<clock, challenge, challenges, logins, generation, tab, children, foreign>>

\* revokeDevice, then the denylist entry for each session it removed.
RevokeDevice(j) ==
  /\ DeviceCall
  /\ j \in record
  /\ record' = record \ {j}
  /\ Revoke(j, MaxOf(Exp(j), clock + 1))
  /\ loggedOut' = loggedOut \cup {j}
  /\ UNCHANGED <<clock, challenge, challenges, logins, token, tokens, generation,
                 tab, children, foreign>>

\* POST sessions/revoke with a jti: the TTL is the caller's, k, not the target's.
RevokeSession(j, k) ==
  /\ DeviceCall
  /\ AdminAccepted(k)
  /\ Issued(j)
  /\ Revoke(j, Exp(k))
  /\ record' = record \ {j}
  /\ loggedOut' = IF j = k THEN loggedOut \cup {j} ELSE loggedOut
  /\ foreign' = IF j = k THEN foreign ELSE foreign \cup {j}
  /\ UNCHANGED <<clock, challenge, challenges, logins, token, tokens, generation,
                 tab, children>>

\* touch reads the record and writes it back, also when it was revoked meanwhile.
TouchReads(c, j) ==
  /\ tab[c] = AtRest
  /\ AdminAccepted(j)
  /\ Goes(c, "touch", j)
  /\ UNCHANGED <<clock, challenge, challenges, logins, token, tokens, deniedUntil,
                 generation, record, children, loggedOut, deviceCalls, foreign>>

TouchWrites(c) ==
  /\ Doing(c, "touch")
  /\ record' = record \cup {tab[c].jti}
  /\ Rests(c)
  /\ UNCHANGED <<clock, challenge, challenges, logins, token, tokens, deniedUntil,
                 generation, children, loggedOut, deviceCalls, foreign>>

\* Records carry the token's remaining life, so they go with it.
ClockTicks ==
  /\ clock < MaxClock
  /\ clock' = clock + 1
  /\ record' = {j \in record : Exp(j) >= clock}
  /\ UNCHANGED <<challenge, challenges, logins, token, tokens, deniedUntil, generation,
                 tab, children, loggedOut, deviceCalls, foreign>>

SessNext ==
  \/ GenerateChallenge \/ ChallengeExpires \/ BumpTokenVersion \/ ClockTicks
  \/ \E c \in Tabs :
       \/ VerifyTakesChallenge(c) \/ VerifySucceeds(c) \/ VerifyFails(c)
       \/ RefreshRotates(c) \/ TouchWrites(c)
       \/ \E j \in Jtis : RefreshChecks(c, j) \/ TouchReads(c, j)
  \/ \E j \in Jtis :
       \/ Logout(j) \/ StepUp(j) \/ RevokeDevice(j)
       \/ \E k \in Jtis : RevokeSession(j, k)

-----------------------------------------------------------------------------

SessTypeOK ==
  /\ clock \in 0..MaxClock
  /\ challenge \in 0..MaxChallenges
  /\ tokens \in 0..MaxTokens
  /\ token \in [Jtis -> [iat : 0..MaxClock, tv : 0..1, admin : BOOLEAN]]
  /\ record \subseteq 1..tokens
  /\ tab \in [Tabs -> [op : {"none", "verify", "refresh", "touch"}, jti : 0..MaxTokens]]

\* One challenge yields one login, however many verifications race for it.
ChallengeUsedOnce == logins <= challenges

\* A session its holder ended (logout, step-up, device revocation) neither passes
\* authentication nor buys a refresh for as long as its token would have lasted,
\* also when a refresh overlaps the logout or a concurrent touch puts the
\* registry record back. The entry lasts no longer than that, and refreshToken
\* goes by the entry alone. (An entry that an admin rewrote through
\* sessions/revoke has the admin's own expiry and is excepted.)
EndedSessionsStayEnded ==
  \A j \in loggedOut \ foreign : clock < Exp(j) => Denied(j) /\ ~Accepted(j)

\* How long the denylist entry of a refreshed token lasts: through the grace
\* window but for its last second, or, overwritten by a logout or revocation,
\* to the token's own expiry.
RefusedUntil(j) == IF j \in loggedOut THEN Exp(j) ELSE Exp(j) + RefreshGrace

\* A refreshed token buys no further refresh while its entry lasts, and what it
\* bought before is bounded: refreshToken checks the denylist and writes it in
\* two calls, so the refreshes that overlap the first succeed with it, one for
\* each client, and no others.
RefreshedOnce ==
  \A j \in Jtis \ foreign :
    children[j] > 0 /\ clock < RefusedUntil(j) =>
      Denied(j) /\ children[j] <= Cardinality(Tabs)

-----------------------------------------------------------------------------
(***************************************************************************)
(* WebSession                                                              *)
(*                                                                         *)
(* The session of the web client: wallet address and token in memory, the  *)
(* token in session storage, a timer that ends the session before the      *)
(* token expires, and the overlapping calls that change them.              *)
(***************************************************************************)

CONSTANTS
  WebAccounts,     \* accounts of the wallet extension
  WebLastTime,     \* bound: the last minute
  TokenMinutes,    \* lifetime of a token
  ExpiryBuffer,    \* the minutes a session ends before its token
  MaxWebCalls      \* bound: calls started

VARIABLES
  web,        \* the provider's state: address, token, calls counted as loading
  stored,     \* the token in session storage
  wallet,     \* the extension: the selected account, or none when not permitted
  webCalls,   \* calls in flight: kind, step, address captured
  minute,     \* the clock
  signedOut,  \* history: a logout finished and nobody signed in since
  accountMoved,  \* history: the extension's account, or one being read, is not the one signed in
  startedCalls

webVars == <<web, stored, wallet, webCalls, minute, signedOut, accountMoved, startedCalls>>

NoAccount == "none"
NoToken == [of |-> NoAccount, exp |-> 0]
Expired(tok) == minute >= tok.exp

WebInit ==
  /\ wallet = NoAccount /\ stored = NoToken
  /\ web = [address |-> NoAccount, token |-> NoToken, loading |-> TRUE]
  /\ webCalls = {[id |-> 0, kind |-> "refresh", address |-> NoAccount]}
  /\ minute = 0 /\ signedOut = FALSE /\ accountMoved = TRUE /\ startedCalls = 1

\* The wallet and the stored token the browser comes with.
WebStart ==
  /\ wallet' \in WebAccounts \union {NoAccount}
  /\ stored' \in {NoToken} \union [of : WebAccounts, exp : {TokenMinutes}]
  /\ UNCHANGED <<web, webCalls, minute, signedOut, accountMoved, startedCalls>>

StartCall(kind, address) ==
  /\ startedCalls < MaxWebCalls
  /\ startedCalls' = startedCalls + 1
  /\ webCalls' = webCalls \union {[id |-> startedCalls, kind |-> kind, address |-> address]}

\* refreshAuth, from its caller.
RefreshAuth ==
  /\ StartCall("refresh", NoAccount)
  /\ web' = [web EXCEPT !.loading = TRUE]
  /\ UNCHANGED <<stored, wallet, minute, signedOut, accountMoved>>

\* checkWalletState: the address, when the extension is there and permits it.
CheckedAddress == wallet

WalletChecked ==
  /\ \E c \in webCalls :
       /\ c.kind = "refresh"
       /\ webCalls' = (webCalls \ {c}) \union {[c EXCEPT !.kind = "checked", !.address = CheckedAddress]}
  /\ UNCHANGED <<web, stored, wallet, minute, signedOut, accountMoved, startedCalls>>

\* The stored token is taken if it has not expired.
RefreshEnds(c) ==
  /\ web' = [address |-> c.address, token |-> IF Expired(stored) THEN NoToken ELSE stored,
             loading |-> FALSE]
  /\ webCalls' = webCalls \ {c}
  /\ UNCHANGED <<stored, wallet, minute, signedOut, accountMoved, startedCalls>>

ConnectWebWallet ==
  /\ ~web.loading
  /\ StartCall("connect", NoAccount)
  /\ web' = [web EXCEPT !.loading = TRUE]
  /\ UNCHANGED <<stored, wallet, minute, signedOut, accountMoved>>

\* requestAccess: the user picks an account or declines.
ConnectEnds(c) ==
  /\ \/ \E a \in WebAccounts : /\ wallet' = a
                               /\ web' = [web EXCEPT !.address = a, !.loading = FALSE]
                               /\ accountMoved' = (accountMoved \/ a # web.token.of)
     \/ /\ web' = [web EXCEPT !.loading = FALSE]
        /\ UNCHANGED <<wallet, accountMoved>>
  /\ webCalls' = webCalls \ {c}
  /\ UNCHANGED <<stored, minute, signedOut, startedCalls>>

\* authenticate works for the address of the render it was called from.
Authenticate ==
  /\ ~web.loading /\ web.address # NoAccount
  /\ StartCall("authenticate", web.address)
  /\ web' = [web EXCEPT !.loading = TRUE]
  /\ UNCHANGED <<stored, wallet, minute, signedOut, accountMoved>>

\* Challenge, signature and verification succeed: the token is stored, then shown.
SignInEnds(c) ==
  /\ LET tok == [of |-> c.address, exp |-> minute + TokenMinutes]
     IN  /\ stored' = tok
         /\ web' = [web EXCEPT !.token = tok, !.loading = FALSE]
  /\ signedOut' = FALSE
  /\ accountMoved' = \/ wallet # c.address \/ web.address # c.address
                      \/ \E r \in webCalls : r.kind = "checked" /\ r.address # c.address
  /\ webCalls' = webCalls \ {c}
  /\ UNCHANGED <<wallet, minute, startedCalls>>

SignInFails(c) ==
  /\ web' = [web EXCEPT !.loading = FALSE]
  /\ webCalls' = webCalls \ {c}
  /\ UNCHANGED <<stored, wallet, minute, signedOut, accountMoved, startedCalls>>

WebLogout ==
  /\ web.token # NoToken
  /\ StartCall("logout", NoAccount)
  /\ UNCHANGED <<web, stored, wallet, minute, signedOut, accountMoved>>

ClearStored == NoToken

\* The backend's answer does not matter: storage and state are cleared.
LogoutEnds(c) ==
  /\ stored' = ClearStored
  /\ web' = [web EXCEPT !.token = NoToken]
  /\ signedOut' = TRUE
  /\ webCalls' = webCalls \ {c}
  /\ UNCHANGED <<wallet, minute, accountMoved, startedCalls>>

CallEnds ==
  \E c \in webCalls :
    \/ c.kind = "checked" /\ RefreshEnds(c)
    \/ c.kind = "connect" /\ ConnectEnds(c)
    \/ c.kind = "authenticate" /\ (SignInEnds(c) \/ SignInFails(c))
    \/ c.kind = "logout" /\ LogoutEnds(c)

TimerDue == web.token # NoToken /\ minute + ExpiryBuffer >= web.token.exp

SessionTimer ==
  /\ TimerDue
  /\ stored' = NoToken
  /\ web' = [web EXCEPT !.token = NoToken]
  /\ UNCHANGED <<wallet, webCalls, minute, signedOut, accountMoved, startedCalls>>

\* Timers fire within their minute.
MinutePasses ==
  /\ minute < WebLastTime /\ ~TimerDue
  /\ minute' = minute + 1
  /\ UNCHANGED <<web, stored, wallet, webCalls, signedOut, accountMoved, startedCalls>>

\* Another account is selected in the extension, or permission is withdrawn.
AccountSwitched ==
  /\ \E a \in (WebAccounts \union {NoAccount}) \ {wallet} : wallet' = a
  /\ accountMoved' = TRUE
  /\ UNCHANGED <<web, stored, webCalls, minute, signedOut, startedCalls>>

WebNext ==
  \/ RefreshAuth \/ ConnectWebWallet \/ Authenticate \/ WebLogout \/ WalletChecked \/ CallEnds
  \/ SessionTimer \/ MinutePasses \/ AccountSwitched

-----------------------------------------------------------------------------

WebTypeOK ==
  /\ web.address \in WebAccounts \union {NoAccount}
  /\ web.token.of \in WebAccounts \union {NoAccount} /\ stored.of \in WebAccounts \union {NoAccount}
  /\ minute \in 0..WebLastTime /\ Cardinality(webCalls) <= MaxWebCalls

\* A session shown as signed in has a token that has not expired, also one
\* restored from storage after a reload.
SessionWithinToken == web.token # NoToken => ~Expired(web.token)

\* After a logout nothing but a new sign-in brings the session back, whatever
\* refreshes and reloads were on their way.
SignedOutStaysOut == signedOut => web.token = NoToken /\ stored = NoToken

\* The address shown is the one the token was issued to, as long as the
\* extension's account has not changed since the sign-in and no refresh was
\* then holding an address read before an earlier change.
AddressedAsSigned == web.token # NoToken /\ ~accountMoved => web.address = web.token.of

-----------------------------------------------------------------------------
(***************************************************************************)
(* WalletIdentity                                                          *)
(*                                                                         *)
(* The shared store of the wallet's identity in the web client: refreshes  *)
(* and connection requests overlap, and only the latest may write.  Also   *)
(* the wallet states derived from a probe and the action each one advises. *)
(***************************************************************************)

CONSTANTS
  IdAccounts,    \* accounts of the extension
  MaxIdOps,      \* bound: operations begun
  MaxIdChanges   \* bound: changes made in the extension

VARIABLES
  identity,     \* the store: address, authorized, detected, loading
  idOps,        \* operations awaiting the extension
  latestOp,     \* activeOperationId
  extension,    \* the extension: installed, permitted, selected account, network
  changedSince, \* history: operations that began before the extension last changed
  idChanges

identityVars == <<identity, idOps, latestOp, extension, changedSince, idChanges>>

NoId == "none"

IdentityInit ==
  /\ extension = [installed |-> FALSE, permitted |-> FALSE, account |-> NoId, rightNetwork |-> TRUE]
  /\ identity = [address |-> NoId, authorized |-> FALSE, detected |-> FALSE, loading |-> TRUE]
  /\ idOps = {[id |-> 1, kind |-> "refresh", detected |-> FALSE, allowed |-> FALSE]}
  /\ latestOp = 1 /\ changedSince = {} /\ idChanges = 0

\* The wallet extension the browser comes with.
IdentityStart ==
  /\ extension' \in [installed : BOOLEAN, permitted : BOOLEAN,
                    account : IdAccounts \union {NoId}, rightNetwork : BOOLEAN]
  /\ ~extension'.installed => ~extension'.permitted /\ extension'.account = NoId
  /\ UNCHANGED <<identity, idOps, latestOp, changedSince, idChanges>>

\* beginOperation
BeginOp(kind, ops) ==
  /\ latestOp < MaxIdOps
  /\ latestOp' = latestOp + 1
  /\ idOps' = ops \union {[id |-> latestOp + 1, kind |-> kind, detected |-> FALSE, allowed |-> FALSE]}
  /\ identity' = [identity EXCEPT !.loading = TRUE]

RefreshIdentity ==
  /\ BeginOp("refresh", idOps)
  /\ UNCHANGED <<extension, changedSince, idChanges>>

ConnectIdentity ==
  /\ BeginOp("connect", idOps)
  /\ UNCHANGED <<extension, changedSince, idChanges>>

\* isConnected and isAllowed answered.
ProbeAnswered ==
  /\ \E o \in idOps :
       /\ o.kind = "refresh"
       /\ idOps' = (idOps \ {o}) \union
            {[o EXCEPT !.kind = "probed", !.detected = extension.installed,
              !.allowed = extension.permitted]}
  /\ UNCHANGED <<identity, latestOp, extension, changedSince, idChanges>>

IsLatestOperation(o) == o.id = latestOp

Written(o, new) ==
  /\ identity' = IF IsLatestOperation(o) THEN new ELSE identity
  /\ idOps' = idOps \ {o}
  /\ UNCHANGED <<latestOp, extension, changedSince, idChanges>>

\* getAddress answered, when the extension is there and permits it.
RefreshWrites ==
  \E o \in idOps :
    /\ o.kind = "probed"
    /\ Written(o, [address |-> IF o.detected /\ o.allowed THEN extension.account ELSE NoId,
                   authorized |-> o.detected /\ o.allowed, detected |-> o.detected, loading |-> FALSE])

RefreshThrows ==
  \E o \in idOps :
    /\ o.kind \in {"refresh", "probed"}
    /\ Written(o, [address |-> NoId, authorized |-> FALSE, detected |-> FALSE, loading |-> FALSE])

\* The user grants access and picks an account.
ConnectGranted ==
  \E o \in idOps, a \in IdAccounts :
    /\ o.kind = "connect" /\ extension.installed
    /\ extension' = [extension EXCEPT !.permitted = TRUE, !.account = a]
    /\ changedSince' = {p \in 1..MaxIdOps : p <= latestOp} \ {o.id}
    /\ identity' = IF IsLatestOperation(o)
                   THEN [address |-> a, authorized |-> TRUE, detected |-> TRUE, loading |-> FALSE]
                   ELSE identity
    /\ idOps' = idOps \ {o}
    /\ UNCHANGED <<latestOp, idChanges>>

\* A refusal or an error falls through to a full refresh.
FallThrough(o) == BeginOp("refresh", idOps \ {o})

ConnectDeclined ==
  /\ \E o \in idOps : o.kind = "connect" /\ FallThrough(o)
  /\ UNCHANGED <<extension, changedSince, idChanges>>

ExtensionChanges ==
  /\ idChanges < MaxIdChanges /\ idChanges' = idChanges + 1
  /\ extension.installed
  /\ \E a \in IdAccounts \union {NoId}, p \in BOOLEAN :
       /\ extension' = [extension EXCEPT !.account = a, !.permitted = p]
       /\ extension' # extension
  /\ changedSince' = 1..latestOp
  /\ UNCHANGED <<identity, idOps, latestOp>>

IdentityNext ==
  \/ RefreshIdentity \/ ConnectIdentity \/ ProbeAnswered \/ RefreshWrites \/ RefreshThrows
  \/ ConnectGranted \/ ConnectDeclined \/ ExtensionChanges

-----------------------------------------------------------------------------

\* The wallet state of a probe without errors and without a request pending.
DeriveWalletState(e) ==
  IF ~e.installed THEN "absent"
  ELSE IF e.permitted /\ e.account = NoId THEN "locked"
  ELSE IF ~e.permitted \/ e.account = NoId THEN "idle"
  ELSE IF ~e.rightNetwork THEN "wrong-network" ELSE "connected"

\* The primary action of each state.
DescribeWalletState(s) ==
  CASE s = "absent" -> "install" [] s = "locked" -> "unlock" [] s = "wrong-network" -> "switch-network"
    [] s = "connected" -> "none" [] OTHER -> "connect"

\* What the extension looks like once the user did as advised; an account
\* shows only while the extension is unlocked.
Followed(e) ==
  LET action == DescribeWalletState(DeriveWalletState(e))
  IN  CASE action = "install" -> [e EXCEPT !.installed = TRUE]
        [] action = "unlock" -> [e EXCEPT !.account = CHOOSE a \in IdAccounts : TRUE]
        [] action = "connect" -> [e EXCEPT !.permitted = TRUE]
        [] action = "switch-network" -> [e EXCEPT !.rightNetwork = TRUE]
        [] OTHER -> e

-----------------------------------------------------------------------------

IdentityTypeOK ==
  /\ identity.address \in IdAccounts \union {NoId} /\ identity.loading \in BOOLEAN
  /\ \A o \in idOps : o.kind \in {"refresh", "probed", "connect"} /\ o.id \in 1..MaxIdOps
  /\ latestOp \in 1..MaxIdOps

\* The store shows "loading" only while the operation begun last is awaited:
\* no interleaving of refreshes and declined requests leaves it loading.
LoadingMeansAwaited == identity.loading => \E o \in idOps : o.id = latestOp

\* Once the latest operation has written, the address is the extension's, as
\* long as the extension has not changed since that operation began: an older
\* operation that answers late never overwrites it.
ShownIdentityIsCurrent ==
  ~identity.loading /\ latestOp \notin changedSince /\ identity.authorized =>
    identity.address = extension.account /\ extension.permitted

\* Whatever state the extension is in, following the advised actions connects
\* the wallet in at most four steps.
AdviceConnects ==
  DeriveWalletState(Followed(Followed(Followed(Followed(extension))))) = "connected"

-----------------------------------------------------------------------------
(***************************************************************************)
(* AdminGate                                                               *)
(*                                                                         *)
(* The guard of the web client's /admin pages. The layout waits for the    *)
(* session to be read (useAuth) and then asks two sources: the session,    *)
(* and the wallet address kept by another store (useFreighterIdentity),    *)
(* which is read from the extension on its own and may come later. A       *)
(* caller who does not pass is sent to /access-denied by an effect that    *)
(* runs after the render.                                                  *)
(***************************************************************************)

CONSTANTS MaxGateMoves   \* bound: sessions, accounts and pages changed by the user

VARIABLES gateView,       \* what the client knows: session, address and page
          gateUser,   \* what is so: the stored session and the extension's account
          sentAway,   \* what was so when the caller was last sent away
          gateMoves   \* moves so far

gateVars == <<gateView, gateUser, sentAway, gateMoves>>

GateSessions == {"loading", "in", "out"}
GateAccounts == {"admin", "other"}
Unread == "unread"
NeverSent == [session |-> "out", account |-> "other", read |-> FALSE, current |-> FALSE]

-----------------------------------------------------------------------------
\* useIsAdmin: an address that has not been read is nobody's.
IsAdmin == gateView.address = "admin"

SessionRead == gateView.session # "loading"

\* The layout's effect.
Redirect ==
  /\ gateView.page = "admin"
  /\ SessionRead
  /\ gateView.session # "in" \/ ~IsAdmin
  /\ gateView' = [gateView EXCEPT !.page = "denied"]
  /\ sentAway' = [session |-> gateUser.session, account |-> gateUser.account,
                  read |-> gateView.address # Unread, current |-> gateView.address = gateUser.account]
  /\ UNCHANGED <<gateUser, gateMoves>>

\* refreshAuth ends.
SessionLoaded ==
  /\ gateView.session = "loading"
  /\ gateView' = [gateView EXCEPT !.session = gateUser.session]
  /\ UNCHANGED <<gateUser, sentAway, gateMoves>>

\* The identity store reads the extension, at start and whenever asked to.
IdentityRead ==
  /\ gateView.address # gateUser.account
  /\ gateView' = [gateView EXCEPT !.address = gateUser.account]
  /\ UNCHANGED <<gateUser, sentAway, gateMoves>>

\* The session ends or is begun, in the client and in the store.
Moves == gateMoves < MaxGateMoves /\ gateMoves' = gateMoves + 1

SessionChanges ==
  /\ Moves
  /\ gateView.session # "loading"
  /\ \E s \in {"in", "out"} : /\ gateView' = [gateView EXCEPT !.session = s]
                              /\ gateUser' = [gateUser EXCEPT !.session = s]
  /\ UNCHANGED sentAway

\* The user picks another account in the extension; nothing tells the client.
AccountChanges ==
  /\ Moves
  /\ \E a \in GateAccounts : gateUser' = [gateUser EXCEPT !.account = a]
  /\ UNCHANGED <<gateView, sentAway>>

\* The access-denied page; the user opens /admin again from it, or by a fresh
\* load of the client.
AccessDenied == gateView.page = "denied"

OpenAdmin(fresh) ==
  /\ Moves
  /\ AccessDenied
  /\ gateView' = IF fresh THEN [page |-> "admin", session |-> "loading", address |-> Unread]
             ELSE [gateView EXCEPT !.page = "admin"]
  /\ UNCHANGED <<gateUser, sentAway>>

-----------------------------------------------------------------------------
GateInit ==
  /\ gateView = [page |-> "admin", session |-> "loading", address |-> Unread]
  /\ gateUser = [session |-> "out", account |-> CHOOSE a \in GateAccounts : TRUE]
  /\ sentAway = NeverSent
  /\ gateMoves = 0

\* Whoever comes to the admin pages.
GateStart ==
  /\ gateUser' \in [session : {"in", "out"}, account : GateAccounts]
  /\ UNCHANGED <<gateView, sentAway, gateMoves>>

GateNext ==
  \/ Redirect \/ SessionLoaded \/ IdentityRead \/ SessionChanges \/ AccountChanges
  \/ \E fresh \in BOOLEAN : OpenAdmin(fresh)

GateTypeOK ==
  /\ gateView.page \in {"admin", "denied"}
  /\ gateView.session \in GateSessions
  /\ gateView.address \in GateAccounts \cup {Unread}
  /\ gateUser.account \in GateAccounts

\* An admin with a live session is sent to /access-denied only before the
\* address was read or after the account was changed behind the client's back.
AdminSentAwayEarly ==
  (sentAway.session = "in" /\ sentAway.account = "admin") => ~sentAway.read \/ ~sentAway.current

-----------------------------------------------------------------------------
\* The parts side by side: a behaviour follows one of them.

signInVars == <<sessVars, webVars, identityVars, gateVars>>

SignInInit ==
  /\ SessInit
  /\ WebInit
  /\ IdentityInit
  /\ GateInit

SignInNext ==
  \/ /\ \/ TurnTo("Sessions") /\ UNCHANGED sessVars
        \/ StaysWith("Sessions") /\ SessNext
     /\ UNCHANGED <<webVars, identityVars, gateVars>>
  \/ /\ \/ TurnTo("WebSession") /\ WebStart
        \/ StaysWith("WebSession") /\ WebNext
     /\ UNCHANGED <<sessVars, identityVars, gateVars>>
  \/ /\ \/ TurnTo("WalletIdentity") /\ IdentityStart
        \/ StaysWith("WalletIdentity") /\ IdentityNext
     /\ UNCHANGED <<sessVars, webVars, gateVars>>
  \/ /\ \/ TurnTo("AdminGate") /\ GateStart
        \/ StaysWith("AdminGate") /\ GateNext
     /\ UNCHANGED <<sessVars, webVars, identityVars>>

SignInTypeOK ==
  /\ subject = "Sessions" => SessTypeOK
  /\ subject = "WebSession" => WebTypeOK
  /\ subject = "WalletIdentity" => IdentityTypeOK
  /\ subject = "AdminGate" => GateTypeOK
=============================================================================
