------------------------------ MODULE Sessions ------------------------------
(***************************************************************************)
(* Signing in and out: the nonces, tokens and revocations of               *)
(* auth-service-go (services/nonce.go, services/revocation.go,             *)
(* services/jwt.go, handlers/auth_handler.go) and the gateway's check of   *)
(* every token (gateway-go middleware/auth.go, middleware/                 *)
(* token_blocklist.go, handlers/auth_proxy.go).                            *)
(*                                                                         *)
(* Redis is shared by all instances and any call of it can fail, applied   *)
(* or not.  Each auth instance has a map of its own to fall back on, each  *)
(* gateway a cache of its own.  An entry whose time has come is not found  *)
(* and is removed; a token's revocations lapse with the token.             *)
(***************************************************************************)
EXTENDS Integers, FiniteSets

CONSTANTS
    Nonces,      \* nonce ids
    Logins,      \* calls of POST /auth/verify, and the token each issues
    Requests,    \* requests that carry a token
    Gateways,    \* instances of the gateway
    Auths,       \* instances of the auth service
    Redis,       \* the shared store
    None         \* no nonce

ASSUME SessionsAssumption == Redis \notin Auths /\ None \notin Nonces

Stores == Auths \cup {Redis}

VARIABLES
    held,       \* the nonces in each store
    put,        \* the stores each nonce was ever written to (history)
    login,      \* where each sign-in is; from "issued" to "expired" its token is valid
    nonce,      \* the nonce it presents
    server,     \* the auth instance that handles it
    from,       \* the store its nonce was taken from (history)
    revoked,    \* the tokens revoked in each store
    cache,      \* each gateway's entries: until the token expires, or an hour
    pc,         \* where each request is
    kind, token, gate, auth,   \* what it is, its token and the instances that handle it
    late,       \* the logouts of its token answered when a request comes in (history)
    blind,      \* the Redis checks that failed, by request and service (history)
    landed,     \* logouts with a SET that Redis applied (history)
    recached    \* a check has replaced the gateway's own entry (history)

loginVars == <<held, put, login, nonce, server, from>>
requestVars == <<kind, token, gate, auth>>
histVars == <<late, blind, landed, recached>>
vars == <<loginVars, revoked, cache, pc, requestVars, histVars>>

(* The sign-in got a nonce. *)
Consumed(l) == login[l] \in {"consumed", "issued", "expired"}

TypeOK ==
    /\ held \in [Stores -> SUBSET Nonces] /\ put \in [Nonces -> SUBSET Stores]
    /\ login \in [Logins -> {"idle", "fallback", "consumed", "refused", "issued", "expired"}]
    /\ nonce \in [Logins -> Nonces \cup {None}] /\ server \in [Logins -> Auths]
    /\ from \in [Logins -> Stores]
    /\ revoked \in [Stores -> SUBSET Logins]
    /\ cache \in [Gateways -> [Logins -> {"no", "full", "hour"}]]
    /\ pc \in [Requests -> {"idle", "redis", "session", "logout", "set", "proxied",
                            "refused", "served"}]
    /\ kind \in [Requests -> {"api", "session", "logout"}]
    /\ token \in [Requests -> Logins] /\ gate \in [Requests -> Gateways]
    /\ auth \in [Requests -> Auths]
    /\ late \in [Requests -> SUBSET Requests]
    /\ blind \subseteq Requests \X {"gateway", "auth"}
    /\ landed \subseteq Requests /\ recached \subseteq Gateways \X Logins
    /\ \A l \in Logins : Consumed(l) => nonce[l] \in Nonces

Init ==
    /\ held = [s \in Stores |-> {}] /\ put = [n \in Nonces |-> {}]
    /\ login = [l \in Logins |-> "idle"] /\ nonce = [l \in Logins |-> None]
    /\ server \in [Logins -> Auths] /\ from = [l \in Logins |-> Redis]
    /\ revoked = [s \in Stores |-> {}]
    /\ cache = [g \in Gateways |-> [l \in Logins |-> "no"]]
    /\ pc = [r \in Requests |-> "idle"]
    /\ kind \in [Requests -> {"api", "session", "logout"}]
    /\ token \in [Requests -> Logins]
    /\ gate \in [Requests -> Gateways] /\ auth \in [Requests -> Auths]
    /\ late = [r \in Requests |-> {}] /\ blind = {} /\ landed = {} /\ recached = {}

-----------------------------------------------------------------------------
(* Nonces and sign-in, in the auth service *)

(* Generate: Redis, or the instance's map if Redis answers with an error,
   whether or not it has applied the SET. *)
Generate(n, a) ==
    /\ put[n] = {}
    /\ \E at \in {{Redis}, {a}, {Redis, a}} :
           /\ put' = [put EXCEPT ![n] = at]
           /\ held' = [s \in Stores |-> IF s \in at THEN held[s] \cup {n} ELSE held[s]]
    /\ UNCHANGED <<login, nonce, server, from, revoked, cache, pc, requestVars, histVars>>

(* The TTL of a copy; cleanupLoop. *)
NonceLapses(s, n) ==
    /\ n \in held[s]
    /\ held' = [held EXCEPT ![s] = @ \ {n}]
    /\ UNCHANGED <<put, login, nonce, server, from, revoked, cache, pc, requestVars, histVars>>

Take(l, n, s) ==
    /\ login' = [login EXCEPT ![l] = "consumed"]
    /\ from' = [from EXCEPT ![l] = s]
    /\ held' = [held EXCEPT ![s] = @ \ {n}]

(* Slip: the nonce is read by GET and deleted by a DEL that is not waited for. *)
ConsumeGet(l, n) ==
    /\ login[l] = "idle" /\ put[n] # {}
    /\ nonce' = [nonce EXCEPT ![l] = n]
    /\ n \in held[Redis]
    /\ login' = [login EXCEPT ![l] = "consumed"] /\ from' = [from EXCEPT ![l] = Redis]
    /\ UNCHANGED <<held, put, server, revoked, cache, pc, requestVars, histVars>>

(* Consume: GETDEL hits; or it does not, or its answer is lost, whether or not
   the nonce is deleted, and the instance's map is next. *)
Consume(l, n) ==
    /\ login[l] = "idle" /\ put[n] # {}
    /\ nonce' = [nonce EXCEPT ![l] = n]
    /\ \/ n \in held[Redis] /\ Take(l, n, Redis)
       \/ /\ login' = [login EXCEPT ![l] = "fallback"]
          /\ held' \in {held, [held EXCEPT ![Redis] = @ \ {n}]}
          /\ from' = from
    /\ UNCHANGED <<put, server, revoked, cache, pc, requestVars, histVars>>

FallbackConsume(l) ==
    /\ login[l] = "fallback"
    /\ \/ nonce[l] \in held[server[l]] /\ Take(l, nonce[l], server[l])
       \/ /\ nonce[l] \notin held[server[l]]
          /\ login' = [login EXCEPT ![l] = "refused"]
          /\ UNCHANGED <<held, from>>
    /\ UNCHANGED <<put, nonce, server, revoked, cache, pc, requestVars, histVars>>

(* The rest of HandleVerify: the message and signature are checked and the
   account is found, or the call fails, the nonce being gone either way. *)
Verify(l) ==
    /\ login[l] = "consumed"
    /\ \E to \in {"issued", "refused"} : login' = [login EXCEPT ![l] = to]
    /\ UNCHANGED <<held, put, nonce, server, from, revoked, cache, pc, requestVars, histVars>>

Valid(l) == login[l] = "issued"

(* A token expires, and with it every record of its revocation. *)
Expire(l) ==
    /\ Valid(l)
    /\ login' = [login EXCEPT ![l] = "expired"]
    /\ revoked' = [s \in Stores |-> revoked[s] \ {l}]
    /\ cache' = [g \in Gateways |-> [cache[g] EXCEPT ![l] = "no"]]
    /\ UNCHANGED <<held, put, nonce, server, from, pc, requestVars, histVars>>

-----------------------------------------------------------------------------
(* The gateway's check of a request *)

Logouts(l) == {r \in Requests : pc[r] = "served" /\ kind[r] = "logout" /\ token[r] = l}

Go(r, at, to) == pc[r] = at /\ pc' = [pc EXCEPT ![r] = to]

(* JWTAuth up to the cache: an expired or a cached token is refused. *)
Arrive(r) ==
    /\ login[token[r]] \in {"issued", "expired"}
    /\ Go(r, "idle", IF Valid(token[r]) /\ cache[gate[r]][token[r]] = "no" THEN "redis" ELSE "refused")
    /\ late' = [late EXCEPT ![r] = Logouts(token[r])]
    /\ UNCHANGED <<loginVars, revoked, cache, requestVars, blind, landed, recached>>

(* What JWTAuth lets through goes on to its handler. *)
Pass(r) == CASE kind[r] = "api" -> "served" [] kind[r] = "session" -> "session" [] OTHER -> "logout"

(* Slip: a gateway trusts its own cache. *)
CheckNothing(r) ==
    /\ Go(r, "redis", Pass(r))
    /\ UNCHANGED <<loginVars, revoked, cache, requestVars, histVars>>

(* IsRevoked after a cache miss: Redis fails and the check is open; the token
   is there, and is cached for an hour; or it is not there. *)
Check(r) ==
    /\ \/ /\ Go(r, "redis", Pass(r))
          /\ blind' = blind \cup {<<r, "gateway">>}
          /\ UNCHANGED <<cache, recached>>
       \/ /\ token[r] \in revoked[Redis]
          /\ Go(r, "redis", "refused")
          /\ cache' = [cache EXCEPT ![gate[r]][token[r]] = "hour"]
          /\ recached' = IF cache[gate[r]][token[r]] = "full"
                         THEN recached \cup {<<gate[r], token[r]>>} ELSE recached
          /\ blind' = blind
       \/ /\ token[r] \notin revoked[Redis]
          /\ Go(r, "redis", Pass(r))
          /\ UNCHANGED <<cache, recached, blind>>
    /\ UNCHANGED <<loginVars, revoked, requestVars, late, landed>>

(* The hour of a cached hit is over; cleanupLoop. *)
CacheLapses(g, l) ==
    /\ cache[g][l] = "hour"
    /\ cache' = [cache EXCEPT ![g][l] = "no"]
    /\ UNCHANGED <<loginVars, revoked, pc, requestVars, histVars>>

-----------------------------------------------------------------------------
(* Session and logout *)

(* HandleSession: Redis says, or if it fails the instance's map. *)
Session(r) ==
    /\ \/ /\ Go(r, "session", IF Valid(token[r]) /\ token[r] \notin revoked[Redis]
                              THEN "served" ELSE "refused")
          /\ blind' = blind
       \/ /\ Go(r, "session", IF Valid(token[r]) /\ token[r] \notin revoked[auth[r]]
                              THEN "served" ELSE "refused")
          /\ blind' = blind \cup {<<r, "auth">>}
    /\ UNCHANGED <<loginVars, revoked, cache, requestVars, late, landed, recached>>

(* Slip: the entry is kept for an hour only. *)
LogoutHour(r) ==
    /\ Go(r, "logout", "set")
    /\ cache' = IF Valid(token[r]) THEN [cache EXCEPT ![gate[r]][token[r]] = "hour"] ELSE cache
    /\ UNCHANGED <<loginVars, revoked, requestVars, histVars>>

(* PostLogout, revokeToken: the gateway's cache first ... *)
Logout(r) ==
    /\ Go(r, "logout", "set")
    /\ cache' = IF Valid(token[r]) THEN [cache EXCEPT ![gate[r]][token[r]] = "full"] ELSE cache
    /\ UNCHANGED <<loginVars, revoked, requestVars, histVars>>

(* The revocation is written to these stores. *)
Revoke(r, in) ==
    /\ Valid(token[r])
    /\ revoked' = [s \in Stores |-> IF s \in in THEN revoked[s] \cup {token[r]} ELSE revoked[s]]
    /\ landed' = IF Redis \in in THEN landed \cup {r} ELSE landed

(* ... then Redis, an error only being logged ... *)
LogoutSet(r) ==
    /\ Go(r, "set", "proxied")
    /\ Revoke(r, {Redis}) \/ UNCHANGED <<revoked, landed>>
    /\ UNCHANGED <<loginVars, cache, requestVars, late, blind, recached>>

(* Slip: the auth service drops a revocation that Redis did not take. *)
LogoutProxiedDropped(r) ==
    /\ Go(r, "proxied", "served")
    /\ Revoke(r, {Redis}) \/ UNCHANGED <<revoked, landed>>
    /\ UNCHANGED <<loginVars, cache, requestVars, late, blind, recached>>

(* ... then the auth service's HandleLogout: Redis or, on an error, whether or
   not the SET was applied, the instance's map.  Logout is answered. *)
LogoutProxied(r) ==
    /\ Go(r, "proxied", "served")
    /\ \/ \E in \in {{Redis}, {auth[r]}, {Redis, auth[r]}} : Revoke(r, in)
       \/ ~Valid(token[r]) /\ UNCHANGED <<revoked, landed>>
    /\ UNCHANGED <<loginVars, cache, requestVars, late, blind, recached>>

Next ==
    \/ \E n \in Nonces, a \in Auths : Generate(n, a)
    \/ \E s \in Stores, n \in Nonces : NonceLapses(s, n)
    \/ \E l \in Logins, n \in Nonces : Consume(l, n)
    \/ \E l \in Logins : FallbackConsume(l) \/ Verify(l) \/ Expire(l)
    \/ \E g \in Gateways, l \in Logins : CacheLapses(g, l)
    \/ \E r \in Requests :
           Arrive(r) \/ Check(r) \/ Session(r) \/ Logout(r) \/ LogoutSet(r) \/ LogoutProxied(r)

Spec == Init /\ [][Next]_vars

-----------------------------------------------------------------------------
(* Properties *)

(* A nonce signs in once ("two concurrent /auth/verify calls can never both
   read the same nonce"), except that a nonce whose SET was applied and
   answered with an error has a copy in Redis and one in the instance's map,
   and can be used once from each. *)
OneSignInPerCopy ==
    \A l, m \in Logins :
        Consumed(l) /\ Consumed(m) /\ nonce[l] = nonce[m] /\ l # m =>
            from[l] # from[m] /\ put[nonce[l]] = {from[l], from[m]} /\ Redis \in put[nonce[l]]

(* r was accepted though the logout m of its token was answered before it came in. *)
ServedAfter(r, m) == m \in late[r] /\ pc[r] = "served" /\ Valid(token[r])

(* Once a logout has been answered no gateway accepts the token, unless its
   own Redis check failed or no SET of the logout ever reached Redis. *)
LogoutHolds ==
    \A r, m \in Requests :
        ServedAfter(r, m) /\ m \in landed => <<r, "gateway">> \in blind

(* The gateway that handled a logout does not accept the token even if Redis
   fails ("the cache still protects this gateway instance"), unless a check
   that had missed the cache before the logout put the hour of a Redis hit in
   the place of the entry. *)
GatewayRemembers ==
    \A r, m \in Requests :
        ServedAfter(r, m) /\ gate[r] = gate[m] => <<gate[r], token[r]>> \in recached

(* The auth service confirms the session of a logged-out token only if, with
   the revocation in Redis, its own check of Redis failed too; and, with the
   revocation in the map of the instance that handled the logout, only if
   that instance got an answer of Redis and never looked in its map. *)
SessionHonoursLogout ==
    \A r, m \in Requests :
        ServedAfter(r, m) /\ kind[r] = "session" =>
            IF m \in landed
            THEN {<<r, "gateway">>, <<r, "auth">>} \subseteq blind
            ELSE auth[r] = auth[m] => <<r, "auth">> \notin blind
=============================================================================
