--------------------------- MODULE SessionsProofs ---------------------------
(***************************************************************************)
(* Proofs about Sessions, for any number of instances, nonces, sign-ins    *)
(* and requests.                                                           *)
(*                                                                         *)
(* NonceInv: a copy of a nonce that a sign-in has taken is not in its      *)
(* store any more, so that no other sign-in takes it from there.           *)
(* RevocationInv: what an answered logout has left behind, in Redis, in    *)
(* the auth instance's map or in the gateway's cache, is there until the   *)
(* token expires, and a request that came in later has met it.             *)
(***************************************************************************)
EXTENDS Sessions, TLAPS

(* Where the copies of the nonces are, and which are gone. *)
NonceInv ==
    /\ \A n \in Nonces : put[n] = {} \/ \E a \in Auths : put[n] \in {{Redis}, {a}, {Redis, a}}
    /\ \A s \in Stores, n \in Nonces : n \in held[s] => s \in put[n]
    /\ \A l \in Logins : Consumed(l) => from[l] \in put[nonce[l]] /\ nonce[l] \notin held[from[l]]
    /\ \A l, m \in Logins : Consumed(l) /\ Consumed(m) /\ nonce[l] = nonce[m] /\ l # m
                                => from[l] # from[m]

Known(l) == login[l] \in {"issued", "expired"}

(* The stages of a request, its kind and its token. *)
StageInv ==
    /\ \A r \in Requests : pc[r] # "idle" => Known(token[r])
    /\ \A r \in Requests : pc[r] = "session" => kind[r] = "session"
    /\ \A r \in Requests : pc[r] \in {"logout", "set", "proxied"} => kind[r] = "logout"
    /\ \A r \in landed : kind[r] = "logout" /\ pc[r] \in {"proxied", "served"}
    /\ \A r \in Requests : <<r, "auth">> \in blind => pc[r] \in {"served", "refused"}
    /\ \A r \in Requests : pc[r] = "idle" => late[r] = {}
    /\ \A r \in Requests : \A m \in late[r] :
           pc[m] = "served" /\ kind[m] = "logout" /\ token[m] = token[r]

(* What a logout leaves behind. *)
RecordInv ==
    /\ \A m \in landed : Valid(token[m]) => token[m] \in revoked[Redis]
    /\ \A m \in Requests \ landed :
           pc[m] = "served" /\ kind[m] = "logout" /\ Valid(token[m]) => token[m] \in revoked[auth[m]]
    /\ \A m \in Requests :
           kind[m] = "logout" /\ pc[m] \in {"set", "proxied", "served"} /\ Valid(token[m]) =>
               cache[gate[m]][token[m]] = "full" \/ <<gate[m], token[m]>> \in recached

Accepted(r) == pc[r] \in {"session", "logout", "set", "proxied", "served"}

(* What a later request has met. *)
MetInv ==
    \A r \in Requests : \A m \in late[r] : Valid(token[r]) =>
        /\ m \in landed /\ Accepted(r) => <<r, "gateway">> \in blind
        /\ gate[r] = gate[m] /\ (pc[r] = "redis" \/ Accepted(r)) => <<gate[r], token[r]>> \in recached
        /\ kind[r] = "session" /\ pc[r] = "served" =>
               IF m \in landed THEN <<r, "auth">> \in blind
               ELSE auth[r] = auth[m] => <<r, "auth">> \notin blind

RevocationInv == StageInv /\ RecordInv /\ MetInv

-----------------------------------------------------------------------------
(* The types *)

LEMMA InitTypes == Init => TypeOK
BY SessionsAssumption DEF Init, TypeOK, Stores, Consumed

LEMMA NextTypes == TypeOK /\ [Next]_vars => TypeOK'
<1> SUFFICES ASSUME TypeOK, [Next]_vars PROVE TypeOK'
    OBVIOUS
<1> USE SessionsAssumption DEF TypeOK, Stores, Consumed, loginVars, requestVars, histVars
<1>1. ASSUME NEW n \in Nonces, NEW a \in Auths, Generate(n, a) PROVE TypeOK'
      BY <1>1 DEF Generate
<1>2. ASSUME NEW s \in Stores, NEW n \in Nonces, NonceLapses(s, n) PROVE TypeOK'
      BY <1>2 DEF NonceLapses
<1>3. ASSUME NEW l \in Logins, NEW n \in Nonces, Consume(l, n) PROVE TypeOK'
  <2>1. held' \in [Stores -> SUBSET Nonces]
    BY <1>3 DEF Consume, Take
  <2>2. from' \in [Logins -> Stores] /\ nonce' \in [Logins -> Nonces \cup {None}]
    BY <1>3 DEF Consume, Take
  <2>3. \E to \in {"fallback", "consumed"} : login' = [login EXCEPT ![l] = to]
    BY <1>3 DEF Consume, Take
  <2>4. nonce' = [nonce EXCEPT ![l] = n]
    BY <1>3 DEF Consume
  <2> QED BY <2>1, <2>2, <2>3, <2>4, <1>3 DEF Consume
<1>4. ASSUME NEW l \in Logins, FallbackConsume(l) PROVE TypeOK'
  <2>1. held' \in [Stores -> SUBSET Nonces] /\ from' \in [Logins -> Stores]
    <3>1. \/ UNCHANGED <<held, from>>
          \/ /\ held' = [held EXCEPT ![server[l]] = @ \ {nonce[l]}]
             /\ from' = [from EXCEPT ![l] = server[l]]
      BY <1>4 DEF FallbackConsume, Take
    <3>2. server[l] \in Stores
      OBVIOUS
    <3>3. [held EXCEPT ![server[l]] = @ \ {nonce[l]}] \in [Stores -> SUBSET Nonces]
      BY <3>2
    <3>4. [from EXCEPT ![l] = server[l]] \in [Logins -> Stores]
      BY <3>2
    <3>5. CASE UNCHANGED <<held, from>>
      BY <3>5
    <3>6. CASE /\ held' = [held EXCEPT ![server[l]] = @ \ {nonce[l]}]
               /\ from' = [from EXCEPT ![l] = server[l]]
      BY <3>3, <3>4, <3>6, Zenon
    <3> QED BY <3>1, <3>5, <3>6
  <2>2. \/ login' = [login EXCEPT ![l] = "consumed"] /\ nonce[l] \in held[server[l]]
        \/ login' = [login EXCEPT ![l] = "refused"]
    BY <1>4 DEF FallbackConsume, Take
  <2>3. nonce[l] \in held[server[l]] => nonce[l] \in Nonces
    OBVIOUS
  <2>4. \A m \in Logins : Consumed(m)' => nonce[m] \in Nonces
    BY <2>2, <2>3
  <2>5. login' \in [Logins -> {"idle", "fallback", "consumed", "refused", "issued", "expired"}]
    BY <2>2
  <2> QED BY <2>1, <2>4, <2>5, <1>4 DEF FallbackConsume
<1>5. ASSUME NEW l \in Logins, Verify(l) PROVE TypeOK'
      BY <1>5 DEF Verify
<1>6. ASSUME NEW l \in Logins, Expire(l) PROVE TypeOK'
      BY <1>6 DEF Expire, Valid
<1>7. ASSUME NEW g \in Gateways, NEW l \in Logins, CacheLapses(g, l) PROVE TypeOK'
      BY <1>7 DEF CacheLapses
<1>8. ASSUME NEW r \in Requests, Arrive(r) PROVE TypeOK'
      BY <1>8 DEF Arrive, Go, Logouts
<1>9. ASSUME NEW r \in Requests, Check(r) PROVE TypeOK'
  <2>1. pc' \in [Requests -> {"idle", "redis", "session", "logout", "set", "proxied",
                              "refused", "served"}]
    BY <1>9 DEF Check, Go, Pass
  <2>2. blind' \subseteq Requests \X {"gateway", "auth"} /\ recached' \subseteq Gateways \X Logins
    BY <1>9 DEF Check
  <2>3. cache' \in [Gateways -> [Logins -> {"no", "full", "hour"}]]
    <3>1. cache' = cache \/ cache' = [cache EXCEPT ![gate[r]][token[r]] = "hour"]
      BY <1>9 DEF Check
    <3>2. gate[r] \in Gateways /\ token[r] \in Logins
      OBVIOUS
    <3>3. [cache EXCEPT ![gate[r]][token[r]] = "hour"] \in [Gateways -> [Logins -> {"no", "full", "hour"}]]
      BY <3>2
    <3> QED BY <3>1, <3>3
  <2> QED BY <2>1, <2>2, <2>3, <1>9 DEF Check
<1>10. ASSUME NEW r \in Requests, Session(r) PROVE TypeOK'
  <2>1. pc' \in [Requests -> {"idle", "redis", "session", "logout", "set", "proxied",
                              "refused", "served"}]
    BY <1>10 DEF Session, Go
  <2>2. blind' \subseteq Requests \X {"gateway", "auth"}
    BY <1>10 DEF Session
  <2> QED BY <2>1, <2>2, <1>10 DEF Session
<1>11. ASSUME NEW r \in Requests, Logout(r) PROVE TypeOK'
      BY <1>11 DEF Logout, Go
<1>12. ASSUME NEW r \in Requests, LogoutSet(r) PROVE TypeOK'
      BY <1>12 DEF LogoutSet, Go, Revoke
<1>13. ASSUME NEW r \in Requests, LogoutProxied(r) PROVE TypeOK'
      BY <1>13 DEF LogoutProxied, Go, Revoke
<1>14. CASE UNCHANGED vars
      BY <1>14 DEF vars
<1> QED
  BY <1>1, <1>2, <1>3, <1>4, <1>5, <1>6, <1>7, <1>8, <1>9, <1>10, <1>11, <1>12, <1>13, <1>14
  DEF Next

-----------------------------------------------------------------------------
(* The nonces *)

LEMMA InitNonces == Init => NonceInv
BY DEF Init, NonceInv, Consumed, Stores

(* Taking a nonce that is in a store keeps the invariant. *)
LEMMA TakeNonces ==
    ASSUME TypeOK, NonceInv, NEW l \in Logins, NEW n \in Nonces, NEW s \in Stores,
           n \in held[s], ~Consumed(l), Take(l, n, s), put' = put,
           nonce' = [nonce EXCEPT ![l] = n]
    PROVE  NonceInv'
<1> USE DEF TypeOK, Consumed, Take
<1>1. \A m \in Logins : m # l => /\ login'[m] = login[m] /\ from'[m] = from[m]
                                 /\ nonce'[m] = nonce[m]
      OBVIOUS
<1>2. from'[l] = s /\ nonce'[l] = n /\ held'[s] = held[s] \ {n}
      OBVIOUS
<1>3. \A t \in Stores : held'[t] \subseteq held[t]
      OBVIOUS
<1>4. \A m \in Logins : m # l /\ Consumed(m) /\ nonce[m] = n => from[m] # s
      BY DEF NonceInv
<1>5. \A m \in Logins : Consumed(m)' => from'[m] \in put'[nonce'[m]] /\ nonce'[m] \notin held'[from'[m]]
      BY <1>1, <1>2, <1>3 DEF NonceInv
<1>6. \A k, m \in Logins : Consumed(k)' /\ Consumed(m)' /\ nonce'[k] = nonce'[m] /\ k # m
                               => from'[k] # from'[m]
      BY <1>1, <1>2, <1>4 DEF NonceInv
<1>7. \A t \in Stores, k \in Nonces : k \in held'[t] => t \in put'[k]
      BY <1>3 DEF NonceInv
<1> QED BY <1>5, <1>6, <1>7 DEF NonceInv

LEMMA NextNonces == TypeOK /\ NonceInv /\ [Next]_vars => NonceInv'
<1> SUFFICES ASSUME TypeOK, NonceInv, [Next]_vars PROVE NonceInv'
    OBVIOUS
<1>1. ASSUME NEW n \in Nonces, NEW a \in Auths, Generate(n, a) PROVE NonceInv'
  <2>1. PICK at \in {{Redis}, {a}, {Redis, a}} :
            /\ put' = [put EXCEPT ![n] = at]
            /\ held' = [s \in Stores |-> IF s \in at THEN held[s] \cup {n} ELSE held[s]]
    BY <1>1 DEF Generate
  <2>2. put[n] = {} /\ UNCHANGED <<login, nonce, from>>
    BY <1>1 DEF Generate
  <2>3. \A l \in Logins : Consumed(l) => nonce[l] \in Nonces /\ nonce[l] # n
    BY <2>2 DEF NonceInv, TypeOK
  <2>4. \A k \in Nonces : put'[k] = {} \/ \E b \in Auths : put'[k] \in {{Redis}, {b}, {Redis, b}}
    BY <2>1 DEF NonceInv, TypeOK
  <2>5. \A s \in Stores, k \in Nonces : k \in held'[s] => s \in put'[k]
    <3> SUFFICES ASSUME NEW s \in Stores, NEW k \in Nonces, k \in held'[s] PROVE s \in put'[k]
      OBVIOUS
    <3>1. CASE k = n /\ s \in at
      BY <3>1, <2>1 DEF TypeOK
    <3>2. CASE k \in held[s]
      <4>1. s \in put[k] /\ k # n
        BY <3>2, <2>2 DEF NonceInv
      <4> QED BY <4>1, <2>1 DEF TypeOK
    <3> QED BY <2>1, <3>1, <3>2
  <2>6. \A l \in Logins : Consumed(l) => from[l] \in put'[nonce[l]] /\ nonce[l] \notin held'[from[l]]
    BY <2>1, <2>3 DEF NonceInv, TypeOK
  <2> QED BY <2>2, <2>4, <2>5, <2>6 DEF NonceInv, Consumed
<1>2. ASSUME NEW s \in Stores, NEW n \in Nonces, NonceLapses(s, n) PROVE NonceInv'
  BY <1>2 DEF NonceLapses, NonceInv, TypeOK, Consumed
<1>3. ASSUME NEW l \in Logins, NEW n \in Nonces, Consume(l, n) PROVE NonceInv'
  <2>1. CASE n \in held[Redis] /\ Take(l, n, Redis)
    <3>1. ~Consumed(l) /\ put' = put /\ nonce' = [nonce EXCEPT ![l] = n] /\ Redis \in Stores
      BY <1>3 DEF Consume, Consumed, Stores
    <3> QED BY <2>1, <3>1, TakeNonces
  <2>2. CASE /\ login' = [login EXCEPT ![l] = "fallback"]
             /\ held' \in {held, [held EXCEPT ![Redis] = @ \ {n}]}
             /\ from' = from
    <3>1. \A s \in Stores : held'[s] \subseteq held[s]
      BY <2>2 DEF TypeOK
    <3>2. \A m \in Logins : Consumed(m)' => Consumed(m) /\ nonce'[m] = nonce[m]
      BY <1>3, <2>2 DEF Consume, Consumed, TypeOK
    <3>3. put' = put
      BY <1>3 DEF Consume
    <3>4. \A m \in Logins : from[m] \in Stores
      BY DEF TypeOK
    <3> QED BY <2>2, <3>1, <3>2, <3>3, <3>4 DEF NonceInv
  <2> QED BY <1>3, <2>1, <2>2 DEF Consume
<1>4. ASSUME NEW l \in Logins, FallbackConsume(l) PROVE NonceInv'
  <2>1. CASE nonce[l] \in held[server[l]]
    <3>1. server[l] \in Stores /\ nonce[l] \in Nonces /\ ~Consumed(l)
      BY <1>4, <2>1 DEF TypeOK, Stores, FallbackConsume, Consumed
    <3>2. Take(l, nonce[l], server[l]) /\ put' = put /\ nonce' = [nonce EXCEPT ![l] = nonce[l]]
      BY <1>4, <2>1 DEF FallbackConsume, TypeOK
    <3> QED BY <2>1, <3>1, <3>2, TakeNonces
  <2>2. CASE nonce[l] \notin held[server[l]]
    <3>1. UNCHANGED <<held, from, put, nonce>> /\ login' = [login EXCEPT ![l] = "refused"]
      BY <1>4, <2>2 DEF FallbackConsume
    <3>2. \A m \in Logins : Consumed(m)' => Consumed(m)
      BY <3>1 DEF TypeOK, Consumed
    <3> QED BY <3>1, <3>2 DEF NonceInv
  <2> QED BY <2>1, <2>2
<1>5. ASSUME NEW l \in Logins, Verify(l) PROVE NonceInv'
  <2>1. UNCHANGED <<held, put, nonce, from>> /\ \A m \in Logins : Consumed(m)' => Consumed(m)
    BY <1>5 DEF Verify, TypeOK, Consumed
  <2> QED BY <2>1 DEF NonceInv, TypeOK
<1>6. ASSUME NEW l \in Logins, Expire(l) PROVE NonceInv'
  <2>1. UNCHANGED <<held, put, nonce, from>> /\ \A m \in Logins : Consumed(m)' => Consumed(m)
    BY <1>6 DEF Expire, Valid, TypeOK, Consumed
  <2> QED BY <2>1 DEF NonceInv, TypeOK
<1>7. CASE UNCHANGED loginVars
  BY <1>7 DEF loginVars, NonceInv, Consumed
<1>8. \/ UNCHANGED loginVars
      \/ \E n \in Nonces, a \in Auths : Generate(n, a)
      \/ \E s \in Stores, n \in Nonces : NonceLapses(s, n)
      \/ \E l \in Logins, n \in Nonces : Consume(l, n)
      \/ \E l \in Logins : FallbackConsume(l) \/ Verify(l) \/ Expire(l)
  BY DEF Next, vars, CacheLapses, Arrive, Check, Session, Logout, LogoutSet, LogoutProxied
<1> QED BY <1>1, <1>2, <1>3, <1>4, <1>5, <1>6, <1>7, <1>8

(* Two copies of a nonce are in Redis and in one instance's map. *)
LEMMA NonceInvImplies == TypeOK /\ NonceInv => OneSignInPerCopy
<1> SUFFICES ASSUME TypeOK, NonceInv, NEW l \in Logins, NEW m \in Logins,
                    Consumed(l), Consumed(m), nonce[l] = nonce[m], l # m
             PROVE  from[l] # from[m] /\ put[nonce[l]] = {from[l], from[m]} /\ Redis \in put[nonce[l]]
    BY DEF OneSignInPerCopy
<1>1. from[l] # from[m] /\ from[l] \in put[nonce[l]] /\ from[m] \in put[nonce[l]]
  BY DEF NonceInv
<1>2. nonce[l] \in Nonces
  BY DEF TypeOK
<1>3. PICK a \in Auths : put[nonce[l]] \in {{Redis}, {a}, {Redis, a}}
  BY <1>1, <1>2 DEF NonceInv
<1> QED BY <1>1, <1>3

-----------------------------------------------------------------------------
(* The revocations *)

LEMMA InitRevocations == Init => RevocationInv
BY DEF Init, RevocationInv, StageInv, RecordInv, MetInv, Accepted

(* A step of a sign-in touches no token that a request has brought. *)
LEMMA LoginSteps ==
    ASSUME TypeOK, RevocationInv, UNCHANGED <<revoked, cache, pc, requestVars, histVars>>,
           \A l \in Logins : Known(l) => login'[l] = login[l]
    PROVE  RevocationInv'
<1> USE DEF requestVars, histVars
<1>1. \A r \in Requests : token[r] \in Logins
  BY DEF TypeOK
<1>2. \A r \in Requests : pc[r] # "idle" => login'[token[r]] = login[token[r]]
  BY <1>1 DEF RevocationInv, StageInv
<1>3. StageInv'
  BY <1>2 DEF RevocationInv, StageInv, Known
<1>4. \A r \in Requests : r \in landed \/ late[r] # {} => pc[r] # "idle"
  BY DEF RevocationInv, StageInv
<1>5. RecordInv'
  BY <1>2, <1>4 DEF RevocationInv, RecordInv, Valid, TypeOK
<1>6. MetInv'
  <2> SUFFICES ASSUME NEW r \in Requests, NEW m \in late[r]
               PROVE  /\ late' = late /\ pc' = pc /\ token' = token /\ blind' = blind
                      /\ landed' = landed /\ recached' = recached /\ kind' = kind
                      /\ gate' = gate /\ auth' = auth /\ Valid(token[r])' => Valid(token[r])
      BY DEF RevocationInv, MetInv, Accepted
  <2> QED BY <1>2, <1>4 DEF Valid
<1> QED BY <1>3, <1>5, <1>6 DEF RevocationInv

LEMMA ExpireStep ==
    ASSUME TypeOK, RevocationInv, NEW l \in Logins, Expire(l)
    PROVE  RevocationInv'
<1> USE DEF requestVars, histVars
<1>1. UNCHANGED <<pc, requestVars, histVars>>
  BY DEF Expire
<1>2. \A m \in Logins : /\ Known(m) => Known(m)'
                        /\ Valid(m)' => Valid(m) /\ m # l
  BY DEF Expire, Known, Valid, TypeOK
<1>3. \A s \in Stores, m \in Logins : m # l /\ m \in revoked[s] => m \in revoked'[s]
  BY DEF Expire
<1>4. \A g \in Gateways, m \in Logins : m # l => cache'[g][m] = cache[g][m]
  BY DEF Expire, TypeOK
<1>5. \A r \in Requests : /\ token[r] \in Logins /\ gate[r] \in Gateways /\ auth[r] \in Stores
                          /\ Redis \in Stores
  BY DEF TypeOK, Stores
<1>6. StageInv'
  BY <1>1, <1>2, <1>5 DEF RevocationInv, StageInv
<1>7. RecordInv'
  <2>1. \A m \in Requests : Valid(token[m])' => Valid(token[m]) /\ token[m] # l
    BY <1>1, <1>2, <1>5 DEF Valid
  <2>2. \A m \in landed : m \in Requests
    BY DEF TypeOK
  <2>3. \A m \in landed : Valid(token[m])' => token[m] \in revoked'[Redis]
    BY <2>1, <2>2, <1>3, <1>5 DEF RevocationInv, RecordInv
  <2>4. \A m \in Requests \ landed :
            pc[m] = "served" /\ kind[m] = "logout" /\ Valid(token[m])' => token[m] \in revoked'[auth[m]]
    BY <2>1, <1>3, <1>5 DEF RevocationInv, RecordInv
  <2>5. \A m \in Requests :
            kind[m] = "logout" /\ pc[m] \in {"set", "proxied", "served"} /\ Valid(token[m])' =>
                cache'[gate[m]][token[m]] = "full" \/ <<gate[m], token[m]>> \in recached
    BY <2>1, <1>4, <1>5 DEF RevocationInv, RecordInv
  <2> QED BY <1>1, <2>3, <2>4, <2>5 DEF RecordInv
<1>8. MetInv'
  BY <1>1, <1>2, <1>5 DEF RevocationInv, MetInv, Accepted, Valid
<1> QED BY <1>6, <1>7, <1>8 DEF RevocationInv

LEMMA CacheLapsesStep ==
    ASSUME TypeOK, RevocationInv, NEW g \in Gateways, NEW l \in Logins, CacheLapses(g, l)
    PROVE  RevocationInv'
<1> USE DEF requestVars, histVars, loginVars
<1>1. UNCHANGED <<login, revoked, pc, requestVars, histVars>> /\ cache[g][l] = "hour"
  BY DEF CacheLapses
<1>2. \A h \in Gateways, m \in Logins : cache[h][m] = "full" => cache'[h][m] = "full"
  BY DEF CacheLapses, TypeOK
<1>3. \A r \in Requests : token[r] \in Logins /\ gate[r] \in Gateways
  BY DEF TypeOK
<1>4. StageInv' /\ MetInv'
  BY <1>1 DEF RevocationInv, StageInv, MetInv, Known, Valid, Accepted
<1>5. RecordInv'
  BY <1>1, <1>2, <1>3 DEF RevocationInv, RecordInv, Valid
<1> QED BY <1>4, <1>5 DEF RevocationInv

(* A request that moves on keeps the stages in order. *)
LEMMA StageStep ==
    ASSUME TypeOK, StageInv, NEW r \in Requests,
           login' = login, kind' = kind, token' = token, late' = late,
           pc[r] \notin {"idle", "served", "refused"}, pc'[r] # "idle",
           \A q \in Requests : q # r => pc'[q] = pc[q],
           pc'[r] = "session" => kind[r] = "session",
           pc'[r] \in {"logout", "set", "proxied"} => kind[r] = "logout",
           \A q \in landed' : (q \in landed /\ q # r)
                              \/ (q = r /\ kind[r] = "logout" /\ pc'[r] \in {"proxied", "served"}),
           \A q \in Requests : <<q, "auth">> \in blind' =>
               <<q, "auth">> \in blind \/ (q = r /\ pc'[r] \in {"served", "refused"})
    PROVE  StageInv'
<1>1. \A q \in Requests : r \notin late[q]
  BY DEF StageInv
<1>2. \A q \in Requests : pc'[q] # "idle" => Known(token[q])
  BY DEF StageInv
<1>3. /\ \A q \in Requests : pc'[q] = "session" => kind[q] = "session"
      /\ \A q \in Requests : pc'[q] \in {"logout", "set", "proxied"} => kind[q] = "logout"
  BY DEF StageInv
<1>4. \A q \in Requests : <<q, "auth">> \in blind' => pc'[q] \in {"served", "refused"}
  BY DEF StageInv
<1>5. \A q \in Requests : pc'[q] = "idle" => late[q] = {}
  BY DEF StageInv
<1>6. \A q \in landed' : kind[q] = "logout" /\ pc'[q] \in {"proxied", "served"}
  BY DEF StageInv, TypeOK
<1>7. \A q \in Requests : \A m \in late[q] :
          pc'[m] = "served" /\ kind[m] = "logout" /\ token[m] = token[q]
  BY <1>1 DEF StageInv, TypeOK
<1>8. /\ kind' = kind /\ token' = token /\ late' = late
      /\ \A q \in Requests : Known(token[q])' = Known(token[q])
  BY DEF Known
<1> QED BY <1>2, <1>3, <1>4, <1>5, <1>6, <1>7, <1>8 DEF StageInv

LEMMA ArriveStep ==
    ASSUME TypeOK, RevocationInv, NEW r \in Requests, Arrive(r)
    PROVE  RevocationInv'
<1> USE DEF requestVars, loginVars
<1>1. UNCHANGED <<login, revoked, cache, requestVars, blind, landed, recached>>
  BY DEF Arrive
<1>2. /\ pc[r] = "idle" /\ pc'[r] \in {"redis", "refused"}
      /\ \A q \in Requests : q # r => pc'[q] = pc[q]
  BY DEF Arrive, Go, TypeOK
<1>3. pc'[r] = "redis" => cache[gate[r]][token[r]] = "no"
  BY DEF Arrive, Go, TypeOK
<1>4. late'[r] = Logouts(token[r]) /\ \A q \in Requests : q # r => late'[q] = late[q]
  BY DEF Arrive, TypeOK
<1>5. r \notin landed /\ Known(token[r]) /\ <<r, "auth">> \notin blind
      /\ \A q \in Requests : r \notin late[q]
  BY <1>2 DEF Arrive, Known, RevocationInv, StageInv
<1>6. StageInv'
  <2>1. \A q \in Requests : \A m \in late'[q] :
            m \in Requests /\ m # r /\ pc[m] = "served" /\ kind[m] = "logout" /\ token[m] = token[q]
    BY <1>2, <1>4, <1>5 DEF RevocationInv, StageInv, Logouts, TypeOK
  <2>2. \A q \in Requests : pc'[q] # "idle" => Known(token[q])'
    BY <1>1, <1>2, <1>5 DEF RevocationInv, StageInv, Known
  <2>3. /\ \A q \in Requests : pc'[q] = "session" => kind[q] = "session"
        /\ \A q \in Requests : pc'[q] \in {"logout", "set", "proxied"} => kind[q] = "logout"
    BY <1>2 DEF RevocationInv, StageInv
  <2>6. \A q \in Requests : <<q, "auth">> \in blind => pc'[q] \in {"served", "refused"}
    BY <1>2, <1>5 DEF RevocationInv, StageInv
  <2>7. \A q \in Requests : pc'[q] = "idle" => late'[q] = {}
    BY <1>2, <1>4 DEF RevocationInv, StageInv
  <2>4. \A q \in landed : kind[q] = "logout" /\ pc'[q] \in {"proxied", "served"}
    BY <1>2, <1>5 DEF RevocationInv, StageInv, TypeOK
  <2>5. \A q \in Requests : \A m \in late'[q] :
            pc'[m] = "served" /\ kind[m] = "logout" /\ token[m] = token[q]
    BY <1>2, <2>1
  <2>8. kind' = kind /\ token' = token /\ blind' = blind /\ landed' = landed
    BY <1>1
  <2> QED BY <2>2, <2>3, <2>4, <2>5, <2>6, <2>7, <2>8, Zenon DEF StageInv
<1>7. RecordInv'
  BY <1>1, <1>2, <1>5 DEF RevocationInv, RecordInv, Valid, TypeOK
<1>8. MetInv'
  <2> SUFFICES ASSUME NEW q \in Requests, NEW m \in late'[q], Valid(token[q])
               PROVE  /\ m \in landed /\ Accepted(q)' => <<q, "gateway">> \in blind
                      /\ gate[q] = gate[m] /\ (pc'[q] = "redis" \/ Accepted(q)')
                             => <<gate[q], token[q]>> \in recached
                      /\ kind[q] = "session" /\ pc'[q] = "served" =>
                             IF m \in landed THEN <<q, "auth">> \in blind
                             ELSE auth[q] = auth[m] => <<q, "auth">> \notin blind
      BY <1>1 DEF MetInv, Valid
  <2>1. CASE q # r
    BY <2>1, <1>2, <1>4 DEF RevocationInv, MetInv, Accepted
  <2>2. CASE q = r
    <3>1. m \in Requests /\ pc[m] = "served" /\ kind[m] = "logout" /\ token[m] = token[r]
      BY <2>2, <1>4 DEF Logouts
    <3>2. cache[gate[m]][token[m]] = "full" \/ <<gate[m], token[m]>> \in recached
      BY <2>2, <3>1 DEF RevocationInv, RecordInv
    <3>3. ~Accepted(q)' /\ pc'[q] # "served"
      BY <2>2, <1>2 DEF Accepted
    <3> QED BY <2>2, <1>3, <3>1, <3>2, <3>3
  <2> QED BY <2>1, <2>2
<1> QED BY <1>6, <1>7, <1>8 DEF RevocationInv

LEMMA CheckStep ==
    ASSUME TypeOK, RevocationInv, NEW r \in Requests, Check(r)
    PROVE  RevocationInv'
<1> USE DEF requestVars, loginVars
<1>1. UNCHANGED <<login, revoked, requestVars, late, landed>>
  BY DEF Check
<1>2. /\ pc[r] = "redis" /\ pc'[r] \in {Pass(r), "refused"}
      /\ \A q \in Requests : q # r => pc'[q] = pc[q]
  BY DEF Check, Go, TypeOK
<1>3. Pass(r) \in {"served", "session", "logout"}
      /\ (Pass(r) = "session" => kind[r] = "session")
      /\ (Pass(r) = "logout" => kind[r] = "logout")
      /\ (Pass(r) = "served" => kind[r] = "api")
  BY DEF Pass, TypeOK
<1>4. /\ recached \subseteq recached' /\ blind \subseteq blind'
      /\ \A q \in Requests : <<q, "auth">> \in blind' => <<q, "auth">> \in blind
  BY DEF Check
<1>5. pc'[r] # "refused" /\ Valid(token[r]) /\ token[r] \in revoked[Redis]
          => <<r, "gateway">> \in blind'
  BY <1>2, <1>3 DEF Check, Go, TypeOK
<1>6. r \notin landed /\ <<r, "auth">> \notin blind /\ \A q \in Requests : r \notin late[q]
  BY <1>2 DEF RevocationInv, StageInv
<1>7. StageInv'
  <2>1. /\ pc[r] \notin {"idle", "served", "refused"} /\ pc'[r] # "idle"
        /\ pc'[r] = "session" => kind[r] = "session"
        /\ pc'[r] \in {"logout", "set", "proxied"} => kind[r] = "logout"
    BY <1>2, <1>3
  <2>2. /\ \A q \in landed' : q \in landed /\ q # r
        /\ \A q \in Requests : <<q, "auth">> \in blind' => <<q, "auth">> \in blind
    BY <1>1, <1>4, <1>6
  <2>3. login' = login /\ kind' = kind /\ token' = token /\ late' = late /\ StageInv
    BY <1>1 DEF RevocationInv
  <2>4. \A q \in Requests : q # r => pc'[q] = pc[q]
    BY <1>2
  <2> QED BY <2>1, <2>2, <2>3, <2>4, StageStep
<1>8. \A g \in Gateways, l \in Logins :
          cache[g][l] = "full" => cache'[g][l] = "full" \/ <<g, l>> \in recached'
  <2>1. \/ cache' = cache
        \/ /\ cache' = [cache EXCEPT ![gate[r]][token[r]] = "hour"]
           /\ recached' = IF cache[gate[r]][token[r]] = "full"
                          THEN recached \cup {<<gate[r], token[r]>>} ELSE recached
    BY DEF Check
  <2>2. CASE cache' = cache
    BY <2>2
  <2>3. CASE /\ cache' = [cache EXCEPT ![gate[r]][token[r]] = "hour"]
             /\ recached' = IF cache[gate[r]][token[r]] = "full"
                            THEN recached \cup {<<gate[r], token[r]>>} ELSE recached
    <3> SUFFICES ASSUME NEW g \in Gateways, NEW l \in Logins, cache[g][l] = "full"
                 PROVE  cache'[g][l] = "full" \/ <<g, l>> \in recached'
      OBVIOUS
    <3>1. CASE g = gate[r] /\ l = token[r]
      BY <2>3, <3>1
    <3>2. CASE g = gate[r] /\ l # token[r]
      BY <2>3, <3>2 DEF TypeOK
    <3>3. CASE g # gate[r]
      BY <2>3, <3>3 DEF TypeOK
    <3> QED BY <3>1, <3>2, <3>3
  <2> QED BY <2>1, <2>2, <2>3
<1>9. RecordInv'
  <2>1. \A m \in Requests : kind[m] = "logout" /\ pc'[m] \in {"set", "proxied", "served"} =>
                              pc[m] \in {"set", "proxied", "served"} /\ pc'[m] = pc[m]
    BY <1>2, <1>3
  <2>2. \A m \in Requests : gate[m] \in Gateways /\ token[m] \in Logins
    BY DEF TypeOK
  <2> QED BY <1>1, <1>4, <1>8, <2>1, <2>2 DEF RevocationInv, RecordInv, Valid
<1>10. MetInv'
  <2> SUFFICES ASSUME NEW q \in Requests, NEW m \in late[q], Valid(token[q])
               PROVE  /\ m \in landed /\ Accepted(q)' => <<q, "gateway">> \in blind'
                      /\ gate[q] = gate[m] /\ (pc'[q] = "redis" \/ Accepted(q)')
                             => <<gate[q], token[q]>> \in recached'
                      /\ kind[q] = "session" /\ pc'[q] = "served" =>
                             IF m \in landed THEN <<q, "auth">> \in blind'
                             ELSE auth[q] = auth[m] => <<q, "auth">> \notin blind'
      BY <1>1 DEF MetInv, Valid
  <2>1. CASE q # r
    BY <2>1, <1>2, <1>4 DEF RevocationInv, MetInv, Accepted
  <2>2. CASE q = r
    <3>1. m \in landed => token[r] \in revoked[Redis]
      BY <2>2 DEF RevocationInv, StageInv, RecordInv
    <3>2. m \in landed /\ Accepted(q)' => <<q, "gateway">> \in blind'
      BY <2>2, <3>1, <1>5 DEF Accepted
    <3>3. gate[q] = gate[m] => <<gate[q], token[q]>> \in recached'
      BY <2>2, <1>2, <1>4 DEF RevocationInv, MetInv
    <3>4. ~(kind[q] = "session" /\ pc'[q] = "served")
      BY <2>2, <1>2, <1>3
    <3> QED BY <3>2, <3>3, <3>4
  <2> QED BY <2>1, <2>2
<1> QED BY <1>7, <1>9, <1>10 DEF RevocationInv

LEMMA SessionStep ==
    ASSUME TypeOK, RevocationInv, NEW r \in Requests, Session(r)
    PROVE  RevocationInv'
<1> USE DEF requestVars, loginVars
<1>1. UNCHANGED <<login, revoked, cache, requestVars, late, landed, recached>>
  BY DEF Session
<1>2. /\ pc[r] = "session" /\ pc'[r] \in {"served", "refused"}
      /\ \A q \in Requests : q # r => pc'[q] = pc[q]
  BY DEF Session, Go, TypeOK
<1>3. blind \subseteq blind' /\ \A q \in Requests : q # r /\ <<q, "auth">> \in blind' => <<q, "auth">> \in blind
  BY DEF Session
<1>4. kind[r] = "session" /\ r \notin landed /\ <<r, "auth">> \notin blind
  BY <1>2 DEF RevocationInv, StageInv
<1>5. StageInv'
  <2>1. pc[r] \notin {"idle", "served", "refused"} /\ pc'[r] \notin {"idle", "session", "logout", "set", "proxied"}
    BY <1>2
  <2>2. /\ \A q \in landed' : q \in landed /\ q # r
        /\ \A q \in Requests : <<q, "auth">> \in blind' =>
               <<q, "auth">> \in blind \/ (q = r /\ pc'[r] \in {"served", "refused"})
    BY <1>1, <1>2, <1>3, <1>4
  <2>3. login' = login /\ kind' = kind /\ token' = token /\ late' = late /\ StageInv
    BY <1>1 DEF RevocationInv
  <2>4. \A q \in Requests : q # r => pc'[q] = pc[q]
    BY <1>2
  <2> QED BY <2>1, <2>2, <2>3, <2>4, StageStep
<1>6. RecordInv'
  <2>1. \A m \in Requests : kind[m] = "logout" => pc'[m] = pc[m]
    BY <1>2, <1>4
  <2> QED BY <1>1, <2>1 DEF RevocationInv, RecordInv, Valid
<1>7. MetInv'
  <2> SUFFICES ASSUME NEW q \in Requests, NEW m \in late[q], Valid(token[q])
               PROVE  /\ m \in landed /\ Accepted(q)' => <<q, "gateway">> \in blind'
                      /\ gate[q] = gate[m] /\ (pc'[q] = "redis" \/ Accepted(q)')
                             => <<gate[q], token[q]>> \in recached
                      /\ kind[q] = "session" /\ pc'[q] = "served" =>
                             IF m \in landed THEN <<q, "auth">> \in blind'
                             ELSE auth[q] = auth[m] => <<q, "auth">> \notin blind'
      BY <1>1 DEF MetInv, Valid
  <2>1. CASE q # r
    BY <2>1, <1>2, <1>3 DEF RevocationInv, MetInv, Accepted
  <2>2. CASE q = r
    <3>1. m \in Requests /\ pc[m] = "served" /\ kind[m] = "logout" /\ token[m] = token[r]
      BY <2>2 DEF RevocationInv, StageInv, TypeOK
    <3>2. /\ m \in landed => token[r] \in revoked[Redis]
          /\ m \notin landed => token[r] \in revoked[auth[m]]
      BY <2>2, <3>1 DEF RevocationInv, RecordInv
    <3>3. /\ m \in landed => <<r, "gateway">> \in blind'
          /\ gate[r] = gate[m] => <<gate[r], token[r]>> \in recached
      BY <2>2, <1>2, <1>3 DEF RevocationInv, MetInv, Accepted
    <3>4. CASE /\ pc'[r] = IF Valid(token[r]) /\ token[r] \notin revoked[Redis]
                           THEN "served" ELSE "refused"
               /\ blind' = blind
      BY <2>2, <1>4, <3>2, <3>3, <3>4
    <3>5. CASE /\ pc'[r] = IF Valid(token[r]) /\ token[r] \notin revoked[auth[r]]
                           THEN "served" ELSE "refused"
               /\ blind' = blind \cup {<<r, "auth">>}
      BY <2>2, <3>2, <3>3, <3>5
    <3> QED BY <3>4, <3>5 DEF Session, Go, TypeOK
  <2> QED BY <2>1, <2>2
<1> QED BY <1>5, <1>6, <1>7 DEF RevocationInv

(* A request past its checks changes nothing of what later requests met. *)
LEMMA MetStep ==
    ASSUME TypeOK, RevocationInv, NEW r \in Requests,
           UNCHANGED <<login, requestVars, late, blind, recached>>,
           pc[r] \in {"logout", "set", "proxied"}, pc'[r] \in {"set", "proxied", "served"},
           \A q \in Requests : q # r => pc'[q] = pc[q],
           \A m \in landed' : m \in landed \/ m = r, landed \subseteq landed'
    PROVE  MetInv'
<1> USE DEF requestVars
<1>1. kind[r] = "logout" /\ \A q \in Requests : r \notin late[q]
  BY DEF RevocationInv, StageInv
<1>2. \A q \in Requests : /\ Accepted(q)' <=> Accepted(q)
                          /\ pc'[q] = "redis" => pc[q] = "redis"
                          /\ kind[q] = "session" => pc'[q] = pc[q]
  BY <1>1 DEF Accepted
<1>3. \A q \in Requests : \A m \in late[q] : m \in landed' <=> m \in landed
  BY <1>1
<1> SUFFICES ASSUME NEW q \in Requests, NEW m \in late[q], Valid(token[q])
             PROVE  /\ m \in landed' /\ Accepted(q)' => <<q, "gateway">> \in blind
                    /\ gate[q] = gate[m] /\ (pc'[q] = "redis" \/ Accepted(q)')
                           => <<gate[q], token[q]>> \in recached
                    /\ kind[q] = "session" /\ pc'[q] = "served" =>
                           IF m \in landed' THEN <<q, "auth">> \in blind
                           ELSE auth[q] = auth[m] => <<q, "auth">> \notin blind
    BY DEF MetInv, Valid
<1> QED BY <1>2, <1>3 DEF RevocationInv, MetInv

LEMMA LogoutStep ==
    ASSUME TypeOK, RevocationInv, NEW r \in Requests, Logout(r)
    PROVE  RevocationInv'
<1> USE DEF requestVars, histVars, loginVars
<1>1. UNCHANGED <<login, revoked, requestVars, late, blind, landed, recached>>
  BY DEF Logout
<1>2. /\ pc[r] = "logout" /\ pc'[r] = "set"
      /\ \A q \in Requests : q # r => pc'[q] = pc[q]
  BY DEF Logout, Go, TypeOK
<1>3. kind[r] = "logout" /\ r \notin landed
  BY <1>2 DEF RevocationInv, StageInv
<1>4. StageInv'
  <2>1. pc[r] \notin {"idle", "served", "refused"} /\ pc'[r] \notin {"idle", "session"}
    BY <1>2
  <2>2. (\A q \in landed' : q \in landed /\ q # r) /\ blind' = blind
    BY <1>1, <1>3
  <2>3. login' = login /\ kind' = kind /\ token' = token /\ late' = late /\ StageInv
    BY <1>1 DEF RevocationInv
  <2>4. \A q \in Requests : q # r => pc'[q] = pc[q]
    BY <1>2
  <2> QED BY <1>3, <2>1, <2>2, <2>3, <2>4, StageStep
<1>5. MetInv'
  BY <1>1, <1>2, MetStep
<1>6. RecordInv'
  <2>1. /\ \A g \in Gateways, l \in Logins : cache[g][l] = "full" => cache'[g][l] = "full"
        /\ Valid(token[r]) => cache'[gate[r]][token[r]] = "full"
    <3>1. CASE Valid(token[r])
      <4>1. cache' = [cache EXCEPT ![gate[r]][token[r]] = "full"]
        BY <3>1 DEF Logout
      <4>2. gate[r] \in Gateways /\ token[r] \in Logins
        BY DEF TypeOK
      <4>3. cache'[gate[r]] = [cache[gate[r]] EXCEPT ![token[r]] = "full"]
            /\ \A g \in Gateways : g # gate[r] => cache'[g] = cache[g]
        BY <4>1, <4>2 DEF TypeOK
      <4>4. cache[gate[r]] \in [Logins -> {"no", "full", "hour"}]
        BY <4>2 DEF TypeOK
      <4> QED BY <4>2, <4>3, <4>4
    <3>2. CASE ~Valid(token[r])
      BY <3>2 DEF Logout
    <3> QED BY <3>1, <3>2
  <2>2. \A m \in Requests : gate[m] \in Gateways /\ token[m] \in Logins
    BY DEF TypeOK
  <2> QED BY <1>1, <1>2, <1>3, <2>1, <2>2 DEF RevocationInv, RecordInv, Valid
<1> QED BY <1>4, <1>5, <1>6 DEF RevocationInv

(* A logout that writes to stores, or finds its token expired, keeps the
   records; its last step leaves one. *)
LEMMA RecordStep ==
    ASSUME TypeOK, RevocationInv, NEW r \in Requests,
           UNCHANGED <<login, requestVars, cache, recached>>,
           pc[r] \in {"set", "proxied"}, pc'[r] \in {"proxied", "served"}, kind[r] = "logout",
           \A q \in Requests : q # r => pc'[q] = pc[q],
           \A s \in Stores : revoked[s] \subseteq revoked'[s],
           \A m \in landed' : m \in landed \/ m = r, landed \subseteq landed',
           r \in landed' /\ Valid(token[r]) => token[r] \in revoked'[Redis],
           pc'[r] = "served" /\ r \notin landed' /\ Valid(token[r]) => token[r] \in revoked'[auth[r]]
    PROVE  RecordInv'
<1> USE DEF requestVars
<1>1. \A m \in Requests : auth[m] \in Stores /\ Redis \in Stores
  BY DEF TypeOK, Stores
<1>2. \A m \in landed' : Valid(token[m]) => token[m] \in revoked'[Redis]
  BY <1>1 DEF RevocationInv, RecordInv, TypeOK
<1>3. \A m \in Requests \ landed' :
          pc'[m] = "served" /\ kind[m] = "logout" /\ Valid(token[m]) => token[m] \in revoked'[auth[m]]
  BY <1>1 DEF RevocationInv, RecordInv
<1>4. \A m \in Requests :
          kind[m] = "logout" /\ pc'[m] \in {"set", "proxied", "served"} /\ Valid(token[m]) =>
              cache[gate[m]][token[m]] = "full" \/ <<gate[m], token[m]>> \in recached
  BY DEF RevocationInv, RecordInv
<1> QED BY <1>2, <1>3, <1>4 DEF RecordInv, Valid

LEMMA LogoutSetStep ==
    ASSUME TypeOK, RevocationInv, NEW r \in Requests, LogoutSet(r)
    PROVE  RevocationInv'
<1> USE DEF requestVars, loginVars
<1>1. UNCHANGED <<login, requestVars, cache, late, blind, recached>>
  BY DEF LogoutSet
<1>2. /\ pc[r] = "set" /\ pc'[r] = "proxied"
      /\ \A q \in Requests : q # r => pc'[q] = pc[q]
  BY DEF LogoutSet, Go, TypeOK
<1>3. kind[r] = "logout" /\ r \notin landed
  BY <1>2 DEF RevocationInv, StageInv
<1>4. /\ \A s \in Stores : revoked[s] \subseteq revoked'[s]
      /\ \A m \in landed' : m \in landed \/ m = r
      /\ landed \subseteq landed'
      /\ r \in landed' => token[r] \in revoked'[Redis]
  BY <1>3 DEF LogoutSet, Revoke, Stores, TypeOK
<1>5. StageInv'
  <2>1. \A q \in landed' : (q \in landed /\ q # r)
                           \/ (q = r /\ kind[r] = "logout" /\ pc'[r] \in {"proxied", "served"})
    BY <1>2, <1>3, <1>4
  <2>2. pc[r] \notin {"idle", "served", "refused"} /\ pc'[r] \notin {"idle", "session"}
    BY <1>2
  <2>3. login' = login /\ kind' = kind /\ token' = token /\ late' = late /\ blind' = blind /\ StageInv
    BY <1>1 DEF RevocationInv
  <2>4. \A q \in Requests : q # r => pc'[q] = pc[q]
    BY <1>2
  <2> QED BY <1>3, <2>1, <2>2, <2>3, <2>4, StageStep
<1>6. MetInv'
  BY <1>1, <1>2, <1>4, MetStep
<1>7. RecordInv'
  BY <1>1, <1>2, <1>3, <1>4, RecordStep
<1> QED BY <1>5, <1>6, <1>7 DEF RevocationInv

LEMMA LogoutProxiedStep ==
    ASSUME TypeOK, RevocationInv, NEW r \in Requests, LogoutProxied(r)
    PROVE  RevocationInv'
<1> USE DEF requestVars, loginVars
<1>1. UNCHANGED <<login, requestVars, cache, late, blind, recached>>
  BY DEF LogoutProxied
<1>2. /\ pc[r] = "proxied" /\ pc'[r] = "served"
      /\ \A q \in Requests : q # r => pc'[q] = pc[q]
  BY DEF LogoutProxied, Go, TypeOK
<1>3. kind[r] = "logout"
  BY <1>2 DEF RevocationInv, StageInv
<1>4. /\ \A s \in Stores : revoked[s] \subseteq revoked'[s]
      /\ \A m \in landed' : m \in landed \/ m = r
      /\ landed \subseteq landed'
  BY DEF LogoutProxied, Revoke, TypeOK
<1>5. /\ r \in landed' /\ Valid(token[r]) => token[r] \in revoked'[Redis]
      /\ r \notin landed' /\ Valid(token[r]) => token[r] \in revoked'[auth[r]]
  <2>1. CASE ~Valid(token[r])
    BY <2>1
  <2>2. CASE Valid(token[r])
    <3>1. PICK in \in {{Redis}, {auth[r]}, {Redis, auth[r]}} : Revoke(r, in)
      BY <2>2 DEF LogoutProxied
    <3>2. auth[r] \in Stores /\ Redis \in Stores
      BY DEF TypeOK, Stores
    <3>3. r \in landed => token[r] \in revoked[Redis]
      BY <2>2 DEF RevocationInv, RecordInv
    <3> QED BY <1>4, <3>1, <3>2, <3>3 DEF Revoke
  <2> QED BY <2>1, <2>2
<1>6. StageInv'
  <2>1. \A q \in landed' : (q \in landed /\ q # r)
                           \/ (q = r /\ kind[r] = "logout" /\ pc'[r] \in {"proxied", "served"})
    BY <1>2, <1>3, <1>4
  <2>2. pc[r] \notin {"idle", "served", "refused"} /\ pc'[r] \notin {"idle", "session"}
    BY <1>2
  <2>3. login' = login /\ kind' = kind /\ token' = token /\ late' = late /\ blind' = blind /\ StageInv
    BY <1>1 DEF RevocationInv
  <2>4. \A q \in Requests : q # r => pc'[q] = pc[q]
    BY <1>2
  <2> QED BY <1>3, <2>1, <2>2, <2>3, <2>4, StageStep
<1>7. MetInv'
  BY <1>1, <1>2, <1>4, MetStep
<1>8. RecordInv'
  BY <1>1, <1>2, <1>3, <1>4, <1>5, RecordStep
<1> QED BY <1>6, <1>7, <1>8 DEF RevocationInv

LEMMA NextRevocations == TypeOK /\ RevocationInv /\ [Next]_vars => RevocationInv'
<1> SUFFICES ASSUME TypeOK, RevocationInv, [Next]_vars PROVE RevocationInv'
    OBVIOUS
<1> USE DEF requestVars, histVars, loginVars
<1>1. CASE \/ \E n \in Nonces, a \in Auths : Generate(n, a)
           \/ \E s \in Stores, n \in Nonces : NonceLapses(s, n)
           \/ \E l \in Logins, n \in Nonces : Consume(l, n)
           \/ \E l \in Logins : FallbackConsume(l) \/ Verify(l)
           \/ UNCHANGED vars
  <2>1. UNCHANGED <<revoked, cache, pc, requestVars, histVars>>
    BY <1>1 DEF Generate, NonceLapses, Consume, FallbackConsume, Verify, vars
  <2>2. \/ login' = login
        \/ \E l \in Logins, to \in {"fallback", "consumed", "refused", "issued"} :
               ~Known(l) /\ login' = [login EXCEPT ![l] = to]
    BY <1>1 DEF Generate, NonceLapses, Consume, FallbackConsume, Verify, vars, Take, Known
  <2>3. \A l \in Logins : Known(l) => login'[l] = login[l]
    BY <2>2 DEF TypeOK
  <2> QED BY <2>1, <2>3, LoginSteps
<1> QED BY <1>1, ExpireStep, CacheLapsesStep, ArriveStep, CheckStep, SessionStep, LogoutStep,
           LogoutSetStep, LogoutProxiedStep DEF Next

-----------------------------------------------------------------------------
(* The theorems *)

(* TypeOK: the variables keep their types, and a token is only issued for a
   nonce that the service has issued. *)
THEOREM SessionTypes == Spec => []TypeOK
BY InitTypes, NextTypes, PTL DEF Spec

(* A nonce signs in once from each store that has a copy, and has two copies
   only if the answer to its SET was lost. *)
THEOREM NonceUsedOnce == Spec => []OneSignInPerCopy
<1>1. Spec => [](TypeOK /\ NonceInv)
  BY InitTypes, NextTypes, InitNonces, NextNonces, PTL DEF Spec
<1> QED BY <1>1, NonceInvImplies, PTL

(* What an answered logout leaves behind and later requests have met. *)
THEOREM RevocationInvariance == Spec => [](TypeOK /\ RevocationInv)
BY InitTypes, NextTypes, InitRevocations, NextRevocations, PTL DEF Spec

LEMMA RevocationInvImplies ==
    TypeOK /\ RevocationInv => LogoutHolds /\ GatewayRemembers /\ SessionHonoursLogout
<1> SUFFICES ASSUME TypeOK, RevocationInv, NEW r \in Requests, NEW m \in Requests, ServedAfter(r, m)
             PROVE  /\ m \in landed => <<r, "gateway">> \in blind
                    /\ gate[r] = gate[m] => <<gate[r], token[r]>> \in recached
                    /\ kind[r] = "session" =>
                           IF m \in landed THEN {<<r, "gateway">>, <<r, "auth">>} \subseteq blind
                           ELSE auth[r] = auth[m] => <<r, "auth">> \notin blind
    BY DEF LogoutHolds, GatewayRemembers, SessionHonoursLogout
<1> QED BY DEF ServedAfter, RevocationInv, MetInv, Accepted

(* No gateway accepts a token after its logout unless its Redis check failed
   or Redis never got the revocation. *)
THEOREM LogoutIsHonoured == Spec => []LogoutHolds
BY RevocationInvariance, RevocationInvImplies, PTL

(* The gateway that handled the logout needs no Redis to refuse the token,
   as long as no older check has replaced its cache entry. *)
THEOREM GatewayKeepsItsLogouts == Spec => []GatewayRemembers
BY RevocationInvariance, RevocationInvImplies, PTL

(* The auth service confirms a logged-out session only through two failed
   checks or past a record it does not look at. *)
THEOREM SessionsEndWithLogout == Spec => []SessionHonoursLogout
BY RevocationInvariance, RevocationInvImplies, PTL
=============================================================================
