------------------------------ MODULE Accounts ------------------------------
(***************************************************************************)
(* Accounts and their linked identities: the account resolution of         *)
(* HandleVerify (auth-service-go handlers/auth_handler.go), the handlers   *)
(* of handlers/account_handler.go and the tables of sql/schema.sql they    *)
(* keep through db/queries.go.                                             *)
(*                                                                         *)
(* users.wallet_address is unique and never repointed, so an account is    *)
(* named by the wallet it was created for.  An identity is a row of        *)
(* linked_identities, unique by (type, identifier): it has one owner or    *)
(* none.  Every query runs on its own, SetPrimaryIdentity's transaction    *)
(* apart, and may fail; a handler that ends there takes no further step.   *)
(* Signatures have been verified, and no account is soft-deleted.          *)
(***************************************************************************)
EXTENDS Integers, FiniteSets

CONSTANTS
    SolanaWallets, EvmWallets,
    Socials,     \* Telegram accounts
    Calls,       \* requests that can be under way at once
    None         \* no account

Wallets == SolanaWallets \cup EvmWallets
Identities == Wallets \cup Socials

ASSUME AccountsAssumption ==
    /\ SolanaWallets \cap EvmWallets = {} /\ Wallets \cap Socials = {}
    /\ None \notin Identities

VARIABLES
    users,       \* the accounts
    owner,       \* the account of each identity, None if it has no row
    primary,     \* identities with is_primary
    pc,          \* where each call is
    what,        \* the identity it is about
    acct,        \* the account it has resolved
    entered,     \* the accounts each wallet has been signed in to (history)
    disturbed,   \* wallets that a sign-in may have sent astray (history)
    blind,       \* links whose check for another wallet failed, or was
                 \* overtaken by another insert (history)
    unchecked    \* wallets that such a link inserted (history)

callVars == <<pc, what, acct>>
histVars == <<entered, disturbed, blind, unchecked>>
vars == <<users, owner, primary, callVars, histVars>>

Of(a) == {i \in Identities : owner[i] = a}

TypeOK ==
    /\ users \subseteq Wallets
    /\ owner \in [Identities -> Wallets \cup {None}]
    /\ primary \subseteq Wallets
    /\ pc \in [Calls -> {"idle", "user", "seed", "other", "insert", "delete"}]
    /\ what \in [Calls -> Identities \cup {None}] /\ acct \in [Calls -> Wallets \cup {None}]
    /\ entered \in [Wallets -> SUBSET Wallets] /\ disturbed \subseteq Wallets
    /\ blind \subseteq Calls /\ unchecked \subseteq Wallets

Init ==
    /\ users = {} /\ owner = [i \in Identities |-> None] /\ primary = {}
    /\ pc = [c \in Calls |-> "idle"] /\ what = [c \in Calls |-> None]
    /\ acct = [c \in Calls |-> None]
    /\ entered = [w \in Wallets |-> {}] /\ disturbed = {} /\ blind = {} /\ unchecked = {}

SameKind(v, w) == \/ {v, w} \subseteq SolanaWallets
                  \/ {v, w} \subseteq EvmWallets

(* The call goes on with its identity and account, or is over. *)
Go(c, to, i, a) ==
    /\ pc' = [pc EXCEPT ![c] = to] /\ what' = [what EXCEPT ![c] = i] /\ acct' = [acct EXCEPT ![c] = a]
Done(c) ==
    Go(c, "idle", None, None) /\ blind' = blind \ {c}

-----------------------------------------------------------------------------
(* Signing in, after the signature *)

(* The token is issued for the account. *)
Issue(w, a) == entered' = [entered EXCEPT ![w] = @ \cup {a}]

(* Slip: only an account's primary is looked up. *)
LookupPrimary(c, w) ==
    /\ pc[c] = "idle"
    /\ IF w \in primary THEN Issue(w, owner[w]) /\ UNCHANGED callVars
       ELSE Go(c, "user", w, w) /\ entered' = entered
    /\ UNCHANGED <<users, owner, primary, disturbed, blind, unchecked>>

(* The wallet's identity says which account; a failed query counts as no
   identity. *)
Lookup(c, w) ==
    /\ pc[c] = "idle"
    /\ \/ owner[w] # None /\ Issue(w, owner[w]) /\ UNCHANGED <<callVars, disturbed>>
       \/ owner[w] = None /\ Go(c, "user", w, w) /\ UNCHANGED <<entered, disturbed>>
       \/ /\ owner[w] # None /\ Go(c, "user", w, w)
          /\ disturbed' = disturbed \cup {w} /\ entered' = entered
    /\ UNCHANGED <<users, owner, primary, blind, unchecked>>

GetOrCreateUserChain(c) ==
    /\ pc[c] = "user"
    /\ users' = users \cup {what[c]}
    /\ Go(c, "seed", what[c], what[c])
    /\ UNCHANGED <<owner, primary, histVars>>

(* The inserts in place when others are about to insert: their check for
   another wallet of the kind is out of date. *)
Overtaken(i, a, c) ==
    {k \in Calls \ {c} : pc[k] = "insert" /\ acct[k] = a /\ SameKind(what[k], i)}

(* EnsurePrimaryIdentityTyped: nothing if the identity has a row, an error if
   the account has a primary; an error is logged and the sign-in goes on. *)
EnsurePrimary(c) ==
    LET w == what[c] a == acct[c] IN
    /\ pc[c] = "seed"
    /\ \/ /\ owner[w] = None /\ Of(a) \cap primary = {}
          /\ owner' = [owner EXCEPT ![w] = a] /\ primary' = primary \cup {w}
          /\ blind' = blind \cup Overtaken(w, a, c)
          /\ disturbed' = disturbed
       \/ /\ disturbed' = IF owner[w] = None THEN disturbed \cup {w} ELSE disturbed
          /\ UNCHANGED <<owner, primary, blind>>
    /\ Issue(w, a) /\ Go(c, "idle", None, None)
    /\ UNCHANGED <<users, unchecked>>

-----------------------------------------------------------------------------
(* Linking and unlinking, by the holder of a token of wallet w *)

(* resolveAccount: by the identity of the token's wallet or, if there is none
   or the query fails, by users.wallet_address. *)
Resolved(w) == ({owner[w]} \ {None}) \cup ({w} \cap users)

(* HandleLinkVerify, HandleLinkEVMVerify, HandleLinkTelegram, up to the first
   check: an identity that has an owner is left alone.  (What a wallet can
   resolve to stays so: the account may as well be resolved at the check.) *)
Link(c, w, i) ==
    /\ pc[c] = "idle" /\ entered[w] # {}
    /\ owner[i] = None
    /\ \E a \in Resolved(w) : Go(c, IF i \in Wallets THEN "other" ELSE "insert", i, a)
    /\ UNCHANGED <<users, owner, primary, histVars>>

HasOther(c) == \E v \in Of(acct[c]) \ {what[c]} : SameKind(v, what[c])

(* HasOtherIdentityOfType; a failed query counts as no other. *)
CheckOther(c) ==
    /\ pc[c] = "other"
    /\ \/ HasOther(c) /\ Done(c)
       \/ ~HasOther(c) /\ Go(c, "insert", what[c], acct[c]) /\ blind' = blind
       \/ HasOther(c) /\ Go(c, "insert", what[c], acct[c]) /\ blind' = blind \cup {c}
    /\ UNCHANGED <<users, owner, primary, entered, disturbed, unchecked>>

(* A sign-in of the wallet is past its lookup. *)
SigningIn(w) == \E k \in Calls : pc[k] \in {"user", "seed"} /\ what[k] = w

InsertIdentity(c) ==
    LET i == what[c] a == acct[c] IN
    /\ pc[c] = "insert"
    /\ Go(c, "idle", None, None)
    /\ IF owner[i] # None
       THEN blind' = blind \ {c} /\ UNCHANGED <<owner, disturbed, unchecked>>
       ELSE /\ owner' = [owner EXCEPT ![i] = a]
            /\ disturbed' = IF SigningIn(i) THEN disturbed \cup {i} ELSE disturbed
            /\ unchecked' = IF i \in Wallets /\ c \in blind THEN unchecked \cup {i} ELSE unchecked
            /\ blind' = (blind \ {c}) \cup Overtaken(i, a, c)
    /\ UNCHANGED <<users, primary, entered>>

(* Slip: anything but the primary can be unlinked. *)
UnlinkWallets(c, w, i) ==
    /\ pc[c] = "idle" /\ entered[w] # {} /\ owner[i] \in Resolved(w)
    /\ i \notin primary
    /\ Go(c, "delete", i, owner[i])
    /\ UNCHANGED <<users, owner, primary, histVars>>

(* HandleUnlink, up to its reading of the row: a primary or a wallet stays. *)
Unlink(c, w, i) ==
    /\ pc[c] = "idle" /\ entered[w] # {} /\ owner[i] \in Resolved(w)
    /\ i \notin primary /\ i \notin Wallets
    /\ Go(c, "delete", i, owner[i])
    /\ UNCHANGED <<users, owner, primary, histVars>>

(* DELETE by row id and account: another call that has read the same row will
   find nothing, even if the identity is linked again meanwhile. *)
DeleteIdentity(c) ==
    /\ pc[c] = "delete"
    /\ owner' = [owner EXCEPT ![what[c]] = None]
    /\ LET done == {k \in Calls : pc[k] = "delete" /\ what[k] = what[c]} IN
       /\ pc' = [k \in Calls |-> IF k \in done THEN "idle" ELSE pc[k]]
       /\ what' = [k \in Calls |-> IF k \in done THEN None ELSE what[k]]
       /\ acct' = [k \in Calls |-> IF k \in done THEN None ELSE acct[k]]
    /\ UNCHANGED <<users, primary, histVars>>

(* HandleSetPrimary: one transaction demotes the primary and promotes a wallet. *)
SetPrimary(w, i) ==
    /\ entered[w] # {} /\ i \in Wallets /\ owner[i] \in Resolved(w)
    /\ primary' = (primary \ Of(owner[i])) \cup {i}
    /\ UNCHANGED <<users, owner, callVars, histVars>>

Next ==
    \/ \E c \in Calls, w \in Wallets : Lookup(c, w)
    \/ \E c \in Calls, w \in Wallets, i \in Identities :
           Link(c, w, i) \/ Unlink(c, w, i)
    \/ \E w \in Wallets, i \in Identities : SetPrimary(w, i)
    \/ \E c \in Calls :
           \/ GetOrCreateUserChain(c) \/ EnsurePrimary(c)
           \/ CheckOther(c) \/ InsertIdentity(c) \/ DeleteIdentity(c)

Spec == Init /\ [][Next]_vars

-----------------------------------------------------------------------------
(* Properties *)

(* A wallet is signed in to one account for ever, unless a sign-in of it had a
   failed lookup or left it without an identity, or a link of the wallet to
   another account ran into the sign-in: then the first tokens name an
   account that the wallet's later ones do not. *)
OneAccountPerWallet ==
    \A w \in Wallets : \A a, b \in entered[w] : a = b \/ w \in disturbed

(* "Linked wallets are permanent": no step takes a wallet from its account. *)
WalletsStay == [][\A w \in Wallets : owner[w] # None => owner'[w] = owner[w]]_vars

(* "Enforces one-wallet-per-chain (at most one Solana + one EVM wallet per
   account)", of the check before a link. *)
OneWalletPerChain ==
    \A v, w \in Wallets :
        v # w /\ SameKind(v, w) /\ owner[v] # None => owner[v] # owner[w]

(* What does hold: two wallets of a kind get to one account only if a link went
   without its check, two links ran at once, or the account's own wallet got
   its identity late. *)
OneWalletOfAKind ==
    \A v, w \in Wallets :
        v # w /\ SameKind(v, w) /\ owner[v] = owner[w] /\ owner[v] # None =>
            {v, w} \cap (unchecked \cup disturbed) # {}

(* An account that has a primary wallet keeps exactly one. *)
PrimaryKept ==
    [][\A a \in users : Of(a) \cap primary # {} =>
           \E w \in Wallets : (Of(a) \cap primary)' = {w}]_vars
=============================================================================
