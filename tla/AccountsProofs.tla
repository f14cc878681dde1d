--------------------------- MODULE AccountsProofs ---------------------------
(***************************************************************************)
(* Proofs about Accounts, for any wallets, socials and number of calls.    *)
(*                                                                         *)
(* The heart is AccountInv: as long as nothing went wrong with a wallet's  *)
(* sign-ins, a wallet without an identity has signed in to nothing, its    *)
(* account is empty and nobody is about to add to it; and one with an      *)
(* identity has signed in to its owner only, as will every sign-in that is *)
(* past its lookup.                                                        *)
(***************************************************************************)
EXTENDS Accounts, TLAPS

Linking(c) == pc[c] \in {"other", "insert"}

(* What a call under way is about. *)
CallInv ==
    \A c \in Calls :
        /\ pc[c] \in {"user", "seed"} => what[c] \in Wallets /\ acct[c] = what[c]
        /\ Linking(c) => what[c] \in Identities /\ acct[c] \in Wallets
        /\ pc[c] = "other" => what[c] \in Wallets
        /\ pc[c] = "delete" => what[c] \in Socials

AccountInv ==
    \A w \in Wallets \ disturbed :
        /\ owner[w] = None => /\ entered[w] = {} /\ Of(w) = {}
                              /\ \A c \in Calls : Linking(c) => acct[c] # w
        /\ owner[w] # None => /\ entered[w] \subseteq {owner[w]}
                              /\ SigningIn(w) => owner[w] = w

(* A link that has checked knows of no other wallet of the kind. *)
KindInv ==
    /\ OneWalletOfAKind
    /\ \A c \in Calls \ blind : pc[c] = "insert" =>
           \A v \in Wallets \ {what[c]} : SameKind(v, what[c]) => owner[v] # acct[c]

PrimaryInv ==
    /\ \A w \in primary : owner[w] # None
    /\ \A v, w \in primary : owner[v] = owner[w] => v = w

IInv == TypeOK /\ CallInv /\ AccountInv /\ KindInv /\ PrimaryInv

-----------------------------------------------------------------------------
(* What the steps do to the calls and to the owners *)

LEMMA Sets == /\ None \notin Wallets /\ None \notin Identities /\ Wallets \subseteq Identities
              /\ Socials \subseteq Identities /\ Wallets \cap Socials = {}
BY AccountsAssumption DEF Identities, Wallets

LEMMA Kinds ==
    ASSUME NEW v, NEW w, SameKind(v, w)
    PROVE  v \in Wallets /\ w \in Wallets /\ SameKind(w, v)
BY DEF SameKind, Wallets

(* The calls other than c stay as they are. *)
LEMMA GoOnly ==
    ASSUME TypeOK, NEW c \in Calls, NEW to, NEW i, NEW a, Go(c, to, i, a)
    PROVE  /\ pc'[c] = to /\ what'[c] = i /\ acct'[c] = a
           /\ \A k \in Calls : k # c => pc'[k] = pc[k] /\ what'[k] = what[k] /\ acct'[k] = acct[k]
BY DEF Go, TypeOK

-----------------------------------------------------------------------------
(* The types *)

LEMMA InitInv == Init => IInv
<1> SUFFICES ASSUME Init PROVE IInv
    OBVIOUS
<1>1. TypeOK
  BY DEF Init, TypeOK
<1>2. Of(None) = Identities /\ \A w \in Wallets : Of(w) = {}
  BY Sets DEF Init, Of
<1>3. CallInv
  BY DEF Init, CallInv, Linking
<1>4. AccountInv
  BY <1>2, Sets DEF Init, AccountInv, Linking
<1>5. KindInv
  BY Sets DEF Init, KindInv, OneWalletOfAKind
<1>6. PrimaryInv
  BY DEF Init, PrimaryInv
<1> QED BY <1>1, <1>3, <1>4, <1>5, <1>6 DEF IInv

LEMMA NextTypes == TypeOK /\ CallInv /\ [Next]_vars => TypeOK'
<1> SUFFICES ASSUME TypeOK, CallInv, [Next]_vars PROVE TypeOK'
    OBVIOUS
<1> USE Sets DEF callVars, histVars
<1>1. ASSUME NEW c \in Calls, NEW w \in Wallets, Lookup(c, w) PROVE TypeOK'
  <2>1. owner[w] # None => owner[w] \in Wallets
    BY DEF TypeOK
  <2> QED BY <1>1, <2>1 DEF Lookup, TypeOK, Go, Issue
<1>2. ASSUME NEW c \in Calls, NEW w \in Wallets, NEW i \in Identities, Link(c, w, i) PROVE TypeOK'
  BY <1>2 DEF Link, TypeOK, Go, Resolved
<1>3. ASSUME NEW c \in Calls, NEW w \in Wallets, NEW i \in Identities, Unlink(c, w, i) PROVE TypeOK'
  BY <1>3 DEF Unlink, TypeOK, Go
<1>4. ASSUME NEW w \in Wallets, NEW i \in Identities, SetPrimary(w, i) PROVE TypeOK'
  BY <1>4 DEF SetPrimary, TypeOK
<1>5. ASSUME NEW c \in Calls, GetOrCreateUserChain(c) PROVE TypeOK'
  BY <1>5 DEF GetOrCreateUserChain, TypeOK, CallInv, Go
<1>6. ASSUME NEW c \in Calls, EnsurePrimary(c) PROVE TypeOK'
  <2>1. what[c] \in Wallets /\ acct[c] \in Wallets
    BY <1>6 DEF EnsurePrimary, CallInv
  <2>2. blind' \subseteq Calls
    BY <1>6 DEF EnsurePrimary, Overtaken, TypeOK
  <2>3. owner' \in [Identities -> Wallets \cup {None}] /\ primary' \subseteq Wallets
    BY <1>6, <2>1 DEF EnsurePrimary, TypeOK
  <2>4. entered' \in [Wallets -> SUBSET Wallets] /\ disturbed' \subseteq Wallets
    BY <1>6, <2>1 DEF EnsurePrimary, TypeOK, Issue
  <2> QED BY <1>6, <2>2, <2>3, <2>4 DEF EnsurePrimary, TypeOK, Go
<1>7. ASSUME NEW c \in Calls, CheckOther(c) PROVE TypeOK'
  <2>1. what[c] \in Identities /\ acct[c] \in Wallets
    BY <1>7 DEF CheckOther, CallInv, Linking
  <2> QED BY <1>7, <2>1 DEF CheckOther, TypeOK, Go, Done
<1>8. ASSUME NEW c \in Calls, InsertIdentity(c) PROVE TypeOK'
  <2>1. what[c] \in Identities /\ acct[c] \in Wallets
    BY <1>8 DEF InsertIdentity, CallInv, Linking
  <2>2. blind' \subseteq Calls
    BY <1>8 DEF InsertIdentity, Overtaken, TypeOK
  <2>3. owner' \in [Identities -> Wallets \cup {None}]
    BY <1>8, <2>1 DEF InsertIdentity, TypeOK
  <2>4. SigningIn(what[c]) => what[c] \in Wallets
    BY DEF SigningIn, CallInv
  <2>5. disturbed' \subseteq Wallets /\ unchecked' \subseteq Wallets
    BY <1>8, <2>4 DEF InsertIdentity, TypeOK
  <2> QED BY <1>8, <2>2, <2>3, <2>5 DEF InsertIdentity, TypeOK, Go
<1>9. ASSUME NEW c \in Calls, DeleteIdentity(c) PROVE TypeOK'
  <2>1. what[c] \in Identities
    BY <1>9 DEF DeleteIdentity, CallInv
  <2>2. owner' \in [Identities -> Wallets \cup {None}]
    BY <1>9, <2>1 DEF DeleteIdentity, TypeOK
  <2> QED BY <1>9, <2>2 DEF DeleteIdentity, TypeOK
<1>10. CASE UNCHANGED vars
  BY <1>10 DEF vars, TypeOK
<1> QED BY <1>1, <1>2, <1>3, <1>4, <1>5, <1>6, <1>7, <1>8, <1>9, <1>10 DEF Next

LEMMA NextCalls == TypeOK /\ CallInv /\ [Next]_vars => CallInv'
<1> SUFFICES ASSUME TypeOK, CallInv, [Next]_vars PROVE CallInv'
    OBVIOUS
<1> USE Sets DEF callVars, histVars
(* A call that goes on about something it may be about. *)
<1>0. ASSUME NEW c \in Calls, NEW to, NEW i, NEW a, Go(c, to, i, a),
             to \in {"user", "seed"} => i \in Wallets /\ a = i,
             to \in {"other", "insert"} => i \in Identities /\ a \in Wallets,
             to = "other" => i \in Wallets,
             to = "delete" => i \in Socials
      PROVE  CallInv'
  BY <1>0, GoOnly DEF CallInv, Linking
<1>1. ASSUME NEW c \in Calls, NEW w \in Wallets, Lookup(c, w) PROVE CallInv'
  <2>1. CASE Go(c, "user", w, w)
    BY <2>1, <1>0
  <2>2. CASE UNCHANGED callVars
    BY <2>2 DEF CallInv, Linking
  <2> QED BY <1>1, <2>1, <2>2 DEF Lookup
<1>2. ASSUME NEW c \in Calls, NEW w \in Wallets, NEW i \in Identities, Link(c, w, i) PROVE CallInv'
  <2>1. PICK a \in Resolved(w) : Go(c, IF i \in Wallets THEN "other" ELSE "insert", i, a)
    BY <1>2 DEF Link
  <2>2. a \in Wallets
    BY DEF Resolved, TypeOK
  <2> QED BY <2>1, <2>2, <1>0
<1>3. ASSUME NEW c \in Calls, NEW w \in Wallets, NEW i \in Identities, Unlink(c, w, i) PROVE CallInv'
  <2>1. i \in Socials /\ Go(c, "delete", i, owner[i])
    BY <1>3 DEF Unlink, Identities
  <2> QED BY <2>1, <1>0
<1>4. ASSUME NEW w \in Wallets, NEW i \in Identities, SetPrimary(w, i) PROVE CallInv'
  BY <1>4 DEF SetPrimary, CallInv, Linking
<1>5. ASSUME NEW c \in Calls, GetOrCreateUserChain(c) PROVE CallInv'
  <2>1. Go(c, "seed", what[c], what[c]) /\ what[c] \in Wallets
    BY <1>5 DEF GetOrCreateUserChain, CallInv
  <2> QED BY <2>1, <1>0
<1>6. ASSUME NEW c \in Calls, EnsurePrimary(c) \/ InsertIdentity(c) PROVE CallInv'
  BY <1>6, <1>0 DEF EnsurePrimary, InsertIdentity
<1>7. ASSUME NEW c \in Calls, CheckOther(c) PROVE CallInv'
  <2>1. Go(c, "idle", None, None) \/ Go(c, "insert", what[c], acct[c])
    BY <1>7 DEF CheckOther, Done
  <2>2. what[c] \in Identities /\ acct[c] \in Wallets
    BY <1>7 DEF CheckOther, CallInv, Linking
  <2> QED BY <2>1, <2>2, <1>0
<1>8. ASSUME NEW c \in Calls, DeleteIdentity(c) PROVE CallInv'
  BY <1>8 DEF DeleteIdentity, CallInv, Linking, TypeOK
<1>9. CASE UNCHANGED vars
  BY <1>9 DEF vars, CallInv, Linking
<1> QED BY <1>1, <1>2, <1>3, <1>4, <1>5, <1>6, <1>7, <1>8, <1>9 DEF Next

-----------------------------------------------------------------------------
(* Where a wallet signs in *)

(* A step that changes no owner, adds no sign-in and only ends calls. *)
LEMMA AccountFrame ==
    ASSUME TypeOK, AccountInv, UNCHANGED <<owner, entered>>, disturbed \subseteq disturbed',
           \A w \in Wallets : SigningIn(w)' => SigningIn(w),
           \A c \in Calls : Linking(c)' => Linking(c) /\ acct'[c] = acct[c]
    PROVE  AccountInv'
<1> SUFFICES ASSUME NEW w \in Wallets \ disturbed'
             PROVE  /\ owner[w] = None => /\ entered[w] = {} /\ Of(w)' = {}
                                          /\ \A c \in Calls : Linking(c)' => acct'[c] # w
                    /\ owner[w] # None => /\ entered[w] \subseteq {owner[w]}
                                          /\ SigningIn(w)' => owner[w] = w
    BY DEF AccountInv
<1>1. Of(w)' = Of(w)
  BY DEF Of
<1> QED BY <1>1 DEF AccountInv

LEMMA LookupAccounts ==
    ASSUME TypeOK, CallInv, AccountInv, NEW c \in Calls, NEW w \in Wallets, Lookup(c, w)
    PROVE  AccountInv'
<1> USE DEF callVars
<1>1. CASE owner[w] # None /\ Issue(w, owner[w]) /\ UNCHANGED <<callVars, disturbed>>
  <2>1. UNCHANGED owner /\ \A v \in Wallets : entered'[v] \subseteq entered[v] \cup (IF v = w THEN {owner[w]} ELSE {})
    BY <1>1 DEF Lookup, Issue, TypeOK
  <2>2. \A v \in Wallets : Of(v)' = Of(v) /\ (SigningIn(v)' <=> SigningIn(v))
    BY <1>1, <2>1 DEF Of, SigningIn
  <2>3. \A k \in Calls : (Linking(k)' <=> Linking(k)) /\ acct'[k] = acct[k]
    BY <1>1 DEF Linking
  <2> QED BY <1>1, <2>1, <2>2, <2>3 DEF AccountInv
<1>2. ASSUME Go(c, "user", w, w), UNCHANGED <<owner, entered>>, disturbed \subseteq disturbed',
             owner[w] = None \/ w \in disturbed'
      PROVE  AccountInv'
  <2>1. \A k \in Calls : Linking(k)' => Linking(k) /\ acct'[k] = acct[k]
    BY <1>2, GoOnly DEF Linking
  <2>2. \A v \in Wallets : v # w /\ SigningIn(v)' => SigningIn(v)
    BY <1>2, GoOnly DEF SigningIn
  <2>3. \A v \in Wallets : Of(v)' = Of(v)
    BY <1>2 DEF Of
  <2> QED BY <1>2, <2>1, <2>2, <2>3 DEF AccountInv
<1> QED BY <1>1, <1>2 DEF Lookup

LEMMA LinkAccounts ==
    ASSUME TypeOK, AccountInv, NEW c \in Calls, NEW w \in Wallets, NEW i \in Identities, Link(c, w, i)
    PROVE  AccountInv'
<1> USE DEF histVars
<1>1. PICK a \in Resolved(w) : Go(c, IF i \in Wallets THEN "other" ELSE "insert", i, a)
  BY DEF Link
<1>2. UNCHANGED <<owner, entered, disturbed>> /\ entered[w] # {}
  BY DEF Link
<1>3. a \in Wallets /\ a \notin disturbed => owner[a] # None
  <2>1. CASE a = owner[w]
    BY <2>1, Sets DEF AccountInv, Of
  <2>2. CASE a = w
    BY <2>2, <1>2 DEF AccountInv
  <2> QED BY <2>1, <2>2 DEF Resolved
<1>4. \A v \in Wallets : SigningIn(v)' => SigningIn(v)
  BY <1>1, GoOnly DEF SigningIn
<1>5. \A k \in Calls : k # c => (Linking(k)' <=> Linking(k)) /\ acct'[k] = acct[k]
  BY <1>1, GoOnly DEF Linking
<1>6. acct'[c] = a
  BY <1>1, GoOnly
<1>7. \A v \in Wallets : Of(v)' = Of(v)
  BY <1>2 DEF Of
<1> SUFFICES ASSUME NEW v \in Wallets \ disturbed
             PROVE  /\ owner[v] = None => /\ entered[v] = {} /\ Of(v)' = {}
                                          /\ \A k \in Calls : Linking(k)' => acct'[k] # v
                    /\ owner[v] # None => /\ entered[v] \subseteq {owner[v]}
                                          /\ SigningIn(v)' => owner[v] = v
    BY <1>2 DEF AccountInv
<1> QED BY <1>3, <1>4, <1>5, <1>6, <1>7 DEF AccountInv

LEMMA EnsureAccounts ==
    ASSUME TypeOK, CallInv, AccountInv, NEW c \in Calls, EnsurePrimary(c)
    PROVE  AccountInv'
<1> DEFINE w == what[c]
<1>1. w \in Wallets /\ acct[c] = w /\ pc[c] = "seed" /\ SigningIn(w)
  BY DEF EnsurePrimary, CallInv, SigningIn
<1>2. Go(c, "idle", None, None) /\ Issue(w, w)
  BY <1>1 DEF EnsurePrimary
<1>3. entered'[w] = entered[w] \cup {w} /\ \A v \in Wallets : v # w => entered'[v] = entered[v]
  BY <1>1, <1>2 DEF Issue, TypeOK
<1>4. \A k \in Calls : Linking(k)' => Linking(k) /\ acct'[k] = acct[k]
  BY <1>2, GoOnly DEF Linking
<1>5. \A v \in Wallets : SigningIn(v)' => SigningIn(v)
  BY <1>2, GoOnly DEF SigningIn
<1>6. CASE owner[w] = None /\ owner' = [owner EXCEPT ![w] = w] /\ disturbed' = disturbed
  <2>1. owner'[w] = w /\ \A i \in Identities : i # w => owner'[i] = owner[i]
    BY <1>1, <1>6, Sets DEF TypeOK
  <2>2. \A v \in Wallets : v # w => Of(v)' = Of(v)
    BY <1>6, <2>1, Sets DEF Of
  <2> QED BY <1>1, <1>3, <1>4, <1>5, <1>6, <2>1, <2>2, Sets DEF AccountInv
<1>7. CASE owner' = owner /\ disturbed' = IF owner[w] = None THEN disturbed \cup {w} ELSE disturbed
  <2>1. \A v \in Wallets : Of(v)' = Of(v)
    BY <1>7 DEF Of
  <2> QED BY <1>1, <1>3, <1>4, <1>5, <1>7, <2>1 DEF AccountInv
<1> QED BY <1>1, <1>6, <1>7 DEF EnsurePrimary

LEMMA InsertAccounts ==
    ASSUME TypeOK, CallInv, AccountInv, NEW c \in Calls, InsertIdentity(c)
    PROVE  AccountInv'
<1> DEFINE i == what[c]
<1> DEFINE a == acct[c]
<1>1. i \in Identities /\ a \in Wallets /\ Linking(c)
  BY DEF InsertIdentity, CallInv, Linking
<1>2. Go(c, "idle", None, None) /\ entered' = entered
  BY DEF InsertIdentity
<1>3. \A k \in Calls : Linking(k)' => Linking(k) /\ acct'[k] = acct[k]
  BY <1>2, GoOnly DEF Linking
<1>4. \A v \in Wallets : SigningIn(v)' => SigningIn(v)
  BY <1>2, GoOnly DEF SigningIn
<1>5. CASE owner[i] # None /\ UNCHANGED <<owner, disturbed>>
  BY <1>2, <1>3, <1>4, <1>5, AccountFrame
<1>6. CASE /\ owner[i] = None /\ owner' = [owner EXCEPT ![i] = a]
           /\ disturbed' = IF SigningIn(i) THEN disturbed \cup {i} ELSE disturbed
  <2>1. owner'[i] = a /\ \A j \in Identities : j # i => owner'[j] = owner[j]
    BY <1>1, <1>6 DEF TypeOK
  <2>2. \A v \in Wallets : v # a => Of(v)' = Of(v)
    BY <1>1, <1>6, <2>1, Sets DEF Of
  <2>3. a \notin disturbed => owner[a] # None
    BY <1>1 DEF AccountInv
  <2>4. a \notin disturbed => owner'[a] # None
    BY <2>1, <2>3, <1>1, Sets
  <2> QED BY <1>1, <1>2, <1>3, <1>4, <1>6, <2>1, <2>2, <2>4, Sets DEF AccountInv
<1> QED BY <1>5, <1>6 DEF InsertIdentity

LEMMA DeleteAccounts ==
    ASSUME TypeOK, CallInv, AccountInv, NEW c \in Calls, DeleteIdentity(c)
    PROVE  AccountInv'
<1> USE DEF histVars
<1>1. what[c] \in Socials /\ UNCHANGED <<entered, disturbed>>
  BY DEF DeleteIdentity, CallInv
<1>2. \A w \in Wallets : owner'[w] = owner[w]
  BY <1>1, Sets DEF DeleteIdentity, TypeOK
<1>3. \A w \in Wallets : Of(w)' \subseteq Of(w)
  BY <1>1, Sets DEF DeleteIdentity, TypeOK, Of
<1>4. \A k \in Calls : (Linking(k)' <=> Linking(k)) /\ (Linking(k) => acct'[k] = acct[k])
  BY DEF DeleteIdentity, Linking, TypeOK
<1>5. \A w \in Wallets : SigningIn(w)' => SigningIn(w)
  BY DEF DeleteIdentity, SigningIn, TypeOK
<1> QED BY <1>1, <1>2, <1>3, <1>4, <1>5 DEF AccountInv

LEMMA NextAccounts == TypeOK /\ CallInv /\ AccountInv /\ [Next]_vars => AccountInv'
<1> SUFFICES ASSUME TypeOK, CallInv, AccountInv, [Next]_vars PROVE AccountInv'
    OBVIOUS
<1> USE DEF callVars, histVars
<1>1. ASSUME NEW c \in Calls, NEW w \in Wallets, NEW i \in Identities, Unlink(c, w, i) PROVE AccountInv'
  <2>1. \A v \in Wallets : SigningIn(v)' => SigningIn(v)
    BY <1>1, GoOnly DEF Unlink, SigningIn
  <2>2. \A k \in Calls : Linking(k)' => Linking(k) /\ acct'[k] = acct[k]
    BY <1>1, GoOnly DEF Unlink, Linking
  <2> QED BY <1>1, <2>1, <2>2, AccountFrame DEF Unlink
<1>2. ASSUME NEW w \in Wallets, NEW i \in Identities, SetPrimary(w, i) PROVE AccountInv'
  BY <1>2, AccountFrame DEF SetPrimary, SigningIn, Linking
<1>3. ASSUME NEW c \in Calls, GetOrCreateUserChain(c) PROVE AccountInv'
  <2>1. \A v \in Wallets : SigningIn(v)' => SigningIn(v)
    BY <1>3, GoOnly DEF GetOrCreateUserChain, SigningIn
  <2>2. \A k \in Calls : Linking(k)' => Linking(k) /\ acct'[k] = acct[k]
    BY <1>3, GoOnly DEF GetOrCreateUserChain, Linking
  <2> QED BY <1>3, <2>1, <2>2, AccountFrame DEF GetOrCreateUserChain
<1>4. ASSUME NEW c \in Calls, CheckOther(c) PROVE AccountInv'
  <2>1. Go(c, "idle", None, None) \/ Go(c, "insert", what[c], acct[c])
    BY <1>4 DEF CheckOther, Done
  <2>2. \A v \in Wallets : SigningIn(v)' => SigningIn(v)
    BY <2>1, GoOnly DEF SigningIn
  <2>3. \A k \in Calls : Linking(k)' => Linking(k) /\ acct'[k] = acct[k]
    BY <1>4, <2>1, GoOnly DEF CheckOther, Linking
  <2> QED BY <1>4, <2>2, <2>3, AccountFrame DEF CheckOther
<1>5. CASE UNCHANGED vars
  BY <1>5, AccountFrame DEF vars, SigningIn, Linking
<1> QED BY <1>1, <1>2, <1>3, <1>4, <1>5, LookupAccounts, LinkAccounts, EnsureAccounts,
           InsertAccounts, DeleteAccounts DEF Next

-----------------------------------------------------------------------------
(* One wallet of a kind *)

(* A step that changes no owner and lets no call into "insert". *)
LEMMA KindFrame ==
    ASSUME TypeOK, KindInv, UNCHANGED <<owner, unchecked>>, disturbed \subseteq disturbed',
           \A c \in Calls \ blind' : pc'[c] = "insert" =>
               pc[c] = "insert" /\ what'[c] = what[c] /\ acct'[c] = acct[c] /\ c \notin blind
    PROVE  KindInv'
<1>1. OneWalletOfAKind'
  BY DEF KindInv, OneWalletOfAKind
<1> QED BY <1>1 DEF KindInv

(* An insert of i into a: the calls whose check it overtakes are marked. *)
LEMMA KindInsert ==
    ASSUME TypeOK, KindInv, NEW c \in Calls, NEW i \in Identities, NEW a \in Wallets,
           owner[i] = None, owner' = [owner EXCEPT ![i] = a], Go(c, "idle", None, None),
           (blind \ {c}) \cup Overtaken(i, a, c) \subseteq blind',
           disturbed \subseteq disturbed', unchecked \subseteq unchecked',
           i \notin unchecked' \cup disturbed' =>
               \A v \in Wallets \ {i} : SameKind(v, i) => owner[v] # a
    PROVE  KindInv'
<1>1. owner'[i] = a /\ \A j \in Identities : j # i => owner'[j] = owner[j]
  BY DEF TypeOK
<1>2. OneWalletOfAKind'
  <2> SUFFICES ASSUME NEW v \in Wallets, NEW w \in Wallets, v # w, SameKind(v, w),
                      owner'[v] = owner'[w], owner'[v] # None,
                      v \notin unchecked' \cup disturbed', w \notin unchecked' \cup disturbed'
               PROVE  FALSE
      BY DEF OneWalletOfAKind
  <2>1. CASE v = i
    BY <2>1, <1>1, Kinds, Sets
  <2>2. CASE w = i
    BY <2>2, <1>1, Sets
  <2>3. CASE v # i /\ w # i
    BY <2>3, <1>1, Sets DEF KindInv, OneWalletOfAKind
  <2> QED BY <2>1, <2>2, <2>3
<1>3. \A k \in Calls \ blind' : pc'[k] = "insert" =>
          \A v \in Wallets \ {what'[k]} : SameKind(v, what'[k]) => owner'[v] # acct'[k]
  <2> SUFFICES ASSUME NEW k \in Calls \ blind', pc'[k] = "insert",
                      NEW v \in Wallets \ {what'[k]}, SameKind(v, what'[k])
               PROVE  owner'[v] # acct'[k]
      OBVIOUS
  <2>1. k # c /\ pc[k] = "insert" /\ what'[k] = what[k] /\ acct'[k] = acct[k]
    BY GoOnly
  <2>2. k \notin blind /\ k \notin Overtaken(i, a, c)
    BY <2>1
  <2>3. CASE v = i
    <3>1. SameKind(what[k], i)
      BY <2>1, <2>3, Kinds
    <3> QED BY <2>1, <2>2, <2>3, <3>1, <1>1 DEF Overtaken
  <2>4. CASE v # i
    BY <2>1, <2>2, <2>4, <1>1, Sets DEF KindInv
  <2> QED BY <2>3, <2>4
<1> QED BY <1>2, <1>3 DEF KindInv

LEMMA NextKinds == TypeOK /\ CallInv /\ AccountInv /\ KindInv /\ [Next]_vars => KindInv'
<1> SUFFICES ASSUME TypeOK, CallInv, AccountInv, KindInv, [Next]_vars PROVE KindInv'
    OBVIOUS
<1> USE DEF callVars, histVars
<1>1. ASSUME NEW c \in Calls, NEW w \in Wallets, Lookup(c, w) PROVE KindInv'
  <2>1. \A k \in Calls : pc'[k] = "insert" => pc[k] = "insert" /\ what'[k] = what[k] /\ acct'[k] = acct[k]
    BY <1>1, GoOnly DEF Lookup
  <2>2. UNCHANGED <<owner, unchecked, blind>> /\ disturbed \subseteq disturbed'
    BY <1>1 DEF Lookup
  <2> QED BY <2>1, <2>2, KindFrame
<1>2. ASSUME NEW c \in Calls, NEW w \in Wallets, NEW i \in Identities, Link(c, w, i) PROVE KindInv'
  <2>1. PICK a \in Resolved(w) : Go(c, IF i \in Wallets THEN "other" ELSE "insert", i, a)
    BY <1>2 DEF Link
  <2>2. UNCHANGED <<owner, unchecked, blind, disturbed>>
    BY <1>2 DEF Link
  <2>3. \A k \in Calls : pc'[k] = "insert" =>
            \/ k = c /\ what'[k] \notin Wallets
            \/ pc[k] = "insert" /\ what'[k] = what[k] /\ acct'[k] = acct[k]
    BY <2>1, GoOnly
  <2>4. OneWalletOfAKind'
    BY <2>2 DEF KindInv, OneWalletOfAKind
  <2>5. \A v, j : SameKind(v, j) => j \in Wallets
    BY Kinds
  <2> QED BY <2>2, <2>3, <2>4, <2>5 DEF KindInv
<1>3. ASSUME NEW c \in Calls, NEW w \in Wallets, NEW i \in Identities, Unlink(c, w, i) PROVE KindInv'
  <2>1. \A k \in Calls : pc'[k] = "insert" => pc[k] = "insert" /\ what'[k] = what[k] /\ acct'[k] = acct[k]
    BY <1>3, GoOnly DEF Unlink
  <2> QED BY <1>3, <2>1, KindFrame DEF Unlink
<1>4. ASSUME NEW w \in Wallets, NEW i \in Identities, SetPrimary(w, i) PROVE KindInv'
  BY <1>4, KindFrame DEF SetPrimary
<1>5. ASSUME NEW c \in Calls, GetOrCreateUserChain(c) PROVE KindInv'
  <2>1. \A k \in Calls : pc'[k] = "insert" => pc[k] = "insert" /\ what'[k] = what[k] /\ acct'[k] = acct[k]
    BY <1>5, GoOnly DEF GetOrCreateUserChain
  <2> QED BY <1>5, <2>1, KindFrame DEF GetOrCreateUserChain
<1>6. ASSUME NEW c \in Calls, EnsurePrimary(c) PROVE KindInv'
  <2>1. what[c] \in Wallets /\ acct[c] = what[c] /\ what[c] \in Identities
    BY <1>6, Sets DEF EnsurePrimary, CallInv
  <2>2. Go(c, "idle", None, None) /\ unchecked' = unchecked
    BY <1>6 DEF EnsurePrimary
  <2>3. CASE owner' = owner /\ blind' = blind /\ disturbed \subseteq disturbed'
    <3>1. \A k \in Calls : pc'[k] = "insert" => pc[k] = "insert" /\ what'[k] = what[k] /\ acct'[k] = acct[k]
      BY <2>2, GoOnly
    <3> QED BY <2>2, <2>3, <3>1, KindFrame
  <2>4. CASE /\ owner[what[c]] = None /\ owner' = [owner EXCEPT ![what[c]] = acct[c]]
             /\ blind' = blind \cup Overtaken(what[c], acct[c], c) /\ disturbed' = disturbed
    <3>1. what[c] \notin disturbed => \A v \in Wallets : owner[v] # acct[c]
      BY <2>1, <2>4, Sets DEF AccountInv, Of
    <3> QED BY <2>1, <2>2, <2>4, <3>1, KindInsert
  <2> QED BY <1>6, <2>3, <2>4 DEF EnsurePrimary
<1>7. ASSUME NEW c \in Calls, CheckOther(c) PROVE KindInv'
  <2>1. UNCHANGED <<owner, unchecked, disturbed>>
    BY <1>7 DEF CheckOther
  <2>2. CASE Done(c) \/ (Go(c, "insert", what[c], acct[c]) /\ blind' = blind \cup {c})
    <3>1. \A k \in Calls \ blind' : pc'[k] = "insert" =>
              pc[k] = "insert" /\ what'[k] = what[k] /\ acct'[k] = acct[k] /\ k \notin blind
      BY <2>2, GoOnly DEF Done
    <3> QED BY <2>1, <3>1, KindFrame
  <2>3. CASE ~HasOther(c) /\ Go(c, "insert", what[c], acct[c]) /\ blind' = blind
    <3>1. \A v \in Wallets \ {what[c]} : SameKind(v, what[c]) => owner[v] # acct[c]
      BY <2>3, Sets DEF HasOther, Of
    <3>2. OneWalletOfAKind'
      BY <2>1 DEF KindInv, OneWalletOfAKind
    <3>3. \A k \in Calls : what'[k] = what[k] /\ acct'[k] = acct[k] /\ (k # c => pc'[k] = pc[k])
      BY <2>3, GoOnly
    <3> QED BY <2>1, <2>3, <3>1, <3>2, <3>3 DEF KindInv
  <2> QED BY <1>7, <2>2, <2>3 DEF CheckOther
<1>8. ASSUME NEW c \in Calls, InsertIdentity(c) PROVE KindInv'
  <2>1. what[c] \in Identities /\ acct[c] \in Wallets /\ pc[c] = "insert"
    BY <1>8 DEF InsertIdentity, CallInv, Linking
  <2>2. Go(c, "idle", None, None)
    BY <1>8 DEF InsertIdentity
  <2>3. CASE owner[what[c]] # None
    <3>1. UNCHANGED <<owner, disturbed, unchecked>> /\ blind' = blind \ {c}
      BY <1>8, <2>3 DEF InsertIdentity
    <3>2. \A k \in Calls \ blind' : pc'[k] = "insert" =>
              pc[k] = "insert" /\ what'[k] = what[k] /\ acct'[k] = acct[k] /\ k \notin blind
      BY <2>2, <3>1, GoOnly
    <3> QED BY <3>1, <3>2, KindFrame
  <2>4. CASE owner[what[c]] = None
    <3>1. /\ owner' = [owner EXCEPT ![what[c]] = acct[c]]
          /\ disturbed \subseteq disturbed' /\ unchecked \subseteq unchecked'
          /\ blind' = (blind \ {c}) \cup Overtaken(what[c], acct[c], c)
          /\ what[c] \in Wallets /\ c \in blind => what[c] \in unchecked'
      BY <1>8, <2>4 DEF InsertIdentity
    <3>2. what[c] \notin unchecked' \cup disturbed' =>
              \A v \in Wallets \ {what[c]} : SameKind(v, what[c]) => owner[v] # acct[c]
      BY <2>1, <3>1, Kinds DEF KindInv
    <3> QED BY <2>1, <2>2, <2>4, <3>1, <3>2, KindInsert
  <2> QED BY <2>3, <2>4
<1>9. ASSUME NEW c \in Calls, DeleteIdentity(c) PROVE KindInv'
  <2>1. \A w \in Wallets : owner'[w] = owner[w]
    BY <1>9, Sets DEF DeleteIdentity, CallInv, TypeOK
  <2>2. \A k \in Calls : pc'[k] = "insert" => pc[k] = "insert" /\ what'[k] = what[k] /\ acct'[k] = acct[k]
    BY <1>9 DEF DeleteIdentity, TypeOK
  <2>3. UNCHANGED <<blind, unchecked, disturbed>>
    BY <1>9 DEF DeleteIdentity
  <2>4. OneWalletOfAKind'
    BY <2>1, <2>3 DEF KindInv, OneWalletOfAKind
  <2> QED BY <2>1, <2>2, <2>3, <2>4 DEF KindInv
<1>10. CASE UNCHANGED vars
  BY <1>10, KindFrame DEF vars
<1> QED BY <1>1, <1>2, <1>3, <1>4, <1>5, <1>6, <1>7, <1>8, <1>9, <1>10 DEF Next

-----------------------------------------------------------------------------
(* Owners and primaries *)

(* A step gives an owner to an identity that has none, takes a social from
   its account, or leaves the owners alone. *)
LEMMA OwnerStep ==
    ASSUME TypeOK, CallInv, Next
    PROVE  \A w \in Wallets : owner[w] # None => owner'[w] = owner[w]
<1> SUFFICES ASSUME NEW v \in Wallets, owner[v] # None PROVE owner'[v] = owner[v]
    OBVIOUS
<1> USE DEF histVars, callVars
<1>1. ASSUME NEW c \in Calls, EnsurePrimary(c) PROVE owner'[v] = owner[v]
  BY <1>1, Sets DEF EnsurePrimary, TypeOK
<1>2. ASSUME NEW c \in Calls, InsertIdentity(c) PROVE owner'[v] = owner[v]
  BY <1>2, Sets DEF InsertIdentity, TypeOK
<1>3. ASSUME NEW c \in Calls, DeleteIdentity(c) PROVE owner'[v] = owner[v]
  BY <1>3, Sets DEF DeleteIdentity, CallInv, TypeOK
<1> QED BY <1>1, <1>2, <1>3 DEF Next, Lookup, Link, Unlink, SetPrimary, GetOrCreateUserChain, CheckOther

(* The primaries move by a seed, into an account without one, or by
   SetPrimary, within an account. *)
LEMMA PrimaryStep ==
    ASSUME TypeOK, CallInv, PrimaryInv, Next
    PROVE  \/ primary' = primary
           \/ \E w \in Wallets : /\ owner[w] = None /\ owner' = [owner EXCEPT ![w] = w]
                                 /\ Of(w) \cap primary = {} /\ primary' = primary \cup {w}
           \/ \E w \in Wallets : /\ owner[w] # None /\ owner' = owner
                                 /\ primary' = (primary \ Of(owner[w])) \cup {w}
<1> USE DEF histVars, callVars
<1>1. ASSUME NEW c \in Calls, EnsurePrimary(c), primary' # primary
      PROVE  \E w \in Wallets : /\ owner[w] = None /\ owner' = [owner EXCEPT ![w] = w]
                                /\ Of(w) \cap primary = {} /\ primary' = primary \cup {w}
  <2>1. what[c] \in Wallets /\ acct[c] = what[c]
    BY <1>1 DEF EnsurePrimary, CallInv
  <2> QED BY <1>1, <2>1 DEF EnsurePrimary
<1>2. ASSUME NEW v \in Wallets, NEW w \in Identities, SetPrimary(v, w)
      PROVE  /\ w \in Wallets /\ owner[w] # None /\ owner' = owner
             /\ primary' = (primary \ Of(owner[w])) \cup {w}
  BY <1>2, Sets DEF SetPrimary, Resolved
<1> QED BY <1>1, <1>2 DEF Next, Lookup, Link, Unlink, GetOrCreateUserChain, CheckOther, InsertIdentity,
        DeleteIdentity

LEMMA NextPrimary == TypeOK /\ CallInv /\ PrimaryInv /\ [Next]_vars => PrimaryInv'
<1> SUFFICES ASSUME TypeOK, CallInv, PrimaryInv, Next PROVE PrimaryInv'
    BY DEF vars, PrimaryInv
<1>1. primary \subseteq Wallets
  BY DEF TypeOK
<1>2. CASE primary' = primary
  BY <1>1, <1>2, OwnerStep DEF PrimaryInv
<1>3. ASSUME NEW w \in Wallets, owner[w] = None, owner' = [owner EXCEPT ![w] = w],
             Of(w) \cap primary = {}, primary' = primary \cup {w}
      PROVE  PrimaryInv'
  <2>1. owner'[w] = w /\ \A v \in Wallets : v # w => owner'[v] = owner[v]
    BY <1>3, Sets DEF TypeOK
  <2>2. \A v \in primary : owner[v] # w
    BY <1>1, <1>3, Sets DEF Of
  <2> QED BY <1>1, <1>3, <2>1, <2>2, Sets DEF PrimaryInv
<1>4. ASSUME NEW w \in Wallets, owner[w] # None, owner' = owner,
             primary' = (primary \ Of(owner[w])) \cup {w}
      PROVE  PrimaryInv'
  BY <1>1, <1>4, Sets DEF PrimaryInv, Of
<1> QED BY <1>2, <1>3, <1>4, PrimaryStep

-----------------------------------------------------------------------------
(* The theorems *)

(* Users, identities and calls keep their types. *)
THEOREM AccountTypes == Spec => []TypeOK
<1>1. Init => TypeOK /\ CallInv
  BY InitInv DEF IInv
<1> QED BY <1>1, NextTypes, NextCalls, PTL DEF Spec

(* The inductive invariant holds. *)
THEOREM AccountInvariance == Spec => []IInv
<1>1. IInv /\ [Next]_vars => IInv'
  BY NextTypes, NextCalls, NextAccounts, NextKinds, NextPrimary DEF IInv
<1> QED BY <1>1, InitInv, PTL DEF Spec

(* A wallet signs in to one account, unless its sign-ins went wrong. *)
THEOREM OneAccount == Spec => []OneAccountPerWallet
<1>1. IInv => OneAccountPerWallet
  BY DEF IInv, AccountInv, OneAccountPerWallet
<1> QED BY <1>1, AccountInvariance, PTL

(* An account has one wallet of a kind, unless a link went unchecked. *)
THEOREM OneOfAKind == Spec => []OneWalletOfAKind
<1>1. IInv => OneWalletOfAKind
  BY DEF IInv, KindInv
<1> QED BY <1>1, AccountInvariance, PTL

(* A linked wallet stays with its account for ever. *)
THEOREM WalletsArePermanent == Spec => WalletsStay
<1>1. ASSUME IInv, [Next]_vars
      PROVE  [\A w \in Wallets : owner[w] # None => owner'[w] = owner[w]]_vars
  BY <1>1, OwnerStep DEF IInv
<1> QED BY <1>1, AccountInvariance, PTL DEF Spec, WalletsStay

(* An account that has a primary wallet keeps exactly one. *)
THEOREM PrimaryIsKept == Spec => PrimaryKept
<1>1. ASSUME IInv, [Next]_vars
      PROVE  [\A a \in users : Of(a) \cap primary # {} =>
                  \E w \in Wallets : (Of(a) \cap primary)' = {w}]_vars
  <2> SUFFICES ASSUME Next, NEW a \in users, NEW v \in Of(a) \cap primary
               PROVE  \E w \in Wallets : (Of(a) \cap primary)' = {w}
      BY <1>1
  <2>0. TypeOK /\ CallInv /\ PrimaryInv /\ PrimaryInv'
    BY <1>1, NextPrimary DEF IInv
  <2>1. /\ primary \subseteq Wallets /\ primary' \subseteq Wallets
        /\ a \in Wallets /\ v \in Wallets /\ owner[v] = a
    BY <1>1, <2>0, NextTypes DEF TypeOK, Of
  <2>2. \A w \in primary' : owner'[w] = a => (Of(a) \cap primary)' = {w}
    BY <2>0, <2>1, Sets DEF PrimaryInv, Of
  <2>3. owner'[v] = a
    BY <2>0, <2>1, OwnerStep, Sets
  <2>4. CASE v \in primary'
    BY <2>1, <2>2, <2>3, <2>4
  <2>5. ASSUME NEW w \in Wallets, owner[w] # None, owner' = owner,
               primary' = (primary \ Of(owner[w])) \cup {w}, v \notin primary'
        PROVE  \E u \in Wallets : (Of(a) \cap primary)' = {u}
    <3>1. owner[w] = a /\ w \in primary'
      BY <2>5, <2>1 DEF Of
    <3> QED BY <2>2, <2>5, <3>1
  <2> QED BY <2>0, <2>1, <2>4, <2>5, PrimaryStep
<1> QED BY <1>1, AccountInvariance, PTL DEF Spec, PrimaryKept
=============================================================================
