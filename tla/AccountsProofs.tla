--------------------------- MODULE AccountsProofs ---------------------------
(***************************************************************************)
(* Theorems about Accounts, for any number of servers, requests, users and *)
(* tokens.                                                                 *)
(***************************************************************************)
EXTENDS Accounts, TLAPS

-----------------------------------------------------------------------------
(* Types.                                                                  *)

LEMMA InitType == Init => TypeOK
<1> SUFFICES ASSUME Init PROVE TypeOK
  OBVIOUS
<1>1. (CHOOSE u \in Users : TRUE) \in Users
  BY ConstantsAssumption
<1>2. 0 \in Passwords /\ 0 \in 0 .. MaxPairs
  BY ConstantsAssumption DEF Passwords
<1> QED
  BY <1>1, <1>2 DEF Init, TypeOK, Requests, Idle

(* Going on and ending keep requests to their type.                        *)
LEMMA GoType ==
  ASSUME TypeOK, NEW c \in Clients, NEW r \in Requests, Go(c, r)
  PROVE  request' \in [Clients -> Requests]
BY DEF TypeOK, Go

LEMMA EndType ==
  ASSUME TypeOK, NEW c \in Clients, End(c)
  PROVE  request' \in [Clients -> Requests]
<1>1. Idle \in Requests
  BY DEF Idle, Requests
<1> QED
  BY <1>1, GoType DEF End

LEMMA LetInType ==
  ASSUME TypeOK, NEW c \in Clients, NEW s \in Servers, NEW u \in Users, NEW w \in Passwords,
         NEW job \in Jobs, LetIn(c, s, u, w, job)
  PROVE  request' \in [Clients -> Requests]
<1>1. changePassword(s, u, w) \in Requests
  BY DEF changePassword, Requests
<1>2. [pc |-> "work", user |-> u, token |-> NoToken, job |-> job] \in Requests
  BY DEF Requests
<1> QED
  BY <1>1, <1>2, GoType DEF LetIn

(* What the steps of a request know of it.                                 *)
LEMMA RequestParts ==
  ASSUME TypeOK, NEW c \in Clients
  PROVE  LET r == request[c] IN
         /\ r \in Requests
         /\ r.pc # "idle" => r.user \in Users
         /\ r.pc \in {"read", "keep"} =>
              r.server \in Servers /\ r.word \in Passwords /\ r.job \in Jobs
         /\ r.pc = "work" => r.token \in Tokens \cup {NoToken} /\ r.job \in Jobs
         /\ r.pc = "evict" => r.server \in Servers /\ r.word \in Passwords
         /\ r.pc \in {"revoke", "update"} => r.word \in Passwords
BY DEF TypeOK, Requests

LEMMA NewPairType ==
  ASSUME TypeOK, NEW u \in Users, NEW S \in ScopeSets \cup {{}}, NEW old \in 0 .. MaxPairs,
         NewPair(u, S, old)
  PROVE  /\ issued' \in 0 .. MaxPairs
         /\ owner' \in [Pairs -> Users]
         /\ scopes' \in [Pairs -> ScopeSets \cup {{}}]
         /\ parent' \in [Pairs -> 0 .. MaxPairs]
<1>1. issued + 1 \in Pairs /\ issued + 1 \in 0 .. MaxPairs
  BY ConstantsAssumption DEF NewPair, TypeOK, Pairs
<1> QED
  BY <1>1 DEF NewPair, TypeOK

LEMMA NextType == TypeOK /\ [Next]_vars => TypeOK'
<1> SUFFICES ASSUME TypeOK, [Next]_vars PROVE TypeOK'
  OBVIOUS
<1> USE DEF tokenVars
<1>1. ASSUME NEW c \in Clients, NEW s \in Servers, NEW u \in Users, NEW w \in Passwords,
             NEW job \in Jobs, Login(c, s, u, w, job)
      PROVE  TypeOK'
  <2>1. [pc |-> "read", server |-> s, user |-> u, word |-> w, job |-> job] \in Requests
    BY DEF Requests
  <2>2. request' \in [Clients -> Requests]
    BY <1>1, <2>1, LetInType, GoType DEF Login
  <2> QED
    BY <1>1, <2>2 DEF Login, TypeOK
<1>2. ASSUME NEW c \in Clients, NEW t \in Tokens, NEW job \in Jobs, ShowToken(c, t, job)
      PROVE  TypeOK'
  <2>1. owner[t[1]] \in Users
    BY DEF TypeOK, Tokens
  <2>2. [pc |-> "work", user |-> owner[t[1]], job |-> job,
         token |-> IF job = "refresh" THEN t ELSE NoToken] \in Requests
    BY <2>1 DEF Requests
  <2>3. request' \in [Clients -> Requests]
    BY <1>2, <2>2, GoType DEF ShowToken
  <2> QED
    BY <1>2, <2>3 DEF ShowToken, TypeOK
<1>3. ASSUME NEW c \in Clients, ReadUser(c) PROVE TypeOK'
  <2>1. request[c] \in Requests /\ request[c].pc = "read"
    BY <1>3, RequestParts DEF ReadUser
  <2>2. [request[c] EXCEPT !.pc = "keep"] \in Requests
    BY <2>1 DEF Requests
  <2>3. request' \in [Clients -> Requests]
    BY <1>3, <2>2, GoType, EndType DEF ReadUser
  <2> QED
    BY <1>3, <2>3 DEF ReadUser, TypeOK
<1>4. ASSUME NEW c \in Clients, Keep(c) PROVE TypeOK'
  <2>1. /\ request[c].server \in Servers /\ request[c].user \in Users
        /\ request[c].word \in Passwords /\ request[c].job \in Jobs
    BY <1>4, RequestParts DEF Keep
  <2>2. request' \in [Clients -> Requests]
    BY <1>4, <2>1, LetInType DEF Keep
  <2>3. /\ logins' \in [Servers -> SUBSET (Users \X Passwords)]
        /\ evaded' \subseteq Servers \X Users \X Passwords
    BY <1>4, <2>1 DEF Keep, TypeOK
  <2> QED
    BY <1>4, <2>2, <2>3 DEF Keep, TypeOK
<1>5. ASSUME NEW c \in Clients, GenerateTokenPair(c) PROVE TypeOK'
  <2>1. request[c].user \in Users
    BY <1>5, RequestParts DEF GenerateTokenPair, Work
  <2>2. 0 \in 0 .. MaxPairs
    BY ConstantsAssumption
  <2>3. request' \in [Clients -> Requests]
    BY <1>5, EndType DEF GenerateTokenPair
  <2>4. rows' \in [Tokens -> {"none", "live", "revoked", "deleted"}]
    BY <1>5 DEF GenerateTokenPair, WithPair, TypeOK
  <2>5. PICK S \in ScopeSets : NewPair(request[c].user, S, 0)
    BY <1>5 DEF GenerateTokenPair
  <2>6. /\ issued' \in 0 .. MaxPairs /\ owner' \in [Pairs -> Users]
        /\ scopes' \in [Pairs -> ScopeSets \cup {{}}] /\ parent' \in [Pairs -> 0 .. MaxPairs]
    BY <2>1, <2>2, <2>5, NewPairType
  <2> QED
    BY <1>5, <2>3, <2>4, <2>6 DEF GenerateTokenPair, TypeOK
<1>6. ASSUME NEW c \in Clients, RefreshTokenPair(c) PROVE TypeOK'
  <2>1. request[c].user \in Users /\ request[c].token \in Tokens \cup {NoToken}
    BY <1>6, RequestParts DEF RefreshTokenPair, Work
  <2>2. request' \in [Clients -> Requests]
    BY <1>6, EndType DEF RefreshTokenPair
  <2> DEFINE t == request[c].token
  <2>3. CASE MayRotate(t)
    <3>1. t \in Tokens
      BY <2>1, <2>3 DEF MayRotate, NoToken
    <3>2. t[1] \in 0 .. MaxPairs /\ scopes[t[1]] \in ScopeSets \cup {{}}
      BY <3>1, ConstantsAssumption DEF TypeOK, Tokens, Pairs
    <3>3. /\ NewPair(request[c].user, scopes[t[1]], t[1])
          /\ rows' = WithPair([rows EXCEPT ![t] = "revoked"], issued + 1)
          /\ revoked' = revoked \cup {t}
      BY <1>6, <2>3 DEF RefreshTokenPair
    <3>4. /\ issued' \in 0 .. MaxPairs /\ owner' \in [Pairs -> Users]
          /\ scopes' \in [Pairs -> ScopeSets \cup {{}}] /\ parent' \in [Pairs -> 0 .. MaxPairs]
      BY <2>1, <3>2, <3>3, NewPairType
    <3>5. rows' \in [Tokens -> {"none", "live", "revoked", "deleted"}]
      BY <3>3 DEF WithPair, TypeOK
    <3> QED
      BY <1>6, <2>2, <3>1, <3>3, <3>4, <3>5 DEF RefreshTokenPair, TypeOK
  <2>4. CASE ~MayRotate(t)
    BY <1>6, <2>2, <2>4 DEF RefreshTokenPair, TypeOK
  <2> QED
    BY <2>3, <2>4
<1>7. ASSUME NEW c \in Clients, RevokeToken(c) PROVE TypeOK'
  <2>1. request' \in [Clients -> Requests]
    BY <1>7, EndType DEF RevokeToken
  <2>2. PICK jti \in Tokens : Revoke(ByID(jti, request[c].user))
    BY <1>7 DEF RevokeToken
  <2>3. /\ rows' \in [Tokens -> {"none", "live", "revoked", "deleted"}]
        /\ revoked' \subseteq Tokens
    BY <2>2 DEF Revoke, ByID, TypeOK
  <2> QED
    BY <1>7, <2>1, <2>3 DEF RevokeToken, TypeOK
<1>8. ASSUME NEW c \in Clients, Evict(c) PROVE TypeOK'
  <2>1. /\ request[c].server \in Servers /\ request[c].user \in Users
        /\ request[c].word \in Passwords
    BY <1>8, RequestParts DEF Evict
  <2>2. [pc |-> "revoke", user |-> request[c].user, word |-> request[c].word] \in Requests
    BY <2>1 DEF Requests
  <2>3. request' \in [Clients -> Requests]
    BY <1>8, <2>2, GoType, EndType DEF Evict
  <2>4. /\ logins' \in [Servers -> SUBSET (Users \X Passwords)]
        /\ evaded' \subseteq Servers \X Users \X Passwords
    BY <1>8, <2>1 DEF Evict, TypeOK
  <2> QED
    BY <1>8, <2>3, <2>4 DEF Evict, TypeOK
<1>9. ASSUME NEW c \in Clients, RevokeByUser(c) PROVE TypeOK'
  <2>1. request[c] \in Requests /\ request[c].pc = "revoke"
    BY <1>9, RequestParts DEF RevokeByUser
  <2>2. [request[c] EXCEPT !.pc = "update"] \in Requests
    BY <2>1 DEF Requests
  <2>3. request' \in [Clients -> Requests]
    BY <1>9, <2>2, GoType, EndType DEF RevokeByUser
  <2>4. /\ rows' \in [Tokens -> {"none", "live", "revoked", "deleted"}]
        /\ revoked' \subseteq Tokens
        /\ cut' \in [Users -> 0 .. MaxPairs]
    BY <1>9 DEF RevokeByUser, Revoke, ByUser, TypeOK
  <2> QED
    BY <1>9, <2>3, <2>4 DEF RevokeByUser, TypeOK
<1>10. ASSUME NEW c \in Clients, UpdatePassword(c) PROVE TypeOK'
  <2>1. request[c].user \in Users
    BY <1>10, RequestParts DEF UpdatePassword
  <2>2. request' \in [Clients -> Requests]
    BY <1>10, EndType DEF UpdatePassword
  <2>3. password' \in [Users -> Passwords]
    BY <1>10, <2>1, ConstantsAssumption DEF UpdatePassword, TypeOK, Passwords
  <2>4. evaded' \subseteq Servers \X Users \X Passwords
    BY <1>10, <2>1 DEF UpdatePassword, TypeOK
  <2> QED
    BY <1>10, <2>2, <2>3, <2>4 DEF UpdatePassword, TypeOK
<1>11. ASSUME NEW c \in Clients, Stop(c) PROVE TypeOK'
  <2>1. request' \in [Clients -> Requests]
    BY <1>11, EndType DEF Stop
  <2> QED
    BY <1>11, <2>1 DEF Stop, TypeOK
<1>12. ASSUME NEW t \in Tokens, Expire(t) PROVE TypeOK'
  BY <1>12 DEF Expire, TypeOK
<1>13. ASSUME Cleanup PROVE TypeOK'
  BY <1>13 DEF Cleanup, TypeOK
<1>14. ASSUME NEW s \in Servers, Forget(s) PROVE TypeOK'
  BY <1>14 DEF Forget, TypeOK
<1>15. CASE UNCHANGED vars
  BY <1>15 DEF vars, TypeOK
<1> QED
  BY <1>1, <1>2, <1>3, <1>4, <1>5, <1>6, <1>7, <1>8, <1>9, <1>10, <1>11, <1>12, <1>13, <1>14,
     <1>15 DEF Next, Step

(* Every variable keeps to its type.                                       *)
THEOREM TypeCorrect == Spec => []TypeOK
BY InitType, NextType, PTL DEF Spec

-----------------------------------------------------------------------------
(* The inductive invariant.  The table of tokens says which pairs were     *)
(* issued; a row that is gone is of an expired token, and no token that    *)
(* was ever revoked has a live row.                                        *)
Recorded ==
  \A t \in Tokens :
    /\ rows[t] = "none" <=> t[1] > issued
    /\ rows[t] = "deleted" => t \in expired
    /\ t \in revoked => rows[t] \in {"revoked", "deleted"}

(* A pair that was refreshed has a refresh token that was revoked.         *)
Linked == \A p \in Issued : parent[p] # 0 => Refresh(parent[p]) \in revoked

(* What was issued before the last RevokeByUser of its user cannot be used,*)
(* and nothing after it is linked to anything before it.                   *)
CutOff ==
  /\ \A u \in Users : cut[u] <= issued
  /\ \A p \in Issued :
       /\ p <= cut[owner[p]] =>
            \A t \in {Access(p), Refresh(p)} : rows[t] = "revoked" \/ t \in expired
       /\ parent[p] # 0 /\ p > cut[owner[p]] => parent[p] > cut[owner[p]]

(* A request that is to refresh has a token of its user.                   *)
GrantOK(r) ==
  /\ r.pc \in {"read", "keep"} => r.job # "refresh"
  /\ r.pc = "work" /\ r.job = "refresh" =>
       r.token \in Tokens /\ r.token[1] \in Issued /\ owner[r.token[1]] = r.user

Granted == \A c \in Clients : GrantOK(request[c])

Inv == TypeOK /\ Recorded /\ Linked /\ CutOff /\ Granted /\ OneSuccessor

-----------------------------------------------------------------------------
LEMMA InitInv == Init => Inv
<1> SUFFICES ASSUME Init PROVE Inv
  OBVIOUS
<1>1. TypeOK
  BY InitType
<1>2. Issued = {}
  BY DEF Init, Issued
<1>3. Recorded
  BY DEF Init, Recorded, Tokens, Pairs
<1>4. Linked /\ OneSuccessor
  BY <1>2 DEF Linked, OneSuccessor
<1>5. CutOff
  BY <1>2 DEF Init, CutOff
<1>6. Granted
  BY DEF Init, Granted, GrantOK, Idle
<1> QED
  BY <1>1, <1>3, <1>4, <1>5, <1>6 DEF Inv

(* Most steps leave the tokens alone ...                                   *)
LEMMA Quiet ==
  ASSUME Inv, TypeOK', Granted', UNCHANGED <<rows, expired, issued, owner, parent, revoked, cut>>
  PROVE  Inv'
<1>1. Issued' = Issued
  BY DEF Issued
<1>2. Recorded'
  BY DEF Inv, Recorded
<1>3. Linked' /\ OneSuccessor'
  BY <1>1 DEF Inv, Linked, OneSuccessor
<1>4. CutOff'
  BY <1>1 DEF Inv, CutOff
<1> QED
  BY <1>2, <1>3, <1>4 DEF Inv

(* ... and what a request was granted stays, whatever is issued meanwhile. *)
LEMMA GoGranted ==
  ASSUME TypeOK, TypeOK', Granted, NEW c \in Clients, NEW r, GrantOK(r), Go(c, r),
         issued' >= issued, \A p \in Issued : owner'[p] = owner[p]
  PROVE  Granted'
<1>1. \A p \in Issued : p \in Issued'
  BY DEF Issued, TypeOK
<1>2. ASSUME NEW q, GrantOK(q) PROVE GrantOK(q)'
  BY <1>1, <1>2 DEF GrantOK
<1>3. \A x \in Clients : request'[x] = r \/ request'[x] = request[x]
  BY DEF Go, TypeOK
<1> QED
  BY <1>2, <1>3 DEF Granted

LEMMA EndGranted ==
  ASSUME TypeOK, TypeOK', Granted, NEW c \in Clients, End(c),
         issued' >= issued, \A p \in Issued : owner'[p] = owner[p]
  PROVE  Granted'
<1>1. GrantOK(Idle)
  BY DEF GrantOK, Idle
<1> QED
  BY <1>1, GoGranted DEF End

LEMMA LetInGranted ==
  ASSUME TypeOK, TypeOK', Granted, NEW c \in Clients, NEW s, NEW u, NEW w, NEW job,
         job # "refresh", LetIn(c, s, u, w, job), UNCHANGED <<issued, owner>>
  PROVE  Granted'
<1>1. GrantOK(changePassword(s, u, w))
  BY DEF GrantOK, changePassword
<1>2. GrantOK([pc |-> "work", user |-> u, token |-> NoToken, job |-> job])
  BY DEF GrantOK
<1>3. issued' >= issued
  BY DEF TypeOK
<1> QED
  BY <1>1, <1>2, <1>3, GoGranted DEF LetIn

(* The step that issues a pair.                                            *)
LEMMA NewPairEffect ==
  ASSUME TypeOK, NEW u \in Users, NEW S, NEW old \in 0 .. MaxPairs, NewPair(u, S, old)
  PROVE  /\ issued' = issued + 1 /\ issued + 1 \in Pairs /\ issued + 1 \notin Issued
         /\ Issued' = Issued \cup {issued + 1}
         /\ owner'[issued + 1] = u /\ parent'[issued + 1] = old
         /\ \A p \in Issued : owner'[p] = owner[p] /\ parent'[p] = parent[p]
<1>1. issued' = issued + 1 /\ issued + 1 \in Pairs /\ issued + 1 \notin Issued
  BY ConstantsAssumption DEF NewPair, TypeOK, Pairs, Issued
<1>2. Issued' = Issued \cup {issued + 1}
  BY <1>1 DEF Issued, TypeOK
<1> QED
  BY <1>1, <1>2 DEF NewPair, TypeOK

-----------------------------------------------------------------------------
(* Pairs and their tokens.                                                 *)
LEMMA TokenFacts ==
  /\ \A t \in Tokens : t[1] \in Pairs /\ (t = Access(t[1]) \/ t = Refresh(t[1]))
  /\ \A p \in Pairs : /\ Access(p) \in Tokens /\ Access(p)[1] = p
                      /\ Refresh(p) \in Tokens /\ Refresh(p)[1] = p
BY DEF Tokens, Access, Refresh

LEMMA IssuedFacts ==
  ASSUME TypeOK
  PROVE  \A p \in Issued : p \in Pairs /\ p <= issued /\ p \in Nat \ {0} /\ owner[p] \in Users
<1>1. \A p \in Issued : p \in Pairs /\ p <= issued /\ p \in Nat \ {0}
  BY ConstantsAssumption DEF TypeOK, Issued, Pairs
<1> QED
  BY <1>1 DEF TypeOK

LEMMA RowsOfPair ==
  ASSUME NEW p \in Pairs,
         NEW table \in [Tokens -> {"none", "live", "revoked", "deleted"}]
  PROVE  \A t \in Tokens :
           WithPair(table, p)[t] = IF t[1] = p THEN "live" ELSE table[t]
<1> SUFFICES ASSUME NEW t \in Tokens
             PROVE  WithPair(table, p)[t] = IF t[1] = p THEN "live" ELSE table[t]
  OBVIOUS
<1>1. t = Access(t[1]) \/ t = Refresh(t[1])
  BY TokenFacts
<1>2. Access(p) \in Tokens /\ Refresh(p) \in Tokens /\ Access(p)[1] = p /\ Refresh(p)[1] = p
  BY TokenFacts
<1> HIDE DEF Tokens
<1>3. WithPair(table, p)[t] = IF t \in {Access(p), Refresh(p)} THEN "live" ELSE table[t]
  BY <1>2 DEF WithPair
<1> QED
  BY <1>1, <1>2, <1>3

(* Issuing a pair, for a login or in place of a live refresh token.        *)
LEMMA GenerateInv ==
  ASSUME Inv, TypeOK', NEW c \in Clients, GenerateTokenPair(c)
  PROVE  Inv'
<1> DEFINE n == issued + 1
<1> DEFINE u == request[c].user
<1>1. u \in Users
  BY RequestParts DEF GenerateTokenPair, Work, Inv
<1>2. /\ issued' = n /\ n \in Pairs /\ n \notin Issued
      /\ Issued' = Issued \cup {n}
      /\ owner'[n] = u /\ parent'[n] = 0
      /\ \A p \in Issued : owner'[p] = owner[p] /\ parent'[p] = parent[p]
  <2>1. 0 \in 0 .. MaxPairs
    BY ConstantsAssumption
  <2>2. PICK S \in ScopeSets : NewPair(u, S, 0)
    BY DEF GenerateTokenPair
  <2> QED
    BY <1>1, <2>1, <2>2, NewPairEffect DEF Inv
<1>3. /\ rows' = WithPair(rows, n)
      /\ UNCHANGED <<expired, revoked, cut>>
  BY DEF GenerateTokenPair
<1>4. Granted'
  BY <1>2, EndGranted DEF GenerateTokenPair, Inv, TypeOK
<1> HIDE DEF n, u
<1>5. \A t \in Tokens : rows'[t] = IF t[1] = n THEN "live" ELSE rows[t]
  <2>1. rows \in [Tokens -> {"none", "live", "revoked", "deleted"}]
    BY DEF Inv, TypeOK
  <2> QED
    BY <1>2, <1>3, <2>1, RowsOfPair
<1>6. issued \in Nat /\ n = issued + 1
  BY DEF n, Inv, TypeOK
<1>7. Recorded'
  BY <1>2, <1>3, <1>5, <1>6 DEF Inv, Recorded, Tokens, Pairs
<1>8. Linked'
  BY <1>2, <1>3 DEF Inv, Linked
<1>9. CutOff'
  <2>1. \A x \in Users : cut[x] \in Nat /\ cut[x] < n
    BY <1>6 DEF Inv, CutOff, TypeOK
  <2>2. \A p \in Issued : p # n /\ p \in Pairs /\ p \in Nat /\ owner[p] \in Users
    BY <1>2, IssuedFacts DEF Inv
  <2>3. ASSUME NEW p \in Issued, NEW t \in {Access(p), Refresh(p)} PROVE rows'[t] = rows[t]
    BY <1>5, <2>2, <2>3, TokenFacts
  <2> QED
    BY <1>1, <1>2, <1>3, <1>6, <2>1, <2>2, <2>3 DEF Inv, CutOff
<1>10. OneSuccessor'
  BY <1>2 DEF Inv, OneSuccessor
<1> QED
  BY <1>4, <1>7, <1>8, <1>9, <1>10 DEF Inv

LEMMA RefreshInv ==
  ASSUME Inv, TypeOK', NEW c \in Clients, RefreshTokenPair(c)
  PROVE  Inv'
<1> DEFINE n == issued + 1
<1> DEFINE u == request[c].user
<1> DEFINE t == request[c].token
<1>1. u \in Users /\ t \in Tokens /\ t[1] \in Issued /\ owner[t[1]] = u
  BY RequestParts DEF RefreshTokenPair, Work, Inv, Granted, GrantOK
<1>2. CASE ~MayRotate(t)
  <2>1. Granted'
    BY <1>2, EndGranted DEF RefreshTokenPair, Inv, TypeOK
  <2> QED
    BY <1>2, <2>1, Quiet DEF RefreshTokenPair
<1>3. CASE MayRotate(t)
  <2>1. /\ NewPair(u, scopes[t[1]], t[1])
        /\ rows' = WithPair([rows EXCEPT ![t] = "revoked"], n)
        /\ revoked' = revoked \cup {t}
        /\ UNCHANGED <<expired, cut>>
    BY <1>3 DEF RefreshTokenPair
  <2>2. t[1] \in 0 .. MaxPairs /\ t[1] # 0 /\ t[1] \in Pairs
    BY <1>1, ConstantsAssumption DEF Tokens, Pairs
  <2>3. /\ issued' = n /\ n \in Pairs /\ n \notin Issued
        /\ Issued' = Issued \cup {n}
        /\ owner'[n] = u /\ parent'[n] = t[1]
        /\ \A p \in Issued : owner'[p] = owner[p] /\ parent'[p] = parent[p]
    BY <1>1, <2>1, <2>2, NewPairEffect DEF Inv
  <2>4. Granted'
    BY <2>3, EndGranted DEF RefreshTokenPair, Inv, TypeOK
  <2>5. t = Refresh(t[1]) /\ rows[t] = "live" /\ t \notin expired /\ t \notin revoked
    BY <1>1, <1>3 DEF MayRotate, Tokens, Refresh, Inv, Recorded
  <2> HIDE DEF n, u, t
  <2>6. \A x \in Tokens : rows'[x] = IF x[1] = n THEN "live"
                                     ELSE IF x = t THEN "revoked" ELSE rows[x]
    <3> DEFINE table == [rows EXCEPT ![t] = "revoked"]
    <3>1. table \in [Tokens -> {"none", "live", "revoked", "deleted"}]
      BY DEF Inv, TypeOK
    <3>2. \A x \in Tokens : table[x] = IF x = t THEN "revoked" ELSE rows[x]
      BY DEF Inv, TypeOK
    <3>3. rows' = WithPair(table, n)
      BY <2>1
    <3> HIDE DEF table
    <3> QED
      BY <2>3, <3>1, <3>2, <3>3, RowsOfPair
  <2>7. issued \in Nat /\ n = issued + 1
    BY DEF n, Inv, TypeOK
  <2>8. Recorded'
    <3>1. t[1] # n /\ t[1] <= issued
      BY <1>1, <2>3, IssuedFacts DEF Inv
    <3>2. \A x \in Tokens : x[1] \in Nat
      BY TokenFacts DEF Pairs
    <3> QED
      <4> SUFFICES ASSUME NEW x \in Tokens
                   PROVE  /\ rows'[x] = "none" <=> x[1] > issued'
                          /\ rows'[x] = "deleted" => x \in expired'
                          /\ x \in revoked' => rows'[x] \in {"revoked", "deleted"}
        BY DEF Recorded
      <4>1. /\ rows[x] = "none" <=> x[1] > issued
            /\ rows[x] = "deleted" => x \in expired
            /\ x \in revoked => rows[x] \in {"revoked", "deleted"}
        BY DEF Inv, Recorded
      <4>2. CASE x[1] = n
        <5>1. rows[x] = "none" /\ x # t
          BY <2>7, <3>1, <4>1, <4>2
        <5>2. rows'[x] = "live" /\ ~(x[1] > issued')
          BY <2>3, <2>6, <2>7, <4>2
        <5>3. x \notin revoked'
          BY <2>1, <4>1, <5>1
        <5> QED
          BY <5>2, <5>3
      <4>3. CASE x[1] # n /\ x = t
        <5>1. rows'[x] = "revoked"
          BY <2>6, <4>3
        <5>2. ~(x[1] > issued')
          BY <2>3, <2>7, <3>1, <3>2, <4>3
        <5> QED
          BY <5>1, <5>2
      <4>4. CASE x[1] # n /\ x # t
        <5>1. rows'[x] = rows[x]
          BY <2>6, <4>4
        <5>2. x[1] > issued' <=> x[1] > issued
          BY <2>3, <2>7, <3>2, <4>4
        <5>3. x \in revoked' <=> x \in revoked
          BY <2>1, <4>4
        <5> QED
          BY <2>1, <4>1, <5>1, <5>2, <5>3
      <4> QED
        BY <4>2, <4>3, <4>4
  <2>9. Linked'
    BY <2>1, <2>3, <2>5 DEF Inv, Linked
  <2>10. CutOff'
    <3>1. \A x \in Users : cut[x] \in Nat /\ cut[x] < n
      BY <2>7 DEF Inv, CutOff, TypeOK
    <3>2. \A p \in Issued : p # n /\ p \in Pairs /\ p \in Nat /\ owner[p] \in Users
      BY <2>3, IssuedFacts DEF Inv
    <3>3. ASSUME NEW p \in Issued, NEW x \in {Access(p), Refresh(p)}
          PROVE  rows'[x] = rows[x] \/ rows'[x] = "revoked"
      BY <2>6, <3>2, <3>3, TokenFacts
    <3>4. ~(t[1] <= cut[u])
      BY <1>1, <2>5 DEF Inv, CutOff
    <3>5. t[1] > cut[u]
      BY <1>1, <2>2, <3>1, <3>4 DEF Pairs
    <3>6. \A x \in Users : cut'[x] <= issued'
      BY <2>1, <2>3, <2>7, <3>1
    <3>7. ASSUME NEW p \in Issued', p <= cut'[owner'[p]],
                 NEW x \in {Access(p), Refresh(p)}
          PROVE  rows'[x] = "revoked" \/ x \in expired'
      <4>1. p # n
        BY <1>1, <2>1, <2>3, <2>7, <3>1, <3>7
      <4>2. p \in Issued /\ owner'[p] = owner[p] /\ p <= cut[owner[p]]
        BY <2>1, <2>3, <3>7, <4>1
      <4>3. rows[x] = "revoked" \/ x \in expired
        BY <3>7, <4>2 DEF Inv, CutOff
      <4> QED
        BY <2>1, <3>3, <3>7, <4>2, <4>3
    <3>8. ASSUME NEW p \in Issued', parent'[p] # 0, p > cut'[owner'[p]]
          PROVE  parent'[p] > cut'[owner'[p]]
      <4>1. CASE p = n
        BY <1>1, <2>1, <2>3, <3>5, <4>1
      <4>2. CASE p \in Issued
        BY <2>1, <2>3, <3>8, <4>2 DEF Inv, CutOff
      <4> QED
        BY <2>3, <4>1, <4>2
    <3> QED
      BY <3>6, <3>7, <3>8 DEF CutOff
  <2>11. OneSuccessor'
    <3>1. \A p \in Issued : parent[p] # t[1]
      BY <2>2, <2>5 DEF Inv, Linked
    <3> QED
      BY <2>3, <3>1 DEF Inv, OneSuccessor
  <2> QED
    BY <2>4, <2>8, <2>9, <2>10, <2>11 DEF Inv
<1> QED
  BY <1>2, <1>3

(* Revoking tokens whose rows are live.                                    *)
LEMMA RevokeInv ==
  ASSUME Inv, TypeOK', Granted', NEW T \in SUBSET Tokens, \A t \in T : rows[t] = "live",
         Revoke(T), UNCHANGED <<expired, issued, owner, parent, cut>>
  PROVE  Inv'
<1>1. Issued' = Issued
  BY DEF Issued
<1>2. \A t \in Tokens : rows'[t] = IF t \in T THEN "revoked" ELSE rows[t]
  BY DEF Revoke
<1>3. Recorded'
  BY <1>2 DEF Inv, Recorded, Revoke
<1>4. Linked' /\ OneSuccessor'
  BY <1>1 DEF Inv, Linked, OneSuccessor, Revoke
<1>5. CutOff'
  <2>1. \A p \in Issued : Access(p) \in Tokens /\ Refresh(p) \in Tokens
    BY IssuedFacts, TokenFacts DEF Inv
  <2> QED
    BY <1>1, <1>2, <2>1 DEF Inv, CutOff
<1> QED
  BY <1>3, <1>4, <1>5 DEF Inv

(* Every step keeps the invariant.                                         *)
LEMMA NextInv == Inv /\ [Next]_vars => Inv'
<1> SUFFICES ASSUME Inv, [Next]_vars PROVE Inv'
  OBVIOUS
<1>1. TypeOK /\ TypeOK' /\ Granted
  BY NextType DEF Inv
<1>2. issued >= issued
  BY DEF Inv, TypeOK
<1>3. ASSUME NEW c \in Clients, NEW s \in Servers, NEW u \in Users, NEW w \in Passwords,
             NEW job \in Jobs, Login(c, s, u, w, job)
      PROVE  Inv'
  <2>1. job # "refresh"
    BY <1>3 DEF Login, Permitted, HasScope, ScopesOf
  <2>2. GrantOK([pc |-> "read", server |-> s, user |-> u, word |-> w, job |-> job])
    BY <2>1 DEF GrantOK
  <2>3. Granted'
    BY <1>1, <1>2, <1>3, <2>1, <2>2, GoGranted, LetInGranted DEF Login, tokenVars
  <2> QED
    BY <1>1, <1>3, <2>3, Quiet DEF Login, tokenVars
<1>4. ASSUME NEW c \in Clients, NEW t \in Tokens, NEW job \in Jobs, ShowToken(c, t, job)
      PROVE  Inv'
  <2>1. GrantOK([pc |-> "work", user |-> owner[t[1]], job |-> job,
                 token |-> IF job = "refresh" THEN t ELSE NoToken])
    BY <1>4 DEF ShowToken, Accepted, GrantOK
  <2>2. Granted'
    BY <1>1, <1>2, <1>4, <2>1, GoGranted DEF ShowToken, tokenVars
  <2> QED
    BY <1>1, <1>4, <2>2, Quiet DEF ShowToken, tokenVars
<1>5. ASSUME NEW c \in Clients, ReadUser(c) PROVE Inv'
  <2>1. GrantOK([request[c] EXCEPT !.pc = "keep"])
    <3>1. request[c] \in Requests /\ request[c].pc = "read" /\ request[c].job # "refresh"
      BY <1>1, <1>5, RequestParts DEF ReadUser, Granted, GrantOK
    <3> QED
      BY <3>1 DEF GrantOK, Requests
  <2>2. Granted'
    BY <1>1, <1>2, <1>5, <2>1, GoGranted, EndGranted DEF ReadUser, tokenVars
  <2> QED
    BY <1>1, <1>5, <2>2, Quiet DEF ReadUser, tokenVars
<1>6. ASSUME NEW c \in Clients, Keep(c) PROVE Inv'
  <2>1. request[c].job # "refresh"
    BY <1>1, <1>6 DEF Keep, Granted, GrantOK
  <2>2. Granted'
    BY <1>1, <1>6, <2>1, LetInGranted DEF Keep, tokenVars
  <2> QED
    BY <1>1, <1>6, <2>2, Quiet DEF Keep, tokenVars
<1>7. ASSUME NEW c \in Clients, RevokeToken(c) PROVE Inv'
  <2>1. Granted'
    BY <1>1, <1>2, <1>7, EndGranted DEF RevokeToken
  <2>2. PICK jti \in Tokens : Revoke(ByID(jti, request[c].user))
    BY <1>7 DEF RevokeToken
  <2>3. /\ ByID(jti, request[c].user) \in SUBSET Tokens
        /\ \A t \in ByID(jti, request[c].user) : rows[t] = "live"
    BY DEF ByID
  <2> QED
    BY <1>1, <1>7, <2>1, <2>2, <2>3, RevokeInv DEF RevokeToken
<1>8. ASSUME NEW c \in Clients, Evict(c) PROVE Inv'
  <2>1. GrantOK([pc |-> "revoke", user |-> request[c].user, word |-> request[c].word])
    BY DEF GrantOK
  <2>2. Granted'
    BY <1>1, <1>2, <1>8, <2>1, GoGranted, EndGranted DEF Evict, tokenVars
  <2> QED
    BY <1>1, <1>8, <2>2, Quiet DEF Evict, tokenVars
<1>9. ASSUME NEW c \in Clients, RevokeByUser(c) PROVE Inv'
  <2> DEFINE u == request[c].user
  <2>1. GrantOK([request[c] EXCEPT !.pc = "update"])
    <3>1. request[c] \in Requests /\ request[c].pc = "revoke"
      BY <1>1, <1>9, RequestParts DEF RevokeByUser
    <3> QED
      BY <3>1 DEF GrantOK, Requests
  <2>2. Granted'
    BY <1>1, <1>2, <1>9, <2>1, GoGranted, EndGranted DEF RevokeByUser
  <2>3. CASE UNCHANGED <<rows, revoked, cut>>
    BY <1>1, <1>9, <2>2, <2>3, Quiet DEF RevokeByUser
  <2>4. CASE Revoke(ByUser(u)) /\ cut' = [cut EXCEPT ![u] = issued]
    <3>1. UNCHANGED <<expired, issued, owner, parent>> /\ Issued' = Issued
      BY <1>9 DEF RevokeByUser, Issued
    <3>2. \A t \in Tokens : rows'[t] = IF t \in ByUser(u) THEN "revoked" ELSE rows[t]
      BY <2>4 DEF Revoke
    <3>3. \A t \in Tokens : t \in ByUser(u) => rows[t] = "live"
      BY DEF ByUser
    <3>4. Recorded'
      BY <2>4, <3>1, <3>2, <3>3 DEF Inv, Recorded, Revoke
    <3>5. Linked' /\ OneSuccessor'
      BY <2>4, <3>1 DEF Inv, Linked, OneSuccessor, Revoke
    <3>6. \A x \in Users : cut'[x] = IF x = u THEN issued ELSE cut[x]
      BY <2>4 DEF Inv, TypeOK
    <3>7. CutOff'
      <4>1. \A x \in Users : cut'[x] <= issued'
        BY <1>2, <3>1, <3>6 DEF Inv, CutOff
      <4>2. ASSUME NEW p \in Issued, p <= cut'[owner[p]], NEW t \in {Access(p), Refresh(p)}
            PROVE  rows'[t] = "revoked" \/ t \in expired
        <5>1. /\ t \in Tokens /\ t[1] = p /\ p <= issued /\ owner[p] \in Users
              /\ p \in Nat /\ issued \in Nat
          BY <4>2, IssuedFacts, TokenFacts DEF Inv, TypeOK
        <5>2. CASE owner[p] = u
          <6>1. rows[t] # "none" /\ (rows[t] = "deleted" => t \in expired)
            BY <5>1 DEF Inv, Recorded
          <6>2. rows[t] = "live" /\ t \notin expired => t \in ByUser(u)
            BY <5>1, <5>2 DEF ByUser
          <6>3. rows[t] \in {"none", "live", "revoked", "deleted"}
            BY <5>1 DEF Inv, TypeOK
          <6> QED
            BY <3>2, <5>1, <6>1, <6>2, <6>3
        <5>3. CASE owner[p] # u
          BY <3>2, <3>6, <4>2, <5>1, <5>3 DEF Inv, CutOff
        <5> QED
          BY <5>2, <5>3
      <4>3. ASSUME NEW p \in Issued, parent[p] # 0, p > cut'[owner[p]]
            PROVE  parent[p] > cut'[owner[p]]
        BY <3>6, <4>3, IssuedFacts DEF Inv, CutOff, TypeOK
      <4> QED
        BY <3>1, <4>1, <4>2, <4>3 DEF CutOff
    <3> QED
      BY <1>1, <2>2, <3>4, <3>5, <3>7 DEF Inv
  <2> QED
    BY <1>9, <2>3, <2>4 DEF RevokeByUser
<1>10. ASSUME NEW c \in Clients, UpdatePassword(c) PROVE Inv'
  <2>1. Granted'
    BY <1>1, <1>2, <1>10, EndGranted DEF UpdatePassword, tokenVars
  <2> QED
    BY <1>1, <1>10, <2>1, Quiet DEF UpdatePassword, tokenVars
<1>11. ASSUME NEW c \in Clients, Stop(c) PROVE Inv'
  <2>1. Granted'
    BY <1>1, <1>2, <1>11, EndGranted DEF Stop, tokenVars
  <2> QED
    BY <1>1, <1>11, <2>1, Quiet DEF Stop, tokenVars
<1>12. ASSUME NEW t \in Tokens, Expire(t) PROVE Inv'
  <2>1. /\ expired' = expired \cup {t} /\ Issued' = Issued
        /\ UNCHANGED <<rows, issued, owner, parent, request, revoked, cut>>
    BY <1>12 DEF Expire, Issued
  <2>2. Recorded' /\ Linked' /\ OneSuccessor' /\ Granted'
    BY <2>1 DEF Inv, Recorded, Linked, OneSuccessor, Granted, GrantOK
  <2>3. CutOff'
    BY <2>1 DEF Inv, CutOff
  <2> QED
    BY <1>1, <2>2, <2>3 DEF Inv
<1>13. ASSUME Cleanup PROVE Inv'
  <2>1. /\ UNCHANGED <<expired, issued, owner, parent, request, revoked, cut>>
        /\ Issued' = Issued
    BY <1>13 DEF Cleanup, Issued
  <2>2. \A t \in Tokens : \/ rows'[t] = rows[t]
                          \/ /\ t \in expired /\ rows'[t] = "deleted"
                             /\ rows[t] \in {"live", "revoked"}
    BY <1>13 DEF Cleanup
  <2>3. Recorded'
    BY <2>1, <2>2 DEF Inv, Recorded
  <2>4. Linked' /\ OneSuccessor' /\ Granted'
    BY <2>1 DEF Inv, Linked, OneSuccessor, Granted, GrantOK
  <2>5. CutOff'
    <3>1. ASSUME NEW p \in Issued, p <= cut[owner[p]], NEW t \in {Access(p), Refresh(p)}
          PROVE  rows'[t] = "revoked" \/ t \in expired
      <4>1. t \in Tokens
        BY <3>1, IssuedFacts, TokenFacts DEF Inv
      <4>2. rows[t] = "revoked" \/ t \in expired
        BY <3>1 DEF Inv, CutOff
      <4> QED
        BY <2>2, <4>1, <4>2
    <3> QED
      BY <2>1, <3>1 DEF Inv, CutOff
  <2> QED
    BY <1>1, <2>3, <2>4, <2>5 DEF Inv
<1>14. ASSUME NEW s \in Servers, Forget(s) PROVE Inv'
  <2>1. Granted'
    BY <1>1, <1>14 DEF Forget, tokenVars, Granted, GrantOK, Issued
  <2> QED
    BY <1>1, <1>14, <2>1, Quiet DEF Forget, tokenVars
<1>15. CASE UNCHANGED vars
  <2>1. Granted'
    BY <1>1, <1>15 DEF vars, tokenVars, Granted, GrantOK, Issued
  <2> QED
    BY <1>1, <1>15, <2>1, Quiet DEF vars, tokenVars
<1> QED
  BY <1>1, <1>3, <1>4, <1>5, <1>6, <1>7, <1>8, <1>9, <1>10, <1>11, <1>12, <1>13, <1>14, <1>15,
     GenerateInv, RefreshInv
  DEF Next, Step

LEMMA InvAlways == Spec => []Inv
BY InitInv, NextInv, PTL DEF Spec

-----------------------------------------------------------------------------
(* A refresh token yields one pair, however many requests rotate it at     *)
(* once: RotateRefreshToken looks at the row under its lock.               *)
THEOREM OneSuccessorAlways == Spec => []OneSuccessor
<1>1. Inv => OneSuccessor
  BY DEF Inv
<1> QED
  BY <1>1, InvAlways, PTL

(* A change of the password ends every chain of refreshes, although        *)
(* requests that were let in before it refresh or revoke meanwhile.        *)
THEOREM ChainsEndAlways == Spec => []ChainsEnd
<1>1. Inv => ChainsEnd
  <2> SUFFICES ASSUME Inv, NEW p \in Issued
               PROVE  /\ \A t \in {Access(p), Refresh(p)} : Accepted(t) => p > cut[owner[p]]
                      /\ parent[p] # 0 /\ p > cut[owner[p]] => parent[p] > cut[owner[p]]
    BY DEF ChainsEnd
  <2>1. p \in Nat /\ cut[owner[p]] \in Nat
    BY IssuedFacts DEF Inv, TypeOK
  <2>2. ASSUME NEW t \in {Access(p), Refresh(p)}, Accepted(t), p <= cut[owner[p]]
        PROVE  FALSE
    BY <2>2 DEF Accepted, IsRevoked, Inv, CutOff
  <2>3. parent[p] # 0 /\ p > cut[owner[p]] => parent[p] > cut[owner[p]]
    BY DEF Inv, CutOff
  <2> QED
    BY <2>1, <2>2, <2>3
<1> QED
  BY <1>1, InvAlways, PTL

(* What was revoked stays useless: a row that is deleted is of a token     *)
(* that expired, so its absence lets nothing in.                           *)
THEOREM RevokedStaysOutAlways == Spec => RevokedStaysOut
<1> DEFINE Out ==
      /\ \A t \in revoked, c \in Clients, job \in Jobs : ~ShowToken(c, t, job)
      /\ \A p \in Issued' \ Issued : Refresh(parent'[p]) \notin revoked
<1>1. ASSUME Inv, [Next]_vars PROVE Out
  <2>1. ASSUME NEW t \in revoked, NEW c \in Clients, NEW job \in Jobs, ShowToken(c, t, job)
        PROVE  FALSE
    BY <1>1, <2>1 DEF ShowToken, Accepted, IsRevoked, Inv, Recorded, TypeOK
  <2>2. ASSUME NEW p \in Issued' \ Issued PROVE Refresh(parent'[p]) \notin revoked
    <3>1. CASE \E c \in Clients : GenerateTokenPair(c)
      <4>1. PICK c \in Clients : GenerateTokenPair(c)
        BY <3>1
      <4>2. request[c].user \in Users /\ 0 \in 0 .. MaxPairs
        BY <1>1, <4>1, RequestParts, ConstantsAssumption DEF GenerateTokenPair, Work, Inv
      <4>3. PICK S \in ScopeSets : NewPair(request[c].user, S, 0)
        BY <4>1 DEF GenerateTokenPair
      <4>4. parent'[p] = 0
        BY <1>1, <2>2, <4>2, <4>3, NewPairEffect DEF Inv
      <4> QED
        BY <1>1, <4>4 DEF Refresh, Inv, TypeOK, Tokens, Pairs
    <3>2. CASE \E c \in Clients : RefreshTokenPair(c)
      <4>1. PICK c \in Clients : RefreshTokenPair(c)
        BY <3>2
      <4> DEFINE t == request[c].token
      <4>2. MayRotate(t) /\ NewPair(request[c].user, scopes[t[1]], t[1])
        BY <2>2, <4>1 DEF RefreshTokenPair, Issued
      <4>3. request[c].user \in Users /\ t \in Tokens
        BY <1>1, <4>1, RequestParts
           DEF RefreshTokenPair, Work, Inv, Granted, GrantOK
      <4>4. t[1] \in 0 .. MaxPairs
        BY <4>3, TokenFacts, ConstantsAssumption DEF Pairs
      <4>5. parent'[p] = t[1]
        BY <1>1, <2>2, <4>2, <4>3, <4>4, NewPairEffect DEF Inv
      <4>6. t = Refresh(t[1])
        BY <4>2, <4>3 DEF MayRotate, Tokens, Refresh
      <4> QED
        BY <1>1, <4>2, <4>3, <4>5, <4>6 DEF MayRotate, Inv, Recorded
    <3>3. CASE ~(\E c \in Clients : GenerateTokenPair(c) \/ RefreshTokenPair(c))
      <4>1. issued' = issued
        BY <1>1, <3>3
           DEF Next, Step, Login, ShowToken, ReadUser, Keep, RevokeToken, Evict, RevokeByUser,
               UpdatePassword, Stop, Expire, Cleanup, Forget, vars, tokenVars
      <4> QED
        BY <2>2, <4>1 DEF Issued
    <3> QED
      BY <3>1, <3>2, <3>3
  <2> QED
    BY <2>1, <2>2
<1>2. ASSUME Inv, [Next]_vars PROVE [Out]_vars
  BY <1>1, <1>2
<1> QED
  BY <1>2, InvAlways, PTL DEF Spec, RevokedStaysOut

-----------------------------------------------------------------------------
(* Cached logins.  From its eviction on, what a change could not evict of  *)
(* the password it is to replace is known to have evaded it.               *)
Reached ==
  \A c \in Clients :
    LET r == request[c] IN
    r.pc \in {"revoke", "update"} =>
      \A s \in Servers : Known(s, r.user, r.word) => <<s, r.user, r.word>> \in evaded

CacheInv == TypeOK /\ Reached /\ OldPasswordEvicted

LEMMA InitCache == Init => CacheInv
<1> SUFFICES ASSUME Init PROVE CacheInv
  OBVIOUS
<1>1. TypeOK
  BY InitType
<1> QED
  BY <1>1 DEF Init, CacheInv, Reached, OldPasswordEvicted, Idle

(* A request goes on whose state is not one of a change, or whose change   *)
(* is reached already.                                                     *)
LEMMA StillReached ==
  ASSUME CacheInv, TypeOK', NEW c \in Clients, UNCHANGED <<logins, evaded>>,
         \A x \in Clients \ {c} : request'[x] = request[x],
         \/ request'[c].pc \notin {"revoke", "update"}
         \/ /\ request[c].pc \in {"revoke", "update"}
            /\ request'[c].user = request[c].user /\ request'[c].word = request[c].word
  PROVE  Reached'
BY DEF CacheInv, Reached, Known

LEMMA NextCache == CacheInv /\ [Next]_vars => CacheInv'
<1> SUFFICES ASSUME CacheInv, [Next]_vars PROVE CacheInv'
  OBVIOUS
<1>1. TypeOK /\ TypeOK'
  BY NextType DEF CacheInv
<1>2. ASSUME UNCHANGED <<password, logins, evaded>> PROVE OldPasswordEvicted'
  BY <1>2 DEF CacheInv, OldPasswordEvicted
<1>3. ASSUME NEW c \in Clients, NEW r, Go(c, r)
      PROVE  request'[c] = r /\ \A x \in Clients \ {c} : request'[x] = request[x]
  BY <1>1, <1>3 DEF Go, TypeOK
<1>4. ASSUME NEW c \in Clients, End(c), UNCHANGED <<logins, evaded>> PROVE Reached'
  BY <1>1, <1>3, <1>4, StillReached DEF End, Idle
<1>5. ASSUME NEW c \in Clients, NEW s \in Servers, NEW u \in Users, NEW w \in Passwords,
             NEW job \in Jobs, Login(c, s, u, w, job)
      PROVE  CacheInv'
  <2>1. /\ request'[c].pc \in {"evict", "work", "read"}
        /\ \A x \in Clients \ {c} : request'[x] = request[x]
    BY <1>3, <1>5 DEF Login, LetIn, changePassword
  <2> QED
    BY <1>1, <1>2, <1>5, <2>1, StillReached DEF Login, CacheInv
<1>6. ASSUME NEW c \in Clients, NEW t \in Tokens, NEW job \in Jobs, ShowToken(c, t, job)
      PROVE  CacheInv'
  <2>1. request'[c].pc = "work" /\ \A x \in Clients \ {c} : request'[x] = request[x]
    BY <1>3, <1>6 DEF ShowToken
  <2> QED
    BY <1>1, <1>2, <1>6, <2>1, StillReached DEF ShowToken, CacheInv
<1>7. ASSUME NEW c \in Clients, ReadUser(c) PROVE CacheInv'
  <2>1. request[c] \in Requests /\ request[c].pc = "read"
    BY <1>1, <1>7, RequestParts DEF ReadUser
  <2>2. [request[c] EXCEPT !.pc = "keep"].pc = "keep"
    BY <2>1 DEF Requests
  <2>3. /\ request'[c].pc \in {"keep", "idle"}
        /\ \A x \in Clients \ {c} : request'[x] = request[x]
    <3>1. Go(c, [request[c] EXCEPT !.pc = "keep"]) \/ End(c)
      BY <1>7, Zenon DEF ReadUser
    <3>2. CASE Go(c, [request[c] EXCEPT !.pc = "keep"])
      <4>1. PICK k : k = [request[c] EXCEPT !.pc = "keep"]
        OBVIOUS
      <4>2. k.pc = "keep" /\ Go(c, k)
        BY <2>2, <3>2, <4>1, Zenon
      <4> HIDE DEF Go
      <4> QED
        BY <1>3, <4>2
    <3>3. CASE End(c)
      BY <1>3, <3>3 DEF End, Idle
    <3> QED
      BY <3>1, <3>2, <3>3
  <2> QED
    BY <1>1, <1>2, <1>7, <2>3, StillReached DEF ReadUser, CacheInv
<1>8. ASSUME NEW c \in Clients, Keep(c) PROVE CacheInv'
  <2> DEFINE r == request[c]
  <2> DEFINE late == r.word # password[r.user] \/ Changing(r.user, r.word)
  <2>1. /\ r.server \in Servers /\ r.user \in Users /\ r.word \in Passwords
        /\ r.job \in Jobs
    BY <1>1, <1>8, RequestParts DEF Keep
  <2>2. /\ logins' = [logins EXCEPT ![r.server] = @ \cup {<<r.user, r.word>>}]
        /\ evaded' = IF late THEN evaded \cup {<<r.server, r.user, r.word>>} ELSE evaded
        /\ password' = password
    BY <1>8 DEF Keep
  <2>3. /\ request'[c].pc \in {"evict", "work"}
        /\ \A x \in Clients \ {c} : request'[x] = request[x]
    BY <1>3, <1>8 DEF Keep, LetIn, changePassword
  <2>4. \A s \in Servers : logins'[s] = logins[s] \cup
          (IF s = r.server THEN {<<r.user, r.word>>} ELSE {})
    BY <1>1, <2>1, <2>2 DEF TypeOK
  <2>5. evaded \subseteq evaded'
    BY <2>2
  <2>6. OldPasswordEvicted'
    <3> SUFFICES ASSUME NEW s \in Servers, NEW e \in logins'[s], e[2] # password'[e[1]]
                 PROVE  <<s, e[1], e[2]>> \in evaded'
      BY DEF OldPasswordEvicted
    <3>1. CASE e \in logins[s]
      BY <2>2, <2>5, <3>1 DEF CacheInv, OldPasswordEvicted
    <3>2. CASE s = r.server /\ e = <<r.user, r.word>>
      BY <2>2, <3>2
    <3> QED
      BY <2>4, <3>1, <3>2
  <2>7. Reached'
    <3> SUFFICES ASSUME NEW x \in Clients, request'[x].pc \in {"revoke", "update"},
                        NEW s \in Servers,
                        <<request'[x].user, request'[x].word>> \in logins'[s]
                 PROVE  <<s, request'[x].user, request'[x].word>> \in evaded'
      BY DEF Reached, Known
    <3>1. x # c /\ request'[x] = request[x]
      BY <2>3
    <3>2. CASE <<request[x].user, request[x].word>> \in logins[s]
      BY <2>5, <3>1, <3>2 DEF CacheInv, Reached, Known
    <3>3. CASE s = r.server /\ <<request[x].user, request[x].word>> = <<r.user, r.word>>
      <4>1. Changing(r.user, r.word)
        BY <3>1, <3>3 DEF Changing
      <4> QED
        BY <2>2, <3>1, <3>3, <4>1
    <3> QED
      BY <2>4, <3>1, <3>2, <3>3
  <2> QED
    BY <1>1, <2>6, <2>7 DEF CacheInv
<1>9. ASSUME NEW c \in Clients, Evict(c) PROVE CacheInv'
  <2> DEFINE r == request[c]
  <2> DEFINE others == {x \in Servers \ {r.server} : <<r.user, r.word>> \in logins[x]}
  <2>1. r.server \in Servers /\ r.user \in Users /\ r.word \in Passwords
    BY <1>1, <1>9, RequestParts DEF Evict
  <2>2. CASE End(c) /\ UNCHANGED <<logins, evaded>>
    BY <1>1, <1>2, <1>4, <1>9, <2>2 DEF Evict, CacheInv
  <2>3. CASE /\ logins' = [logins EXCEPT ![r.server] = @ \ {<<r.user, r.word>>}]
             /\ evaded' = (evaded \ {<<r.server, r.user, r.word>>})
                            \cup {<<s, r.user, r.word>> : s \in others}
             /\ Go(c, [pc |-> "revoke", user |-> r.user, word |-> r.word])
    <3>1. password' = password
      BY <1>9 DEF Evict
    <3>2. \A s \in Servers : logins'[s] = IF s = r.server THEN logins[s] \ {<<r.user, r.word>>}
                                          ELSE logins[s]
      BY <1>1, <2>1, <2>3 DEF TypeOK
    <3>3. \A s \in Servers : \A u, w : <<s, u, w>> \in evaded /\ <<u, w>> \in logins'[s]
                                     => <<s, u, w>> \in evaded'
      BY <2>3, <3>2
    <3>4. \A s \in Servers, e \in Users \X Passwords : e = <<e[1], e[2]>>
      OBVIOUS
    <3>5. \A s \in Servers : logins'[s] \subseteq logins[s]
                               /\ logins[s] \subseteq Users \X Passwords
      BY <1>1, <3>2 DEF TypeOK
    <3>6. OldPasswordEvicted'
      BY <3>1, <3>3, <3>4, <3>5 DEF CacheInv, OldPasswordEvicted
    <3>7. \A s \in Servers : <<r.user, r.word>> \in logins'[s] => <<s, r.user, r.word>> \in evaded'
      BY <2>3, <3>2
    <3>8. Reached'
      <4> SUFFICES ASSUME NEW x \in Clients, request'[x].pc \in {"revoke", "update"},
                          NEW s \in Servers,
                          <<request'[x].user, request'[x].word>> \in logins'[s]
                   PROVE  <<s, request'[x].user, request'[x].word>> \in evaded'
        BY DEF Reached, Known
      <4>1. CASE x = c
        <5>1. request'[c] = [pc |-> "revoke", user |-> r.user, word |-> r.word]
          BY <1>3, <2>3
        <5> QED
          BY <3>7, <4>1, <5>1
      <4>2. CASE x # c
        <5>1. request'[x] = request[x]
          BY <1>3, <2>3, <4>2
        <5> QED
          BY <3>3, <3>5, <5>1 DEF CacheInv, Reached, Known
      <4> QED
        BY <4>1, <4>2
    <3> QED
      BY <1>1, <3>6, <3>8 DEF CacheInv
  <2> QED
    BY <1>9, <2>2, <2>3 DEF Evict
<1>10. ASSUME NEW c \in Clients, RevokeByUser(c) PROVE CacheInv'
  <2>1. request[c] \in Requests /\ request[c].pc = "revoke"
    BY <1>1, <1>10, RequestParts DEF RevokeByUser
  <2>2. /\ [request[c] EXCEPT !.pc = "update"].user = request[c].user
        /\ [request[c] EXCEPT !.pc = "update"].word = request[c].word
    BY <2>1 DEF Requests
  <2>3. CASE End(c)
    BY <1>1, <1>2, <1>4, <1>10, <2>3 DEF RevokeByUser, CacheInv
  <2>4. CASE Go(c, [request[c] EXCEPT !.pc = "update"])
    <3>1. UNCHANGED <<password, logins, evaded>>
      BY <1>10 DEF RevokeByUser
    <3> QED
      BY <1>1, <1>2, <1>3, <2>1, <2>2, <2>4, <3>1, StillReached DEF CacheInv
  <2> QED
    BY <1>10, <2>3, <2>4 DEF RevokeByUser
<1>11. ASSUME NEW c \in Clients, UpdatePassword(c) PROVE CacheInv'
  <2> DEFINE u == request[c].user
  <2>1. u \in Users /\ request[c].pc = "update"
    BY <1>1, <1>11, RequestParts DEF UpdatePassword
  <2>2. End(c) /\ logins' = logins /\ evaded \subseteq evaded'
    BY <1>11 DEF UpdatePassword
  <2>3. Reached'
    <3>1. request'[c] = Idle /\ \A x \in Clients \ {c} : request'[x] = request[x]
      BY <1>3, <2>2 DEF End
    <3> QED
      BY <2>2, <3>1 DEF CacheInv, Reached, Known, Idle
  <2>4. CASE UNCHANGED <<password, evaded>>
    BY <1>1, <1>2, <2>2, <2>3, <2>4 DEF CacheInv
  <2>5. CASE /\ password' = [password EXCEPT ![u] = @ + 1]
             /\ evaded' = IF request[c].word = password[u] THEN evaded
                          ELSE evaded \cup {<<s, u, password[u]>> :
                                              s \in {x \in Servers : Known(x, u, password[u])}}
    <3> SUFFICES ASSUME NEW s \in Servers, NEW e \in logins[s], e[2] # password'[e[1]]
                 PROVE  <<s, e[1], e[2]>> \in evaded'
      BY <1>1, <2>2, <2>3 DEF CacheInv, OldPasswordEvicted
    <3>1. e = <<e[1], e[2]>> /\ e[1] \in Users
      BY <1>1 DEF TypeOK
    <3>2. CASE e[2] # password[e[1]]
      BY <2>2, <3>2 DEF CacheInv, OldPasswordEvicted
    <3>3. CASE e[2] = password[e[1]]
      <4>1. e[1] = u
        BY <1>1, <2>1, <2>5, <3>1, <3>3 DEF TypeOK
      <4>2. CASE request[c].word = password[u]
        BY <2>1, <2>2, <3>1, <3>3, <4>1, <4>2 DEF CacheInv, Reached, Known
      <4>3. CASE request[c].word # password[u]
        BY <2>5, <3>1, <3>3, <4>1, <4>3 DEF Known
      <4> QED
        BY <4>2, <4>3
    <3> QED
      BY <3>2, <3>3
  <2> QED
    BY <1>11, <2>4, <2>5 DEF UpdatePassword
<1>12. ASSUME NEW c \in Clients,
              GenerateTokenPair(c) \/ RefreshTokenPair(c) \/ RevokeToken(c) \/ Stop(c)
       PROVE  CacheInv'
  <2>1. End(c) /\ UNCHANGED <<password, logins, evaded>>
    BY <1>12 DEF GenerateTokenPair, RefreshTokenPair, RevokeToken, Stop
  <2> QED
    BY <1>1, <1>2, <1>4, <2>1 DEF CacheInv
<1>13. ASSUME (\E t \in Tokens : Expire(t)) \/ Cleanup \/ UNCHANGED vars PROVE CacheInv'
  <2>1. UNCHANGED <<password, logins, evaded, request>>
    BY <1>13 DEF Expire, Cleanup, vars
  <2> QED
    BY <1>1, <1>2, <2>1 DEF CacheInv, Reached, Known
<1>14. ASSUME NEW s \in Servers, Forget(s) PROVE CacheInv'
  <2>1. PICK e \in logins[s] : /\ logins' = [logins EXCEPT ![s] = @ \ {e}]
                               /\ evaded' = evaded \ {<<s, e[1], e[2]>>}
    BY <1>14 DEF Forget
  <2>2. UNCHANGED <<password, request>>
    BY <1>14 DEF Forget
  <2>3. \A x \in Servers : logins'[x] = IF x = s THEN logins[x] \ {e} ELSE logins[x]
    BY <1>1, <2>1 DEF TypeOK
  <2>4. e = <<e[1], e[2]>> /\ \A x \in Servers : \A f \in logins[x] : f = <<f[1], f[2]>>
    BY <1>1 DEF TypeOK
  <2>5. \A x \in Servers : \A u, w : <<x, u, w>> \in evaded /\ <<u, w>> \in logins'[x]
                                   => <<x, u, w>> \in evaded'
    BY <2>1, <2>3, <2>4
  <2>6. OldPasswordEvicted'
    BY <2>2, <2>3, <2>4, <2>5 DEF CacheInv, OldPasswordEvicted
  <2>7. Reached'
    BY <2>2, <2>3, <2>5 DEF CacheInv, Reached, Known
  <2> QED
    BY <1>1, <2>6, <2>7 DEF CacheInv
<1> QED
  BY <1>5, <1>6, <1>7, <1>8, <1>9, <1>10, <1>11, <1>12, <1>13, <1>14 DEF Next, Step

(* A password that was changed opens a login only from a cache entry the   *)
(* change is known not to have reached.                                    *)
THEOREM OldPasswordEvictedAlways == Spec => []OldPasswordEvicted
<1>1. CacheInv => OldPasswordEvicted
  BY DEF CacheInv
<1> QED
  BY <1>1, InitCache, NextCache, PTL DEF Spec
=============================================================================
