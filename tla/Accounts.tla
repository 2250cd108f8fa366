------------------------------ MODULE Accounts ------------------------------
(***************************************************************************)
(* Passwords and tokens of the SMS gateway server's users                  *)
(* (internal/sms-gateway: users, jwt, the middlewares userauth, jwtauth    *)
(* and permissions, and the handlers of /3rdparty/v1/auth and of the       *)
(* password of a user).                                                    *)
(*                                                                         *)
(* A request shows a password or a token and is let in; later it does its  *)
(* work.  Every access of the login cache and every statement or           *)
(* transaction of the database is a step, so requests, on one server or on *)
(* several, interleave between them.  The database is MySQL: a rotation    *)
(* holds the row of its refresh token, and RevokeByUser waits for it.      *)
(***************************************************************************)
EXTENDS Naturals, FiniteSets

CONSTANTS
  Servers,         \* server processes, each with a login cache of its own
  Clients,         \* requests that may be under way
  Users,           \* users
  ScopeSets,       \* the sets of scopes tokens are asked for
  MaxPairs,        \* bound: pairs of tokens issued in a behaviour
  MaxPassword,     \* bound: how often a user changes the password
  MaxTotal,        \* bound: pairs issued and changes of a password together
  Expiring         \* bound: pairs whose tokens expire within a behaviour

ASSUME ConstantsAssumption ==
  /\ MaxPairs \in Nat /\ MaxPassword \in Nat /\ MaxTotal \in Nat
  /\ Expiring \subseteq 1 .. MaxPairs
  /\ {} \notin ScopeSets
  /\ Users # {}

VARIABLES
  password,        \* the users table: the number of each user's password
  logins,          \* login cache of each server: pairs of user and password
  rows,            \* the tokens table: what is recorded of each token
  expired,         \* tokens whose time is over
  issued,          \* the number of pairs of tokens issued
  owner,           \* the user of each pair
  scopes,          \* the scopes of each pair's access token
  parent,          \* the pair whose refresh token each pair was issued for
  request,         \* the progress of every request
  revoked,         \* history: tokens revoked at some time
  cut,             \* history: pairs that had been issued at RevokeByUser
  evaded           \* history: cached logins that a change could not evict

tokenVars == <<rows, expired, issued, owner, scopes, parent>>
vars == <<password, logins, tokenVars, request, revoked, cut, evaded>>

-----------------------------------------------------------------------------
(* Pairs are numbered as they are issued; a token is one half of a pair.   *)
Pairs == 1 .. MaxPairs
Issued == 1 .. issued
Tokens == Pairs \X {"access", "refresh"}
Access(p) == <<p, "access">>
Refresh(p) == <<p, "refresh">>

(* Passwords are numbered in the order in which a user takes them.         *)
Passwords == 0 .. MaxPassword

NoToken == <<0, "none">>
Jobs == {"issue", "revoke", "refresh", "change"}

(* A request is in the middle of a login, at its work, or changes its      *)
(* user's password.                                                        *)
Requests ==
  [pc : {"idle"}]
    \cup [pc : {"read", "keep"}, server : Servers, user : Users, word : Passwords, job : Jobs]
    \cup [pc : {"work"}, user : Users, token : Tokens \cup {NoToken}, job : Jobs]
    \cup [pc : {"evict"}, server : Servers, user : Users, word : Passwords]
    \cup [pc : {"revoke", "update"}, user : Users, word : Passwords]

Idle == [pc |-> "idle"]
Busy(c) == request[c].pc # "idle"
Go(c, r) == request' = [request EXCEPT ![c] = r]
End(c) == Go(c, Idle)

Init ==
  /\ password = [u \in Users |-> 0]
  /\ logins = [s \in Servers |-> {}]
  /\ rows = [t \in Tokens |-> "none"]
  /\ expired = {}
  /\ issued = 0
  /\ owner = [p \in Pairs |-> CHOOSE u \in Users : TRUE]
  /\ scopes = [p \in Pairs |-> {}]
  /\ parent = [p \in Pairs |-> 0]
  /\ request = [c \in Clients |-> Idle]
  /\ revoked = {}
  /\ cut = [u \in Users |-> 0]
  /\ evaded = {}

-----------------------------------------------------------------------------
(* What a request may do (permissions.RequireScope): a refresh token has   *)
(* one scope only, a password all of them; to refresh takes the very scope.*)
ScopesOf(t) == IF t = NoToken THEN {"all:any"}
               ELSE IF t[2] = "refresh" THEN {"tokens:refresh"} ELSE scopes[t[1]]

HasScope(t, scope, exact) ==
  scope \in ScopesOf(t) \/ (~exact /\ "all:any" \in ScopesOf(t))

(* The routes of /3rdparty/v1/auth.                                        *)
Permitted(t, job) ==
  IF job = "refresh" THEN HasScope(t, "tokens:refresh", TRUE)
                     ELSE HasScope(t, "tokens:manage", FALSE)

-----------------------------------------------------------------------------
(* Login, for NewBasic and for ChangePassword.  A password the cache knows *)
(* is not compared again.                                                  *)
Known(s, u, w) == <<u, w>> \in logins[s]

changePassword(s, u, w) == [pc |-> "evict", server |-> s, user |-> u, word |-> w]

LetIn(c, s, u, w, job) ==
  Go(c, IF job = "change" THEN changePassword(s, u, w)
        ELSE [pc |-> "work", user |-> u, token |-> NoToken, job |-> job])

Login(c, s, u, w, job) ==
  /\ ~Busy(c)
  /\ job = "change" \/ Permitted(NoToken, job)
  /\ IF Known(s, u, w) THEN LetIn(c, s, u, w, job)
     ELSE Go(c, [pc |-> "read", server |-> s, user |-> u, word |-> w, job |-> job])
  /\ UNCHANGED <<password, logins, tokenVars, revoked, cut, evaded>>

(* ... otherwise it is compared with the user's row ...                    *)
ReadUser(c) ==
  LET r == request[c] IN
  /\ r.pc = "read"
  /\ IF r.word = password[r.user] THEN Go(c, [r EXCEPT !.pc = "keep"]) ELSE End(c)
  /\ UNCHANGED <<password, logins, tokenVars, revoked, cut, evaded>>

(* ... and cached; a password that is being changed, or was, should not be.*)
Changing(u, w) ==
  \E c \in Clients : /\ request[c].pc \in {"revoke", "update"}
                     /\ request[c].user = u /\ request[c].word = w

Keep(c) ==
  LET r == request[c]
      late == r.word # password[r.user] \/ Changing(r.user, r.word)
  IN  /\ r.pc = "keep"
      /\ logins' = [logins EXCEPT ![r.server] = @ \cup {<<r.user, r.word>>}]
      /\ evaded' = IF late THEN evaded \cup {<<r.server, r.user, r.word>>} ELSE evaded
      /\ LetIn(c, r.server, r.user, r.word, r.job)
      /\ UNCHANGED <<password, tokenVars, revoked, cut>>

(* ParseToken, for NewJWT: the signature, the time, and the row - if there *)
(* is one - must allow it; then the route its scopes.                      *)
IsRevoked(t) == rows[t] = "revoked"

Accepted(t) == t[1] \in Issued /\ t \notin expired /\ ~IsRevoked(t)

ShowToken(c, t, job) ==
  /\ ~Busy(c)
  /\ Accepted(t) /\ Permitted(t, job) /\ job # "change"
  /\ Go(c, [pc |-> "work", user |-> owner[t[1]], job |-> job,
            token |-> IF job = "refresh" THEN t ELSE NoToken])
  /\ UNCHANGED <<password, logins, tokenVars, revoked, cut, evaded>>

-----------------------------------------------------------------------------
(* The work of a request that was let in: its handler passes on the user   *)
(* and the body, and answers with the outcome.                             *)
Work(c, job) == request[c].pc = "work" /\ request[c].job = job

(* Two tokens and their rows, for a user with some scopes.                 *)
NewPair(u, S, old) ==
  /\ issued < MaxPairs /\ \A x \in Users : issued + password[x] < MaxTotal
  /\ issued' = issued + 1
  /\ owner' = [owner EXCEPT ![issued + 1] = u]
  /\ scopes' = [scopes EXCEPT ![issued + 1] = S]
  /\ parent' = [parent EXCEPT ![issued + 1] = old]

(* The table with the rows of a new pair.                                  *)
WithPair(table, p) == [table EXCEPT ![Access(p)] = "live", ![Refresh(p)] = "live"]

(* ... or with some tokens revoked, as of now.                             *)
Revoke(T) ==
  /\ rows' = [t \in Tokens |-> IF t \in T THEN "revoked" ELSE rows[t]]
  /\ revoked' = revoked \cup T

(* GenerateTokenPair: both rows are inserted in one transaction.           *)
GenerateTokenPair(c) ==
  /\ Work(c, "issue")
  /\ \E S \in ScopeSets : NewPair(request[c].user, S, 0)
  /\ rows' = WithPair(rows, issued + 1)
  /\ End(c)
  /\ UNCHANGED <<password, logins, expired, revoked, cut, evaded>>

(* Fault: the row is locked, but not looked at again.                      *)
MayRotate_Unchecked(t) == t[2] = "refresh" /\ t \notin expired

(* RotateRefreshToken: the row must be there, of a refresh token, not      *)
(* revoked, its time not over; otherwise nothing is issued.                *)
MayRotate(t) == t[2] = "refresh" /\ rows[t] = "live" /\ t \notin expired

(* RefreshTokenPair, once the token was parsed again.                      *)
RefreshTokenPair(c) ==
  LET t == request[c].token IN
  /\ Work(c, "refresh")
  /\ \/ /\ MayRotate(t)
        /\ NewPair(request[c].user, scopes[t[1]], t[1])
        /\ rows' = WithPair([rows EXCEPT ![t] = "revoked"], issued + 1)
        /\ revoked' = revoked \cup {t}
     \/ ~MayRotate(t) /\ UNCHANGED <<rows, issued, owner, scopes, parent, revoked>>
  /\ End(c)
  /\ UNCHANGED <<password, logins, expired, cut, evaded>>

(* RevokeToken: a token of the user, and the refresh token that came with  *)
(* it when it is an access token.                                          *)
ByID(jti, u) ==
  {t \in Tokens : /\ t = jti \/ (jti[2] = "access" /\ t = Refresh(jti[1]))
                  /\ rows[t] = "live" /\ owner[t[1]] = u}

RevokeToken(c) ==
  /\ Work(c, "revoke")
  /\ \E jti \in Tokens : Revoke(ByID(jti, request[c].user))
  /\ End(c)
  /\ UNCHANGED <<password, logins, expired, issued, owner, scopes, parent, cut, evaded>>

-----------------------------------------------------------------------------
(* ChangePassword, after its Login: the cached login is evicted - from     *)
(* this server's cache -, all tokens are revoked, the row is updated.  A   *)
(* step that fails ends the request with what was done so far.             *)

(* Fault: nothing is evicted.                                              *)
Evict_Forgets(c) ==
  /\ request[c].pc = "evict"
  /\ Go(c, [pc |-> "revoke", user |-> request[c].user, word |-> request[c].word])
  /\ UNCHANGED <<password, logins, tokenVars, revoked, cut, evaded>>

Evict(c) ==
  LET r == request[c] IN
  /\ r.pc = "evict"
  /\ \/ /\ logins' = [logins EXCEPT ![r.server] = @ \ {<<r.user, r.word>>}]
        /\ evaded' = (evaded \ {<<r.server, r.user, r.word>>})
                       \cup {<<s, r.user, r.word>> :
                               s \in {x \in Servers \ {r.server} : <<r.user, r.word>> \in logins[x]}}
        /\ Go(c, [pc |-> "revoke", user |-> r.user, word |-> r.word])
     \/ End(c) /\ UNCHANGED <<logins, evaded>>
  /\ UNCHANGED <<password, tokenVars, revoked, cut>>

ByUser(u) == {t \in Tokens : rows[t] = "live" /\ owner[t[1]] = u /\ t \notin expired}

RevokeByUser(c) ==
  LET u == request[c].user
  IN  /\ request[c].pc = "revoke"
      /\ \/ /\ Revoke(ByUser(u))
            /\ cut' = [cut EXCEPT ![u] = issued]
            /\ Go(c, [request[c] EXCEPT !.pc = "update"])
         \/ End(c) /\ UNCHANGED <<rows, revoked, cut>>
      /\ UNCHANGED <<password, logins, expired, issued, owner, scopes, parent, evaded>>

(* The new password is one the user never had.  It replaces whatever is    *)
(* there: also a password this request never saw, and did not evict.       *)
UpdatePassword(c) ==
  LET u == request[c].user
      unseen == {s \in Servers : Known(s, u, password[u])}
  IN  /\ request[c].pc = "update"
      /\ \/ /\ password[u] < MaxPassword /\ issued + password[u] < MaxTotal
            /\ password' = [password EXCEPT ![u] = @ + 1]
            /\ evaded' = IF request[c].word = password[u] THEN evaded
                         ELSE evaded \cup {<<s, u, password[u]>> : s \in unseen}
         \/ UNCHANGED <<password, evaded>>
      /\ End(c)
      /\ UNCHANGED <<logins, tokenVars, revoked, cut>>

-----------------------------------------------------------------------------
(* Time: a refresh token outlives its access token (Config.Validate).      *)
Expire(t) ==
  /\ t[1] \in Issued \cap Expiring /\ t \notin expired
  /\ t[2] = "refresh" => Access(t[1]) \in expired
  /\ expired' = expired \cup {t}
  /\ UNCHANGED <<password, logins, rows, issued, owner, scopes, parent, request, revoked, cut, evaded>>

(* Fault: old rows are deleted by when they were last changed.             *)
Cleanup_Revoked ==
  \E old \in SUBSET {t \in Tokens : rows[t] = "revoked"} :
    /\ old # {}
    /\ rows' = [t \in Tokens |-> IF t \in old THEN "deleted" ELSE rows[t]]
    /\ UNCHANGED <<password, logins, expired, issued, owner, scopes, parent, request, revoked, cut, evaded>>

(* The worker deletes the rows of tokens that expired a while ago.         *)
Cleanup ==
  \E old \in SUBSET {t \in expired : rows[t] \in {"live", "revoked"}} :
    /\ old # {}
    /\ rows' = [t \in Tokens |-> IF t \in old THEN "deleted" ELSE rows[t]]
    /\ UNCHANGED <<password, logins, expired, issued, owner, scopes, parent, request, revoked, cut, evaded>>

(* A cached login is forgotten loginCacheTTL after its last use.           *)
Forget(s) ==
  \E e \in logins[s] :
    /\ logins' = [logins EXCEPT ![s] = @ \ {e}]
    /\ evaded' = evaded \ {<<s, e[1], e[2]>>}
    /\ UNCHANGED <<password, tokenVars, request, revoked, cut>>

(* A server stops in the middle of a request; what it cached is forgotten. *)
Stop(c) ==
  /\ Busy(c)
  /\ End(c)
  /\ UNCHANGED <<password, logins, tokenVars, revoked, cut, evaded>>

Step(c) ==
  \/ \E s \in Servers, u \in Users, w \in Passwords, job \in Jobs : Login(c, s, u, w, job)
  \/ \E t \in Tokens, job \in Jobs : ShowToken(c, t, job)
  \/ ReadUser(c) \/ Keep(c)
  \/ GenerateTokenPair(c) \/ RefreshTokenPair(c) \/ RevokeToken(c)
  \/ Evict(c) \/ RevokeByUser(c) \/ UpdatePassword(c)

Next ==
  \/ \E c \in Clients : Step(c) \/ Stop(c)
  \/ \E t \in Tokens : Expire(t)
  \/ Cleanup
  \/ \E s \in Servers : Forget(s)

Spec == Init /\ [][Next]_vars

-----------------------------------------------------------------------------
(* Properties.                                                             *)

(* Every variable keeps to its type.                                       *)
TypeOK ==
  /\ password \in [Users -> Passwords]
  /\ logins \in [Servers -> SUBSET (Users \X Passwords)]
  /\ rows \in [Tokens -> {"none", "live", "revoked", "deleted"}]
  /\ expired \subseteq Tokens /\ revoked \subseteq Tokens
  /\ issued \in 0 .. MaxPairs
  /\ owner \in [Pairs -> Users]
  /\ scopes \in [Pairs -> ScopeSets \cup {{}}]
  /\ parent \in [Pairs -> 0 .. MaxPairs]
  /\ request \in [Clients -> Requests]
  /\ cut \in [Users -> 0 .. MaxPairs]
  /\ evaded \subseteq Servers \X Users \X Passwords

(* A refresh token is good for one new pair, however many requests show it *)
(* at the same time.                                                       *)
OneSuccessor ==
  \A p, q \in Issued : parent[p] = parent[q] /\ parent[p] # 0 => p = q

(* A change of the password ends every chain of refreshes: what can still  *)
(* be used was issued after it, and not refreshed from anything older.     *)
ChainsEnd ==
  \A p \in Issued :
    LET old == cut[owner[p]] IN
    /\ \A t \in {Access(p), Refresh(p)} : Accepted(t) => p > old
    /\ parent[p] # 0 /\ p > old => parent[p] > old

(* Once revoked, a token never lets a request in again and never yields a  *)
(* new pair, although its row is deleted some day and a missing row        *)
(* revokes nothing.                                                        *)
RevokedStaysOut ==
  [][ /\ \A t \in revoked, c \in Clients, job \in Jobs : ~ShowToken(c, t, job)
      /\ \A p \in Issued' \ Issued : Refresh(parent'[p]) \notin revoked ]_vars

(* A password that was changed opens a login only from a cache the change  *)
(* could not reach - of another server -, into which a login that          *)
(* overlapped the change put it back after the eviction, or when the       *)
(* change was asked for with another password, by two changes at once.     *)
OldPasswordEvicted ==
  \A s \in Servers : \A e \in logins[s] :
    e[2] # password[e[1]] => <<s, e[1], e[2]>> \in evaded
=============================================================================
