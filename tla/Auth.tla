-------------------------------- MODULE Auth --------------------------------
(* Accounts and login sessions (internal/auth/auth.go) as the handlers of    *)
(* internal/api/api_auth.go, the middleware and the login limiter of         *)
(* internal/api/server.go use them.  A step is what one hold of the store's  *)
(* or the limiter's lock does, so that two requests meet between any two.    *)
(* Sessions are in memory; a token file written at the end of a shutdown     *)
(* carries them to the next process.                                         *)
EXTENDS Naturals, FiniteSets, Sequences

CONSTANTS
  Callers,
  Names,              \* of accounts, "admin" among them
  Unfit,              \* names with control characters
  TokenExpiry,        \* ticks a session lasts
  LoginMaxAttempts,
  LoginLockoutPeriod, \* ticks
  LoginMaxDelay,      \* ticks between two attempts of an address
  LoginMaxEntries     \* addresses, and pairs of address and name, tracked

VARIABLES
  store,      \* users, tokens, activeSessions; the limiter's ips and pairs
  call,       \* per caller: requests made, the step of the one in progress, its user
  held,       \* per caller: the token its last login or set-up returned, or 0
  tokenFile,  \* the tokens on disk
  past        \* history: tokens issued and ended, whether the file is behind, starts

auth == <<store, call, held, tokenFile, past>>

roleOrder == [viewer |-> 1, operator |-> 2, admin |-> 3]
Nobody == [name |-> "nobody", role |-> "viewer"]
idleCall == [n |-> 0, at |-> "idle", who |-> Nobody]
ids(s) == {t.id : t \in s.tokens}
without(f, k) == [x \in DOMAIN f \ {k} |-> f[x]]
with(f, k, v) == [x \in DOMAIN f \cup {k} |-> IF x = k THEN v ELSE f[x]]

-----------------------------------------------------------------------------
(* The store.                                                                *)

account(role, password) == [role |-> role, password |-> password, auto |-> FALSE, updated |-> 0]
\* Nobody knows the password of the default account.
defaultAdmin(now) == [role |-> "admin", password |-> "generated", auto |-> TRUE, updated |-> now]

NewStore(accounts, now) ==
  [users |-> IF DOMAIN accounts = {} THEN [u \in {"admin"} |-> defaultAdmin(now)] ELSE accounts,
   tokens |-> {}, active |-> [u \in Names |-> 0], ips |-> [a \in {} |-> 0], pairs |-> [p \in {} |-> 0]]

tokensOf(s, u) == {t \in s.tokens : t.user = u}
tokenExpiredAt(t, now) == now >= t.expires

\* The decrements do not go below zero.
less(s, u) == [s EXCEPT !.active[u] = IF @ > 0 THEN @ - 1 ELSE 0]

\* At the limit the oldest session makes room.
evictOldest(s, u) ==
  LET old == {t \in tokensOf(s, u) : \A o \in tokensOf(s, u) : t.id <= o.id}
  IN IF old = {} THEN s ELSE [less(s, u) EXCEPT !.tokens = @ \ old]

GenerateToken(s, u, id, cap, now) ==
  LET full == cap > 0 /\ s.active[u] >= cap
      roomy == IF full THEN evictOldest(s, u) ELSE s
      new == [id |-> id, user |-> u, created |-> now, expires |-> now + TokenExpiry]
  IN [roomy EXCEPT !.active[u] = IF cap > 0 THEN @ + 1 ELSE @, !.tokens = @ \cup {new}]

\* Mutant: the second of two validators that saw the token expire counts it again.
expiresTwice(s, t) == [less(s, t.user) EXCEPT !.tokens = @ \ {t}]

\* ValidateToken after it has let go of the read lock on an expired token.
expireToken(s, t) == IF t \in s.tokens THEN [less(s, t.user) EXCEPT !.tokens = @ \ {t}] ELSE s

RevokeToken(s, id, cap) ==
  LET mine == {t \in s.tokens : t.id = id}
      owner == (CHOOSE t \in mine : TRUE).user
  IN IF mine = {} THEN s ELSE [(IF cap > 0 THEN less(s, owner) ELSE s) EXCEPT !.tokens = @ \ mine]

RevokeAllTokens(s, u) == [s EXCEPT !.tokens = @ \ tokensOf(s, u), !.active[u] = 0]

ValidateUsername(u) == u \notin Unfit
ValidatePassword(password) == password # "short"

\* CreateUser fails, and changes nothing, unless its account is made.
creates(s, u, password) == ValidateUsername(u) /\ ValidatePassword(password) /\ u \notin DOMAIN s.users

CreateUser(s, u, password, role, now) ==
  IF ~creates(s, u, password) THEN s
  ELSE [s EXCEPT !.users = with(@, u, [account(role, password) EXCEPT !.updated = now])]

\* The handlers change no roles: UpdateUser sets a password.
UpdateUser(s, u, password, now) ==
  IF u \notin DOMAIN s.users THEN s
  ELSE [RevokeAllTokens(s, u) EXCEPT !.users[u].password = password, !.users[u].updated = now]

deleteUserLocked(s, u) == [RevokeAllTokens(s, u) EXCEPT !.users = without(@, u)]
admins(s) == {u \in DOMAIN s.users : s.users[u].role = "admin"}

DeleteUserPreservingLastAdmin(s, u) ==
  IF u \notin DOMAIN s.users \/ admins(s) = {u} THEN s ELSE deleteUserLocked(s, u)

VerifyUserPassword(s, u, password) == u \in DOMAIN s.users /\ s.users[u].password = password

\* LoadTokensSigned: sessions of accounts that are there and have not been
\* changed since, and that have not expired.
prepareLoadedTokens(s, tokens, now) ==
  {t \in tokens : t.user \in DOMAIN s.users /\ t.created >= s.users[t.user].updated /\ ~tokenExpiredAt(t, now)}

LoadTokensSigned(s, tokens, now) ==
  LET kept == prepareLoadedTokens(s, tokens, now)
  IN [s EXCEPT !.tokens = kept, !.active = [u \in Names |-> Cardinality({t \in kept : t.user = u})]]

-----------------------------------------------------------------------------
(* The login limiter: failed attempts by address, and by address and name.   *)

deadlineReachedAt(now, deadline) == now >= deadline

checkRateLimit(s, ip, now) ==
  ip \in DOMAIN s.ips /\ (now < s.ips[ip].until \/ now < s.ips[ip].last + LoginMaxDelay)
checkUserRateLimit(s, pair, now) == pair \in DOMAIN s.pairs /\ now < s.pairs[pair].until

\* A full table loses the entry that was tried longest ago.
forgetOldest(f) ==
  IF Cardinality(DOMAIN f) < LoginMaxEntries THEN f
  ELSE without(f, CHOOSE k \in DOMAIN f : \A o \in DOMAIN f : f[k].last <= f[o].last)

again(a, now) ==
  LET count == 1 + IF a.until # 0 /\ deadlineReachedAt(now, a.until) THEN 0 ELSE a.count
      locked == IF a.until # 0 /\ deadlineReachedAt(now, a.until) THEN 0 ELSE a.until
  IN [count |-> count, last |-> now, until |-> IF count >= LoginMaxAttempts THEN now + LoginLockoutPeriod ELSE locked]

failure(f, k, now) ==
  IF k \in DOMAIN f THEN [f EXCEPT ![k] = again(@, now)]
  ELSE with(forgetOldest(f), k, [count |-> 1, last |-> now, until |-> 0])

recordFailedAttempt(s, ip, u, now) == [s EXCEPT !.ips = failure(@, ip, now), !.pairs = failure(@, <<ip, u>>, now)]
recordSuccess(s, ip, u) == [s EXCEPT !.ips = without(@, ip), !.pairs = without(@, <<ip, u>>)]

cleanup(s, now) ==
  LET tried == {a \in DOMAIN s.ips : ~(deadlineReachedAt(now, s.ips[a].until) /\ deadlineReachedAt(now, s.ips[a].last + LoginMaxDelay))}
      locked == {p \in DOMAIN s.pairs : ~deadlineReachedAt(now, s.pairs[p].until)}
  IN [s EXCEPT !.ips = [a \in tried |-> s.ips[a]], !.pairs = [p \in locked |-> s.pairs[p]]]

-----------------------------------------------------------------------------
(* Requests.  req is the caller's request, cap the limit of sessions.        *)

\* The step that follows; the store afterwards, with a note of what ended.
goes(c, step) == call' = [call EXCEPT ![c].at = step]
puts(s) == store' = s /\ past' = [past EXCEPT !.ended = @ \cup (ids(store) \ ids(s))]
keeps == UNCHANGED <<store, past>>

\* handleBootstrap is one at a time.
Setup == {"list", "replace", "first", "verify old", "update", "first token"}
firstStep(op) == CASE op = "login" -> "limit" [] op = "bootstrap" -> "list" [] OTHER -> "token"

Request(c, req) ==
  /\ call[c].at = "idle"
  /\ req.op = "bootstrap" => \A d \in Callers : call[d].at \notin Setup
  /\ call' = [call EXCEPT ![c] = [n |-> @.n + 1, at |-> firstStep(req.op), who |-> Nobody]]
  /\ UNCHANGED <<store, held, tokenFile, past>>

\* A token is issued unless its account is gone.
issues(c, req, cap, now) ==
  /\ goes(c, "idle")
  /\ IF req.name \in DOMAIN store.users
     THEN \E id \in {past.issued + 1} :
            \E s \in {GenerateToken(store, req.name, id, cap, now)} :
              /\ store' = s
              /\ past' = [past EXCEPT !.issued = id, !.ended = @ \cup (ids(store) \ ids(s))]
              /\ held' = [held EXCEPT ![c] = id]
     ELSE keeps /\ UNCHANGED held

\* handleLogin.
Login(c, req, now) ==
  /\ \/ /\ call[c].at = "limit" /\ keeps
        /\ goes(c, IF checkRateLimit(store, req.ip, now) THEN "idle" ELSE "limit user")
     \/ /\ call[c].at = "limit user" /\ keeps
        /\ goes(c, IF checkUserRateLimit(store, <<req.ip, req.name>>, now) THEN "idle" ELSE "verify")
     \/ /\ call[c].at = "verify" /\ keeps
        /\ goes(c, IF VerifyUserPassword(store, req.name, req.password) THEN "get" ELSE "failed")
     \/ /\ call[c].at = "get" /\ keeps
        /\ goes(c, IF req.name \in DOMAIN store.users THEN "success" ELSE "failed")
     \/ call[c].at = "failed" /\ puts(recordFailedAttempt(store, req.ip, req.name, now)) /\ goes(c, "idle")
     \/ call[c].at = "success" /\ puts(recordSuccess(store, req.ip, req.name)) /\ goes(c, "revoke")
     \/ call[c].at = "revoke" /\ puts(RevokeAllTokens(store, req.name)) /\ goes(c, "generate")
  /\ UNCHANGED <<held, tokenFile>>

Logged(c, req, cap, now) ==
  /\ call[c].at \in {"generate", "first token"}
  /\ issues(c, req, cap, now)
  /\ UNCHANGED tokenFile

onlyDefault(s) == DOMAIN s.users = {"admin"} /\ s.users["admin"].auto

\* handleBootstrap, from the server's own host: replaces the default account,
\* sets a password, or makes the first account.  It looks at the password and
\* the length of the name first; other faults of the name are CreateUser's to find.
Bootstrap(c, req, now) ==
  /\ \/ /\ call[c].at = "list" /\ keeps
        /\ goes(c, IF ~ValidatePassword(req.password) THEN "idle" ELSE IF onlyDefault(store) THEN "replace" ELSE IF DOMAIN store.users # {} THEN "verify old" ELSE "first")
     \/ /\ call[c].at = "replace" /\ puts(deleteUserLocked(store, "admin"))
        /\ goes(c, IF "admin" \in DOMAIN store.users THEN "first" ELSE "idle")
     \/ /\ call[c].at = "first" /\ puts(CreateUser(store, req.name, req.password, "admin", now))
        /\ goes(c, IF creates(store, req.name, req.password) THEN "first token" ELSE "idle")
     \/ /\ call[c].at = "verify old" /\ keeps
        /\ goes(c, IF VerifyUserPassword(store, req.name, req.old) THEN "update" ELSE "idle")
     \/ /\ call[c].at = "update" /\ puts(UpdateUser(store, req.name, req.password, now))
        /\ goes(c, IF req.name \in DOMAIN store.users THEN "first token" ELSE "idle")
  /\ UNCHANGED <<held, tokenFile>>

presented(req) == {t \in store.tokens : t.id = held[req.as]}
userOf(t) == [name |-> t.user, role |-> store.users[t.user].role]

\* authMiddleware and ValidateToken: the account as it is now goes with the
\* request, a token that has expired is removed under the write lock.
Authenticate(c, req, now) ==
  /\ call[c].at = "token"
  /\ \/ presented(req) = {} /\ goes(c, "idle")
     \/ \E t \in presented(req) :
          call' = IF tokenExpiredAt(t, now) THEN [call EXCEPT ![c].at = "expire", ![c].who = t]
                  ELSE IF t.user \notin DOMAIN store.users THEN [call EXCEPT ![c].at = "idle"]
                  ELSE [call EXCEPT ![c].at = "act", ![c].who = userOf(t)]
  /\ UNCHANGED <<store, held, tokenFile, past>>

Expired(c) ==
  /\ call[c].at = "expire"
  /\ puts(expireToken(store, call[c].who))
  /\ call' = [call EXCEPT ![c].at = "idle", ![c].who = Nobody]
  /\ UNCHANGED <<held, tokenFile>>

hasRole(who, required) == roleOrder[who.role] >= roleOrder[required]

\* handleLogout and handleUsers; any other request only needs its user.
acted(c, req, cap, now) ==
  LET who == call[c].who
  IN CASE req.op = "logout" -> RevokeToken(store, held[req.as], cap)
       [] req.op = "create" /\ hasRole(who, "admin") -> CreateUser(store, req.name, req.password, req.role, now)
       [] req.op = "delete" /\ hasRole(who, "admin") /\ who.name # req.name -> DeleteUserPreservingLastAdmin(store, req.name)
       [] OTHER -> store

Act(c, req, cap, now) ==
  /\ call[c].at = "act"
  /\ puts(acted(c, req, cap, now))
  /\ call' = [call EXCEPT ![c].at = "idle", ![c].who = Nobody]
  /\ UNCHANGED <<held, tokenFile>>

\* rateLimitCleanupLoop.
Cleanup(now) ==
  /\ cleanup(store, now) # store
  /\ store' = cleanup(store, now)
  /\ UNCHANGED <<call, held, tokenFile, past>>

handlesCall(c, req, cap, now) ==
  \/ Login(c, req, now) \/ Logged(c, req, cap, now) \/ Bootstrap(c, req, now)
  \/ Authenticate(c, req, now) \/ Expired(c) \/ Act(c, req, cap, now)

\* SaveTokensSigned replaces the file or fails and leaves it.
SaveTokensSigned ==
  \E written \in BOOLEAN :
    /\ tokenFile' = IF written THEN store.tokens ELSE tokenFile
    /\ past' = [past EXCEPT !.behind = ~written \/ \E c \in Callers : call[c].at # "idle"]
    /\ UNCHANGED <<store, call, held>>

\* The process ends: requests in progress are lost, the callers keep their tokens.
Forgets(accounts) ==
  /\ store' = NewStore(accounts, 0)
  /\ call' = [c \in Callers |-> [idleCall EXCEPT !.n = call[c].n]]
  /\ UNCHANGED <<held, tokenFile, past>>

\* The next process.  What an unsaved end left in the file is live again.
Reloads(accounts, now) ==
  /\ store' = LoadTokensSigned(NewStore(accounts, now), tokenFile, now)
  /\ past' = [past EXCEPT !.ended = IF past.behind THEN @ \ ids(store') ELSE @, !.behind = TRUE, !.starts = @ + 1]
  /\ UNCHANGED <<call, held, tokenFile>>

InitAuth(accounts) ==
  /\ store = NewStore(accounts, 0) /\ tokenFile = {}
  /\ call = [c \in Callers |-> idleCall] /\ held = [c \in Callers |-> 0]
  /\ past = [issued |-> 0, ended |-> {}, behind |-> TRUE, starts |-> 1]
=============================================================================
