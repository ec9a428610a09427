------------------------------ MODULE Accounts ------------------------------
(***************************************************************************)
(* The OAuth accounts (xibi/oauth, xibi/secrets, skills/accounts and the   *)
(* token cache of skills/calendar/tools/_google_auth.py).  An account is   *)
(* one record in two stores: a row of oauth_accounts and a secret in a     *)
(* file that is read and written as a whole.  Three services work on it,   *)
(* each with one request at a time: the callback server adds accounts, the *)
(* Telegram service connects, disconnects and backfills, and the services  *)
(* in Users ask for access tokens, which they cache by nickname.           *)
(* A state is one committed statement or one access to the file or Google. *)
(***************************************************************************)
EXTENDS Integers

CONSTANTS
  Nicks,      \* nicknames, of one user and provider
  NoNick,
  Users,      \* processes that use tokens
  Links,      \* consent links that may be asked for
  MaxGrants,  \* bound: refresh tokens Google hands out
  MaxCrashes, \* bound: restarts of a service
  MaxErrors   \* bound: calls to Google that fail for no reason of the grant

VARIABLES
  pending,  \* oauth_pending_states: the nickname of a link, if it may be used
  used,     \* how often a link was accepted; 1 for one that ran out
  row,      \* oauth_accounts: of is the grant it was added with
  file,     \* secrets.enc: the refresh token of a nickname
  grants,   \* what Google knows
  server,   \* the request of the callback server
  leaving,  \* the disconnect that is under way
  asking,   \* the refresh a process waits for
  cache,    \* _TOKEN_CACHE of a process
  crossed,  \* nicknames whose account was replaced under a running request
  damaged,  \* the file was written over by one who had not read it, or cut off
  crashes, errors

AccountsAssumption == NoNick \notin Nicks /\ MaxGrants \in Nat /\ MaxCrashes \in Nat /\ MaxErrors \in Nat

vars == <<pending, used, row, file, grants, server, leaving, asking, cache, crossed, damaged, crashes, errors>>

Grants == 0 .. MaxGrants      \* 0 is none
NoFile == [n \in Nicks |-> 0]
NoRow  == [status |-> "none", of |-> 0, alias |-> 0]
Rest   == [at |-> "rest", nick |-> NoNick, grant |-> 0, read |-> NoFile]
Idle   == [nick |-> NoNick, grant |-> 0, for |-> "token"]

Account        == [status : {"none", "active", "revoked"}, of : Grants, alias : Grants]
Asked          == [nick : Nicks \cup {NoNick}, grant : Grants, for : {"token", "alias"}]
Request(steps) == [at : steps, nick : Nicks \cup {NoNick}, grant : Grants, read : [Nicks -> Grants]]

TypeOK ==
  /\ pending \in [Links -> Nicks \cup {NoNick}] /\ used \in [Links -> Nat]
  /\ row \in [Nicks -> Account]
  /\ file \in [Nicks -> Grants] /\ grants \in [1 .. MaxGrants -> {"unused", "live", "dead"}]
  /\ server \in Request({"rest", "exchange", "insert", "store", "write", "close"})
  /\ leaving \in Request({"rest", "revoke", "row", "secret", "write", "close"})
  /\ asking \in [Users -> Asked]
  /\ cache \in [Users -> [Nicks -> Grants]]
  /\ crossed \subseteq Nicks /\ damaged \in BOOLEAN
  /\ crashes \in 0 .. MaxCrashes /\ errors \in 0 .. MaxErrors

Init ==
  /\ pending = [l \in Links |-> NoNick] /\ used = [l \in Links |-> 0]
  /\ row = [n \in Nicks |-> NoRow] /\ file = NoFile
  /\ grants = [g \in 1 .. MaxGrants |-> "unused"]
  /\ server = Rest /\ leaving = Rest
  /\ asking = [u \in Users |-> Idle] /\ cache = [u \in Users |-> NoFile]
  /\ crossed = {} /\ damaged = FALSE /\ crashes = 0 /\ errors = 0

Fails == errors < MaxErrors /\ errors' = errors + 1
Works == UNCHANGED errors

Exists(n) == row[n].status # "none"

-----------------------------------------------------------------------------
(* Connecting.                                                             *)

\* connect_account: refused if the nickname is taken; else a link for ten minutes.
Connect(l, n) ==
  /\ ~Exists(n) /\ pending[l] = NoNick /\ used[l] = 0
  /\ pending' = [pending EXCEPT ![l] = n]
  /\ UNCHANGED <<used, row, file, grants, server, leaving, asking, cache, crossed, damaged, crashes, errors>>

\* Nobody purges expired links; the callback refuses and deletes them.
Expire(l) ==
  /\ pending[l] # NoNick /\ pending' = [pending EXCEPT ![l] = NoNick] /\ used' = [used EXCEPT ![l] = 1]
  /\ UNCHANGED <<row, file, grants, server, leaving, asking, cache, crossed, damaged, crashes, errors>>

\* Mutant of Consumed: the link stays.
ConsumedKept(l) == pending

\* consume_pending_state
Consumed(l) == [pending EXCEPT ![l] = NoNick]

\* The browser comes back with a link, which it may do again and again.
Callback(l) ==
  /\ server.at = "rest" /\ pending[l] # NoNick /\ used[l] < 2
  /\ pending' = Consumed(l) /\ used' = [used EXCEPT ![l] = @ + 1]
  /\ server' = [Rest EXCEPT !.at = "exchange", !.nick = pending[l]]
  /\ UNCHANGED <<row, file, grants, leaving, asking, cache, crossed, damaged, crashes, errors>>

\* exchange_code_for_refresh_token
Exchange ==
  /\ server.at = "exchange"
  /\ \/ Works /\ \E g \in 1 .. MaxGrants :
          /\ grants[g] = "unused" /\ \A h \in 1 .. g - 1 : grants[h] # "unused"
          /\ grants' = [grants EXCEPT ![g] = "live"]
          /\ server' = [server EXCEPT !.at = "insert", !.grant = g]
     \/ Fails /\ server' = Rest /\ UNCHANGED grants
  /\ UNCHANGED <<pending, used, row, file, leaving, asking, cache, crossed, damaged, crashes>>

\* Who works on a nickname with what it was before.
Overlapped(n) == leaving.nick = n \/ \E u \in Users : asking[u].nick = n
Crossing(n) == crossed' = IF Overlapped(n) THEN crossed \cup {n} ELSE crossed \ {n}

\* add_account: the row, unless the nickname was taken meanwhile.  The alias is what fetch_userinfo
\* says, if it does.
Insert ==
  /\ server.at = "insert"
  /\ LET n == server.nick
     IN  IF Exists(n) THEN server' = Rest /\ Works /\ UNCHANGED <<row, crossed>>
         ELSE /\ server' = [server EXCEPT !.at = "store"] /\ Crossing(n)
              /\ \/ Works /\ row' = [row EXCEPT ![n] = [status |-> "active", of |-> server.grant, alias |-> server.grant]]
                 \/ Fails /\ row' = [row EXCEPT ![n] = [status |-> "active", of |-> server.grant, alias |-> 0]]
  /\ UNCHANGED <<pending, used, file, grants, leaving, asking, cache, damaged, crashes>>

-----------------------------------------------------------------------------
(* The file of secrets: read, truncated, written.                          *)

Writing(r) == r.at \in {"write", "close"}

\* store reads the file, ...
ReadToStore ==
  /\ server.at = "store" /\ server' = [server EXCEPT !.at = "write", !.read = [file EXCEPT ![server.nick] = server.grant]]
  /\ damaged' = (damaged \/ Writing(leaving))
  /\ UNCHANGED <<pending, used, row, file, grants, leaving, asking, cache, crossed, crashes, errors>>

\* ... delete reads it and is done if the key is not in it.
ReadToDelete ==
  /\ leaving.at = "secret"
  /\ leaving' = IF file[leaving.nick] = 0 THEN Rest
                ELSE [leaving EXCEPT !.at = "write", !.read = [file EXCEPT ![leaving.nick] = 0]]
  /\ damaged' = (damaged \/ Writing(server))
  /\ UNCHANGED <<pending, used, row, file, grants, server, asking, cache, crossed, crashes, errors>>

\* write_bytes truncates the file, which then reads as empty, ...
Truncate ==
  /\ \/ server.at = "write" /\ server' = [server EXCEPT !.at = "close"] /\ UNCHANGED leaving
     \/ leaving.at = "write" /\ leaving' = [leaving EXCEPT !.at = "close"] /\ UNCHANGED server
  /\ file' = NoFile
  /\ UNCHANGED <<pending, used, row, grants, asking, cache, crossed, damaged, crashes, errors>>

\* ... and writes what was read with the change.
WriteOut ==
  /\ \/ server.at = "close" /\ file' = server.read /\ server' = Rest /\ UNCHANGED leaving
     \/ leaving.at = "close" /\ file' = leaving.read /\ leaving' = Rest /\ UNCHANGED server
  /\ UNCHANGED <<pending, used, row, grants, asking, cache, crossed, damaged, crashes, errors>>

-----------------------------------------------------------------------------
(* Disconnecting.                                                          *)

\* disconnect_account: get_account reads the row, and the secret.
Disconnect(n) ==
  /\ leaving.at = "rest" /\ Exists(n)
  /\ leaving' = [Rest EXCEPT !.at = IF file[n] = 0 THEN "row" ELSE "revoke", !.nick = n, !.grant = file[n]]
  /\ UNCHANGED <<pending, used, row, file, grants, server, asking, cache, crossed, damaged, crashes, errors>>

\* revoke_token: best effort.
Revoke ==
  /\ leaving.at = "revoke" /\ leaving' = [leaving EXCEPT !.at = "row"]
  /\ \/ Works /\ grants' = [grants EXCEPT ![leaving.grant] = "dead"]
     \/ Fails /\ UNCHANGED grants
  /\ UNCHANGED <<pending, used, row, file, server, asking, cache, crossed, damaged, crashes>>

\* delete_account: the row, then the secret.
DeleteRow ==
  /\ leaving.at = "row" /\ leaving' = [leaving EXCEPT !.at = "secret"]
  /\ row' = [row EXCEPT ![leaving.nick] = NoRow]
  /\ UNCHANGED <<pending, used, file, grants, server, asking, cache, crossed, damaged, crashes, errors>>

-----------------------------------------------------------------------------
(* Access tokens.                                                          *)

\* A row without its secret yet, beside the secret of an account it replaces.
HalfThere(n) == server.nick = n /\ Exists(n)
Asks(u, n, for) ==
  /\ asking' = [asking EXCEPT ![u] = [nick |-> n, grant |-> file[n], for |-> for]]
  /\ crossed' = IF HalfThere(n) THEN crossed \cup {n} ELSE crossed

\* get_access_token: nothing in the cache, so the row and the secret are read.
AskToken(u, n) ==
  /\ asking[u] = Idle /\ cache[u][n] = 0
  /\ row[n].status = "active" /\ file[n] # 0
  /\ Asks(u, n, "token")
  /\ UNCHANGED <<pending, used, row, file, grants, server, leaving, cache, damaged, crashes, errors>>

\* backfill_email_alias for an account without one, of any status.
AskAlias(u, n) ==
  /\ asking[u] = Idle /\ Exists(n) /\ row[n].alias = 0 /\ file[n] # 0
  /\ Asks(u, n, "alias")
  /\ UNCHANGED <<pending, used, row, file, grants, server, leaving, cache, damaged, crashes, errors>>

\* Mutant of Refused: a row is marked for any error.
RefusedAnyhow(r, dead) == [r EXCEPT !.status = IF r.status = "none" THEN "none" ELSE "revoked"]

\* mark_revoked: only invalid_grant marks the row.
Refused(r, dead) == IF r.status # "none" /\ dead THEN [r EXCEPT !.status = "revoked"] ELSE r

\* refresh_access_token, and what follows: the cache, a revoked row, or the alias.  The row is
\* found by its nickname.
Refresh(u) ==
  /\ asking[u] # Idle /\ asking' = [asking EXCEPT ![u] = Idle]
  /\ LET n    == asking[u].nick
         g    == asking[u].grant
         dead == grants[g] = "dead"
     IN  IF asking[u].for = "token"
         THEN \/ ~dead /\ Works /\ cache' = [cache EXCEPT ![u][n] = g] /\ UNCHANGED row
              \/ /\ IF dead THEN Works ELSE Fails
                 /\ row' = [row EXCEPT ![n] = Refused(@, dead)] /\ UNCHANGED cache
         ELSE /\ UNCHANGED cache
              /\ \/ /\ ~dead /\ Works
                    /\ row' = [row EXCEPT ![n].alias = IF Exists(n) THEN g ELSE 0]
                 \/ (IF dead THEN Works ELSE Fails) /\ UNCHANGED row
  /\ UNCHANGED <<pending, used, file, grants, server, leaving, crossed, damaged, crashes>>

\* A cached token is over after an hour.
Forget(u, n) ==
  /\ cache[u][n] # 0 /\ cache' = [cache EXCEPT ![u][n] = 0]
  /\ UNCHANGED <<pending, used, row, file, grants, server, leaving, asking, crossed, damaged, crashes, errors>>

-----------------------------------------------------------------------------
\* The owner withdraws a grant at Google.
Withdraw(g) ==
  /\ grants[g] = "live" /\ Fails /\ grants' = [grants EXCEPT ![g] = "dead"]
  /\ UNCHANGED <<pending, used, row, file, server, leaving, asking, cache, crossed, damaged, crashes>>

\* A service is restarted in the middle of a request.
Crash ==
  /\ crashes < MaxCrashes /\ crashes' = crashes + 1
  /\ \/ /\ server.at # "rest" /\ server' = Rest /\ UNCHANGED <<leaving, asking, cache>>
        /\ crossed' = IF server.at \in {"store", "write", "close"} THEN crossed \cup {server.nick} ELSE crossed
        /\ damaged' = (damaged \/ server.at = "close")
     \/ /\ leaving.at # "rest" /\ leaving' = Rest /\ UNCHANGED <<server, asking, cache, crossed>>
        /\ damaged' = (damaged \/ leaving.at = "close")
     \/ /\ \E u \in Users : asking' = [asking EXCEPT ![u] = Idle] /\ cache' = [cache EXCEPT ![u] = NoFile]
        /\ UNCHANGED <<server, leaving, crossed, damaged>>
  /\ UNCHANGED <<pending, used, row, file, grants, errors>>

Next ==
  \/ \E l \in Links : Callback(l) \/ Expire(l) \/ \E n \in Nicks : Connect(l, n)
  \/ Exchange \/ Insert \/ ReadToStore \/ ReadToDelete \/ Truncate \/ WriteOut
  \/ Revoke \/ DeleteRow \/ \E n \in Nicks : Disconnect(n)
  \/ \E u \in Users : Refresh(u) \/ \E n \in Nicks : AskToken(u, n) \/ AskAlias(u, n) \/ Forget(u, n)
  \/ (\E g \in 1 .. MaxGrants : Withdraw(g)) \/ Crash

Spec == Init /\ [][Next]_vars

-----------------------------------------------------------------------------
(* Properties.                                                             *)

\* "Validate + delete in one transaction" (store.py:246): a link connects once, however often
\* the browser comes back with it.
LinkUsedOnce == \A l \in Links : used[l] <= 1

\* "Two stores, one logical record" (store.py:5): the secret of an account is the one it was
\* added with, also if two links were asked for its nickname, unless a request for it or a write
\* of the file crossed another or was cut off.
OneRecord == \A n \in Nicks :
  Exists(n) /\ n \notin crossed /\ ~damaged /\ server.nick # n /\ server.at # "close" /\ leaving.at # "close"
    => file[n] = row[n].of

\* An account is revoked only because Google refused its grant (_google_auth.py:233), and its
\* alias, by which mail is routed, is that of its grant; where the file has not been written over,
\* which may bring back the secret of an account the nickname had before.
RowSaysTrue == ~damaged => \A n \in Nicks \ crossed :
  /\ row[n].status = "revoked" => grants[row[n].of] = "dead"
  /\ row[n].alias \in {0, row[n].of}

\* A process without a token for a nickname uses no other one's.
OwnTokens == \A u \in Users, n \in Nicks : cache[u][n] # 0 =>
  \A m \in Nicks \ {n} : cache[u][n] # row[m].of
=============================================================================
