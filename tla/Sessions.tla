----------------------------- MODULE Sessions -----------------------------
(***************************************************************************)
(* Users, logins and refresh tokens.  A login gives a refresh token, which *)
(* is the one row of its user in refresh_tokens; a refresh gives a new     *)
(* access token for it; a logout writes the row again, expired.  Each call *)
(* reads the database and goes on with the answer later: a logout may      *)
(* write, and a refresh may accept, what another call has replaced since.  *)
(*                                                                         *)
(* A write is done any time after it was asked for, not at all, or unknown *)
(* to the caller.  A hash (a UUID) is never made twice.  Passwords and     *)
(* names are data; is_active is stored and never read.                     *)
(***************************************************************************)
EXTENDS Naturals, FiniteSets

CONSTANTS
  Users, Roles,            \* users.id, roles.id
  Calls,                   \* bound: calls of the auth routes at one time
  NoRow,                   \* what is not in a table
  RefreshLife, AccessLife, \* 2678400 and 900 seconds
  MaxTime, MaxLogins       \* bounds: the clock, hashes made

ASSUME SessionsAssumption ==
  /\ {RefreshLife, AccessLife, MaxTime, MaxLogins} \subseteq Nat
  /\ NoRow \notin Roles \cup Nat
  /\ NoRow \notin [role : Roles, hash : Nat, expires : Nat]
  /\ NoRow \notin [id : Users, role : Roles, exp : Nat]
  /\ NoRow \notin [user : Users, role : Roles, at : Nat]

VARIABLES
  now,      \* UNIX time
  users,    \* id -> role_id, or NoRow
  refresh_tokens, \* user_id -> its row, or NoRow
  call,     \* what each call is doing
  access,   \* hash -> the last access token given with it: Claims
  logins,   \* history: the user, role and time of every hash, in their order
  ended     \* history: hash -> latest logout of it that was written, or NoRow

vars == <<now, users, refresh_tokens, call, access, logins, ended>>

Idle == [kind |-> "idle"]
Hashes == 1 .. MaxLogins
Row(role, hash, expires) == [role |-> role, hash |-> hash, expires |-> expires]
Rows == [role : Roles, hash : Hashes, expires : 0 .. MaxTime + RefreshLife]

\* A call has found a row, in ended the latest logout of it written by then, or has
\* asked for one to be written.
Found == [kind : {"found"}, user : Users, row : Rows, ended : 0 .. MaxTime \cup {NoRow}]
Asked == [kind : {"login", "logout"}, user : Users, row : Rows, at : 0 .. MaxTime]
Claims == [id : Users, role : Roles, exp : 0 .. MaxTime + AccessLife]
Logins == [user : Users, role : Roles, at : 0 .. MaxTime]

TypeOK ==
  /\ now \in 0 .. MaxTime
  /\ users \in [Users -> Roles \cup {NoRow}]
  /\ refresh_tokens \in [Users -> Rows \cup {NoRow}]
  /\ call \in [Calls -> {Idle} \cup Found \cup Asked]
  /\ access \in [Hashes -> Claims \cup {NoRow}]
  /\ logins \in [Hashes -> Logins \cup {NoRow}]
  /\ ended \in [Hashes -> 0 .. MaxTime \cup {NoRow}]

Init ==
  /\ now = 0
  /\ users \in [Users -> Roles \cup {NoRow}]
  /\ refresh_tokens = [u \in Users |-> NoRow]
  /\ call = [c \in Calls |-> Idle]
  /\ access = [h \in Hashes |-> NoRow]
  /\ logins = [h \in Hashes |-> NoRow]
  /\ ended = [h \in Hashes |-> NoRow]

Tick ==
  /\ now < MaxTime
  /\ now' = now + 1
  /\ UNCHANGED <<users, refresh_tokens, call, access, logins, ended>>

-----------------------------------------------------------------------------
(* Users.                                                                    *)

\* found_role_id, and then the row; a name that is taken is refused.
CreateUser(u, role) ==
  /\ users[u] = NoRow
  /\ users' = [users EXCEPT ![u] = role]
  /\ UNCHANGED <<now, refresh_tokens, call, access, logins, ended>>

\* The tokens of the user keep the role they were made with.
UpdateUser(u, role) ==
  /\ users[u] # NoRow
  /\ users' = [users EXCEPT ![u] = role]
  /\ UNCHANGED <<now, refresh_tokens, call, access, logins, ended>>

\* refresh_tokens has no foreign key: the row stays.
DeleteUser(u) ==
  /\ users[u] # NoRow
  /\ users' = [users EXCEPT ![u] = NoRow]
  /\ UNCHANGED <<now, refresh_tokens, call, access, logins, ended>>

-----------------------------------------------------------------------------
(* Login and logout.                                                         *)

GenerateAccessToken(hash, u, role) ==
  access' = [access EXCEPT ![hash] = [id |-> u, role |-> role, exp |-> now + AccessLife]]

\* verify_user_credentials finds the user and the password is right; the tokens are
\* made and the row is sent to be written.
Login(c, u) ==
  /\ call[c] = Idle /\ users[u] # NoRow
  /\ \E hash \in Hashes :
       /\ logins[hash] = NoRow /\ \A h \in 1 .. hash - 1 : logins[h] # NoRow
       /\ logins' = [logins EXCEPT ![hash] = [user |-> u, role |-> users[u], at |-> now]]
       /\ call' = [call EXCEPT ![c] =
            [kind |-> "login", user |-> u, row |-> Row(users[u], hash, now + RefreshLife), at |-> now]]
       /\ GenerateAccessToken(hash, u, users[u])
  /\ UNCHANGED <<now, users, refresh_tokens, ended>>

\* find_token
Holds(u, hash) == refresh_tokens[u] # NoRow /\ refresh_tokens[u].hash = hash

\* The row of a token, for a logout or a refresh; an unknown token is refused.
FindToken(c, hash) ==
  /\ call[c] = Idle
  /\ \E u \in Users :
       /\ Holds(u, hash)
       /\ call' = [call EXCEPT ![c] =
            [kind |-> "found", user |-> u, row |-> refresh_tokens[u], ended |-> ended[hash]]]
  /\ UNCHANGED <<now, users, refresh_tokens, access, logins, ended>>

\* Mutant: the role is read from the user again.
LogoutAnew(c) ==
  /\ call[c].kind = "found" /\ users[call[c].user] # NoRow
  /\ call' = [call EXCEPT ![c] =
       [kind |-> "logout", user |-> @.user, row |-> Row(users[@.user], @.row.hash, now), at |-> now]]
  /\ UNCHANGED <<now, users, refresh_tokens, access, logins, ended>>

\* Mutant: the row keeps its time.
LogoutKept(c) ==
  /\ call[c].kind = "found"
  /\ call' = [call EXCEPT ![c] = [kind |-> "logout", user |-> @.user, row |-> @.row, at |-> now]]
  /\ UNCHANGED <<now, users, refresh_tokens, access, logins, ended>>

\* The row that was found is sent back to be written, expiring now.
Logout(c) ==
  /\ call[c].kind = "found"
  /\ call' = [call EXCEPT ![c] =
       [kind |-> "logout", user |-> @.user, row |-> Row(@.row.role, @.row.hash, now), at |-> now]]
  /\ UNCHANGED <<now, users, refresh_tokens, access, logins, ended>>

\* write_token: the one row of the user, whatever it held.  The call is answered, or
\* its time is up although the row is written.
WriteToken(c) ==
  /\ call[c].kind \in {"login", "logout"}
  /\ refresh_tokens' = [refresh_tokens EXCEPT ![call[c].user] = call[c].row]
  /\ ended' = IF call[c].kind = "logout"
              THEN [ended EXCEPT ![call[c].row.hash] =
                      IF @ # NoRow /\ @ > call[c].at THEN @ ELSE call[c].at]
              ELSE ended
  /\ call' = [call EXCEPT ![c] = Idle]
  /\ UNCHANGED <<now, users, access, logins>>

\* The write fails or never starts; login and logout answer 200 all the same when
\* the database answered with an error (auth.rs:129, 192).  A call that has found a
\* row ends because the row has expired, or its browser left.
GivesUp(c) ==
  /\ call[c] # Idle
  /\ call' = [call EXCEPT ![c] = Idle]
  /\ UNCHANGED <<now, users, refresh_tokens, access, logins, ended>>

-----------------------------------------------------------------------------
(* Refresh.                                                                  *)

\* A new access token for a refresh token that was found and has not expired.
RefreshToken(c) ==
  /\ call[c].kind = "found"
  /\ ~(call[c].row.expires < now)
  /\ GenerateAccessToken(call[c].row.hash, call[c].user, call[c].row.role)
  /\ call' = [call EXCEPT ![c] = Idle]
  /\ UNCHANGED <<now, users, refresh_tokens, logins, ended>>

UserCommand ==
  \E u \in Users : DeleteUser(u) \/ \E role \in Roles : CreateUser(u, role) \/ UpdateUser(u, role)

Next ==
  \/ Tick \/ UserCommand
  \/ \E c \in Calls :
       \/ \E u \in Users : Login(c, u)
       \/ \E hash \in Hashes : FindToken(c, hash)
       \/ Logout(c) \/ RefreshToken(c) \/ WriteToken(c) \/ GivesUp(c)

Spec == Init /\ [][Next]_vars

-----------------------------------------------------------------------------
(* Properties.                                                               *)

Made(u, row) ==
  /\ logins[row.hash] # NoRow
  /\ logins[row.hash].user = u /\ logins[row.hash].role = row.role

\* However logins and logouts of a user cross, and whatever happens to the user
\* meanwhile, the row of a user and every row a call carries hold the hash and the role of
\* one login of that very user (auth.rs:106-116, 169-179, tokens_worker.rs:50-75).
RowsOfOneLogin ==
  /\ \A u \in Users : refresh_tokens[u] # NoRow => Made(u, refresh_tokens[u])
  /\ \A c \in Calls : call[c] # Idle => Made(call[c].user, call[c].row)

\* An access token names the user and the role of the login its hash was made for.
AccessFromLogin ==
  \A h \in Hashes : access[h] # NoRow =>
    logins[h] # NoRow /\ access[h].id = logins[h].user /\ access[h].role = logins[h].role

\* The row of a token ends when the login of it said, or when a logout of it that was
\* written said.
EndsAsSaid(row, at) ==
  IF at = NoRow THEN row.expires = logins[row.hash].at + RefreshLife ELSE row.expires <= at

ExpiresAsSaid ==
  \A u \in Users : refresh_tokens[u] # NoRow =>
    EndsAsSaid(refresh_tokens[u], ended[refresh_tokens[u].hash])

FoundAsSaid ==
  \A c \in Calls : call[c].kind = "found" => EndsAsSaid(call[c].row, call[c].ended)

\* Nobody knows the token of a login that is not yet written.
LoginAlone ==
  \A c \in Calls : call[c].kind = "login" =>
    LET row == call[c].row
    IN  /\ ended[row.hash] = NoRow /\ row.expires = logins[row.hash].at + RefreshLife
        /\ \A u \in Users : ~Holds(u, row.hash)
        /\ \A d \in Calls \ {c} : call[d] # Idle => call[d].row.hash # row.hash

\* A logout writes the time it was asked at.
LogoutsAreNow == \A c \in Calls : call[c].kind = "logout" => call[c].row.expires = call[c].at

OnlyMadeEnds == \A h \in Hashes : ended[h] # NoRow => logins[h] # NoRow

\* The inductive invariant: a row or a call never mixes two logins, so that a logout
\* ends the token it names and no other.
IndInv ==
  /\ TypeOK /\ RowsOfOneLogin /\ AccessFromLogin
  /\ ExpiresAsSaid /\ FoundAsSaid /\ LoginAlone /\ LogoutsAreNow /\ OnlyMadeEnds

\* A refresh that finds a token after a logout of it was written gives no access later
\* than the second of that logout, and any other none later than a month after the
\* login (auth.rs:169-179, 216-228); a refresh that had found it before still does.
SessionEnds ==
  [][\A c \in Calls : RefreshToken(c) =>
       IF call[c].ended = NoRow THEN now <= logins[call[c].row.hash].at + RefreshLife
       ELSE now <= call[c].ended]_vars
=============================================================================
