----------------------------- MODULE ApiProofs -----------------------------
(***************************************************************************)
(* Theorems about two parts of the API that do not meet: Sessions, for     *)
(* every set of users, roles and calls, every life of the tokens and any   *)
(* number of logins, and LiveSockets, for every set of connections, nodes, *)
(* devices and tags, every capacity of a channel and any number of events. *)
(***************************************************************************)
EXTENDS Sessions, LiveSockets, TLAPS

-----------------------------------------------------------------------------
(* Sessions.                                                                 *)

USE SessionsAssumption

\* What the types say of one call, one row and one login.
LEMMA Typed ==
  ASSUME TypeOK
  PROVE  /\ \A c \in Calls : call[c] # Idle =>
              call[c].kind # "idle" /\ call[c].user \in Users /\ call[c].row \in Rows
         /\ \A c \in Calls : call[c].kind = "found" => call[c] # Idle /\ call[c] \in Found
         /\ \A c \in Calls : call[c].kind \in {"login", "logout"} =>
              call[c] # Idle /\ call[c] \in Asked
         /\ \A u \in Users : refresh_tokens[u] # NoRow => refresh_tokens[u] \in Rows
         /\ \A h \in Hashes : logins[h] # NoRow => logins[h] \in Logins
         /\ Idle \notin Found \cup Asked /\ NoRow \notin Rows /\ NoRow \notin Logins /\ NoRow \notin Claims
         /\ NoRow \notin 0 .. MaxTime
<1>1. /\ Idle \notin Found \cup Asked /\ Idle.kind = "idle"
      /\ \A f \in Found : f.kind = "found"
      /\ \A a \in Asked : a.kind \in {"login", "logout"}
  BY DEF Idle, Found, Asked
<1>2. NoRow \notin Rows
  <2>1. Rows \subseteq [role : Roles, hash : Nat, expires : Nat]
    BY DEF Rows, Hashes
  <2> QED
    BY <2>1
<1>3. NoRow \notin Logins
  <2>1. Logins \subseteq [user : Users, role : Roles, at : Nat]
    BY DEF Logins
  <2> QED
    BY <2>1
<1>4. NoRow \notin Claims
  <2>1. Claims \subseteq [id : Users, role : Roles, exp : Nat]
    BY DEF Claims
  <2> QED
    BY <2>1
<1>5. NoRow \notin 0 .. MaxTime
  OBVIOUS
<1>6. \A c \in Calls : call[c] = Idle \/ call[c] \in Found \/ call[c] \in Asked
  BY DEF TypeOK
<1>7. \A x \in Found \cup Asked : x.user \in Users /\ x.row \in Rows
  BY DEF Found, Asked
<1>8. /\ \A u \in Users : refresh_tokens[u] # NoRow => refresh_tokens[u] \in Rows
      /\ \A h \in Hashes : logins[h] # NoRow => logins[h] \in Logins
  BY DEF TypeOK
<1> QED
  BY <1>1, <1>2, <1>3, <1>4, <1>5, <1>6, <1>7, <1>8

\* A row is its fields.
LEMMA RowFields ==
  ASSUME NEW role \in Roles, NEW hash \in Hashes, NEW expires \in 0 .. MaxTime + RefreshLife
  PROVE  /\ Row(role, hash, expires) \in Rows
         /\ Row(role, hash, expires).role = role /\ Row(role, hash, expires).hash = hash
         /\ Row(role, hash, expires).expires = expires
BY DEF Row, Rows

\* Steps that leave every row, call and token alone.
LEMMA QuietStep ==
  ASSUME IndInv, now' \in 0 .. MaxTime, users' \in [Users -> Roles \cup {NoRow}],
         UNCHANGED <<refresh_tokens, call, access, logins, ended>>
  PROVE  IndInv'
BY DEF IndInv, TypeOK, RowsOfOneLogin, Made, AccessFromLogin, ExpiresAsSaid, FoundAsSaid,
       EndsAsSaid, LoginAlone, Holds, LogoutsAreNow, OnlyMadeEnds

LEMMA LoginStep ==
  ASSUME IndInv, NEW c \in Calls, NEW u \in Users, Login(c, u)
  PROVE  IndInv'
<1> USE DEF IndInv
<1>1. PICK hash \in Hashes :
        /\ logins[hash] = NoRow
        /\ logins' = [logins EXCEPT ![hash] = [user |-> u, role |-> users[u], at |-> now]]
        /\ call' = [call EXCEPT ![c] = [kind |-> "login", user |-> u,
                                        row |-> Row(users[u], hash, now + RefreshLife), at |-> now]]
        /\ GenerateAccessToken(hash, u, users[u])
  BY DEF Login
<1>2. /\ call[c] = Idle /\ users[u] \in Roles
      /\ UNCHANGED <<now, users, refresh_tokens, ended>>
  BY DEF Login, TypeOK
<1> DEFINE row == Row(users[u], hash, now + RefreshLife)
           login == [user |-> u, role |-> users[u], at |-> now]
           asked == [kind |-> "login", user |-> u, row |-> row, at |-> now]
           claims == [id |-> u, role |-> users[u], exp |-> now + AccessLife]
<1>3. /\ row \in Rows /\ row.role = users[u] /\ row.hash = hash
      /\ row.expires = now + RefreshLife
  <2>1. now + RefreshLife \in 0 .. MaxTime + RefreshLife
    BY DEF TypeOK
  <2> QED
    BY <2>1, <1>2, RowFields
<1> HIDE DEF row
<1>4. /\ login \in Logins /\ login.user = u /\ login.role = users[u] /\ login.at = now
      /\ asked \in Asked /\ asked.kind = "login" /\ asked.user = u /\ asked.row = row
      /\ asked.at = now
      /\ claims \in Claims /\ claims.id = u /\ claims.role = users[u]
  BY <1>2, <1>3 DEF Logins, Asked, Claims, TypeOK
<1>5. /\ logins' = [logins EXCEPT ![hash] = login]
      /\ call' = [call EXCEPT ![c] = asked]
      /\ access' = [access EXCEPT ![hash] = claims]
  BY <1>1 DEF row, GenerateAccessToken
<1> HIDE DEF login, asked, claims
<1>6. TypeOK'
  BY <1>2, <1>4, <1>5 DEF TypeOK
<1>7. /\ \A h \in Hashes : logins'[h] = IF h = hash THEN login ELSE logins[h]
      /\ \A h \in Hashes : access'[h] = IF h = hash THEN claims ELSE access[h]
      /\ \A d \in Calls : call'[d] = IF d = c THEN asked ELSE call[d]
  BY <1>5 DEF TypeOK
<1>8. login # NoRow /\ claims # NoRow /\ asked # Idle /\ Idle.kind = "idle"
  BY <1>4, Typed DEF Idle
\* Nobody has the new hash.
<1>9. /\ \A v \in Users : refresh_tokens[v] # NoRow =>
           refresh_tokens[v].hash \in Hashes \ {hash}
      /\ \A d \in Calls : call[d] # Idle =>
           call[d].row.hash \in Hashes \ {hash}
      /\ ended[hash] = NoRow
  <2>1. \A v \in Users : refresh_tokens[v] # NoRow => refresh_tokens[v].hash \in Hashes \ {hash}
    BY <1>1, Typed DEF RowsOfOneLogin, Made, Rows
  <2>2. \A d \in Calls : call[d] # Idle => call[d].row.hash \in Hashes \ {hash}
    BY <1>1, Typed DEF RowsOfOneLogin, Made, Rows
  <2> QED
    BY <1>1, <2>1, <2>2 DEF OnlyMadeEnds
<1>10. RowsOfOneLogin'
  <2>1. ASSUME NEW v \in Users, refresh_tokens[v] # NoRow
        PROVE  Made(v, refresh_tokens[v])'
    BY <2>1, <1>2, <1>7, <1>9 DEF RowsOfOneLogin, Made
  <2>2. ASSUME NEW d \in Calls, call'[d] # Idle
        PROVE  Made(call[d].user, call[d].row)'
    <3>1. CASE d = c
      BY <3>1, <1>3, <1>4, <1>7, <1>8 DEF Made
    <3>2. CASE d # c
      BY <3>2, <2>2, <1>7, <1>9 DEF RowsOfOneLogin, Made
    <3> QED
      BY <3>1, <3>2
  <2> QED
    BY <2>1, <2>2, <1>2 DEF RowsOfOneLogin
<1>11. AccessFromLogin'
  BY <1>4, <1>7, <1>8 DEF AccessFromLogin
<1>12. ExpiresAsSaid'
  BY <1>2, <1>7, <1>9 DEF ExpiresAsSaid, EndsAsSaid
<1>16. FoundAsSaid'
  <2> SUFFICES ASSUME NEW d \in Calls, call'[d].kind = "found"
               PROVE  EndsAsSaid(call[d].row, call[d].ended)'
    BY DEF FoundAsSaid
  <2>1. call'[d] = call[d] /\ call[d] # Idle
    BY <1>4, <1>7, <1>8
  <2> QED
    BY <2>1, <1>2, <1>7, <1>9 DEF FoundAsSaid, EndsAsSaid
<1>13. LoginAlone'
  <2> SUFFICES ASSUME NEW d \in Calls, call'[d].kind = "login"
               PROVE  /\ ended[call'[d].row.hash] = NoRow
                      /\ call'[d].row.expires = logins'[call'[d].row.hash].at + RefreshLife
                      /\ \A v \in Users : ~(refresh_tokens[v] # NoRow /\
                                            refresh_tokens[v].hash = call'[d].row.hash)
                      /\ \A e \in Calls \ {d} : call'[e] # Idle =>
                           call'[e].row.hash # call'[d].row.hash
    BY <1>2 DEF LoginAlone, Holds
  <2>1. CASE d = c
    BY <2>1, <1>3, <1>4, <1>7, <1>9
  <2>2. CASE d # c
    <3>1. call'[d] = call[d] /\ call[d] # Idle /\ call[d].row.hash \in Hashes \ {hash}
      BY <2>2, <1>7, <1>8, <1>9
    <3> QED
      BY <2>2, <3>1, <1>3, <1>4, <1>7 DEF LoginAlone, Holds
  <2> QED
    BY <2>1, <2>2
<1>14. LogoutsAreNow'
  BY <1>4, <1>7 DEF LogoutsAreNow
<1>15. OnlyMadeEnds'
  BY <1>2, <1>7, <1>8 DEF OnlyMadeEnds
<1> QED
  BY <1>6, <1>10, <1>11, <1>12, <1>13, <1>14, <1>15, <1>16

LEMMA FindTokenStep ==
  ASSUME IndInv, NEW c \in Calls, NEW hash \in Hashes, FindToken(c, hash)
  PROVE  IndInv'
<1> USE DEF IndInv
<1>1. PICK u \in Users :
        /\ Holds(u, hash)
        /\ call' = [call EXCEPT ![c] =
             [kind |-> "found", user |-> u, row |-> refresh_tokens[u], ended |-> ended[hash]]]
  BY DEF FindToken
<1>2. call[c] = Idle /\ UNCHANGED <<now, users, refresh_tokens, access, logins, ended>>
  BY DEF FindToken
<1> DEFINE row == refresh_tokens[u]
           found == [kind |-> "found", user |-> u, row |-> row, ended |-> ended[hash]]
<1>3. row # NoRow /\ row \in Rows /\ row.hash = hash
  BY <1>1, Typed DEF Holds
<1>4. call' = [call EXCEPT ![c] = found]
  BY <1>1
<1>5. Made(u, row) /\ EndsAsSaid(row, ended[hash])
  BY <1>3 DEF RowsOfOneLogin, ExpiresAsSaid
<1> HIDE DEF row
<1>6. /\ found \in Found /\ found.kind = "found" /\ found.user = u /\ found.row = row
      /\ found.ended = ended[hash]
  BY <1>3 DEF Found, TypeOK
<1> HIDE DEF found
<1>7. \A d \in Calls : call'[d] = IF d = c THEN found ELSE call[d]
  BY <1>4 DEF TypeOK
<1>8. TypeOK'
  BY <1>2, <1>4, <1>6 DEF TypeOK
<1>9. RowsOfOneLogin' /\ FoundAsSaid'
  BY <1>2, <1>5, <1>6, <1>7 DEF RowsOfOneLogin, Made, FoundAsSaid, EndsAsSaid
<1>10. AccessFromLogin' /\ ExpiresAsSaid' /\ OnlyMadeEnds'
  BY <1>2 DEF AccessFromLogin, ExpiresAsSaid, EndsAsSaid, OnlyMadeEnds
<1>11. LoginAlone'
  <2> SUFFICES ASSUME NEW d \in Calls, call'[d].kind = "login"
               PROVE  /\ ended[call'[d].row.hash] = NoRow
                      /\ call'[d].row.expires = logins[call'[d].row.hash].at + RefreshLife
                      /\ \A v \in Users : ~(refresh_tokens[v] # NoRow /\
                                            refresh_tokens[v].hash = call'[d].row.hash)
                      /\ \A e \in Calls \ {d} : call'[e] # Idle =>
                           call'[e].row.hash # call'[d].row.hash
    BY <1>2 DEF LoginAlone, Holds
  <2>1. d # c /\ call'[d] = call[d]
    BY <1>6, <1>7
  <2>2. call[d].row.hash # hash
    BY <2>1, <1>1 DEF LoginAlone
  <2> QED
    BY <2>1, <2>2, <1>3, <1>6, <1>7 DEF LoginAlone, Holds
<1>12. LogoutsAreNow'
  BY <1>6, <1>7 DEF LogoutsAreNow
<1> QED
  BY <1>8, <1>9, <1>10, <1>11, <1>12

LEMMA LogoutStep ==
  ASSUME IndInv, NEW c \in Calls, Logout(c)
  PROVE  IndInv'
<1> USE DEF IndInv
<1> DEFINE user == call[c].user
           hash == call[c].row.hash
           row == Row(call[c].row.role, hash, now)
           asked == [kind |-> "logout", user |-> user, row |-> row, at |-> now]
<1>1. /\ call[c].kind = "found" /\ call' = [call EXCEPT ![c] = asked]
      /\ UNCHANGED <<now, users, refresh_tokens, access, logins, ended>>
  BY DEF Logout, TypeOK
<1>2. /\ call[c] # Idle /\ user \in Users /\ call[c].row \in Rows
      /\ hash \in Hashes /\ call[c].row.role \in Roles
  BY <1>1, Typed DEF Found, Rows
<1>3. /\ row \in Rows /\ row.role = call[c].row.role /\ row.hash = hash
      /\ row.expires = now
  <2>1. now \in 0 .. MaxTime + RefreshLife
    BY DEF TypeOK
  <2> QED
    BY <2>1, <1>2, RowFields
<1>4. Made(user, row)
  BY <1>2, <1>3 DEF RowsOfOneLogin, Made
<1> HIDE DEF user, hash, row
<1>5. /\ asked \in Asked /\ asked.kind = "logout" /\ asked.user = user /\ asked.row = row
      /\ asked.at = now
  BY <1>2, <1>3 DEF Asked, TypeOK
<1> HIDE DEF asked
<1>6. \A d \in Calls : call'[d] = IF d = c THEN asked ELSE call[d]
  BY <1>1 DEF TypeOK
<1>7. TypeOK'
  BY <1>1, <1>5 DEF TypeOK
<1>8. RowsOfOneLogin' /\ FoundAsSaid' /\ LogoutsAreNow'
  BY <1>1, <1>3, <1>4, <1>5, <1>6
     DEF RowsOfOneLogin, Made, FoundAsSaid, EndsAsSaid, LogoutsAreNow
<1>9. AccessFromLogin' /\ ExpiresAsSaid' /\ OnlyMadeEnds'
  BY <1>1 DEF AccessFromLogin, ExpiresAsSaid, EndsAsSaid, OnlyMadeEnds
<1>10. LoginAlone'
  <2> SUFFICES ASSUME NEW d \in Calls, call'[d].kind = "login"
               PROVE  /\ ended[call'[d].row.hash] = NoRow
                      /\ call'[d].row.expires = logins[call'[d].row.hash].at + RefreshLife
                      /\ \A v \in Users : ~(refresh_tokens[v] # NoRow /\
                                            refresh_tokens[v].hash = call'[d].row.hash)
                      /\ \A e \in Calls \ {d} : call'[e] # Idle =>
                           call'[e].row.hash # call'[d].row.hash
    BY <1>1 DEF LoginAlone, Holds
  <2>1. d # c /\ call'[d] = call[d]
    BY <1>5, <1>6
  <2>2. call[d].row.hash # hash
    BY <2>1, <1>2 DEF LoginAlone, hash
  <2> QED
    BY <2>1, <2>2, <1>3, <1>5, <1>6 DEF LoginAlone, Holds
<1> QED
  BY <1>7, <1>8, <1>9, <1>10

LEMMA GivesUpStep ==
  ASSUME IndInv, NEW c \in Calls, GivesUp(c)
  PROVE  IndInv'
<1> USE DEF IndInv
<1>1. /\ \A d \in Calls : call'[d] = IF d = c THEN Idle ELSE call[d]
      /\ call' \in [Calls -> {Idle} \cup Found \cup Asked] /\ Idle.kind = "idle"
      /\ UNCHANGED <<now, users, refresh_tokens, access, logins, ended>>
  BY DEF GivesUp, TypeOK, Idle
<1>2. TypeOK' /\ RowsOfOneLogin' /\ FoundAsSaid' /\ LogoutsAreNow'
  BY <1>1 DEF TypeOK, RowsOfOneLogin, Made, FoundAsSaid, EndsAsSaid, LogoutsAreNow
<1>3. AccessFromLogin' /\ ExpiresAsSaid' /\ OnlyMadeEnds'
  BY <1>1 DEF AccessFromLogin, ExpiresAsSaid, EndsAsSaid, OnlyMadeEnds
<1>4. LoginAlone'
  BY <1>1 DEF LoginAlone, Holds
<1> QED
  BY <1>2, <1>3, <1>4

LEMMA WriteTokenStep ==
  ASSUME IndInv, NEW c \in Calls, WriteToken(c)
  PROVE  IndInv'
<1> USE DEF IndInv
<1> DEFINE row == call[c].row
           user == call[c].user
           out == call[c].kind = "logout"
           later == IF ended[row.hash] # NoRow /\ ended[row.hash] > call[c].at
                    THEN ended[row.hash] ELSE call[c].at
<1>1. /\ call[c] # Idle /\ call[c] \in Asked
      /\ user \in Users /\ row \in Rows /\ row.hash \in Hashes /\ call[c].at \in 0 .. MaxTime
      /\ call[c].kind \in {"login", "logout"} /\ Idle.kind = "idle"
  BY Typed DEF WriteToken, Asked, Rows, Idle
<1>2. /\ refresh_tokens' = [refresh_tokens EXCEPT ![user] = row]
      /\ call' = [call EXCEPT ![c] = Idle]
      /\ UNCHANGED <<now, users, access, logins>>
      /\ ended' = IF out THEN [ended EXCEPT ![row.hash] = later] ELSE ended
  BY DEF WriteToken
<1>3. later \in 0 .. MaxTime
  BY <1>1 DEF TypeOK
<1>4. /\ \A v \in Users : refresh_tokens'[v] = IF v = user THEN row ELSE refresh_tokens[v]
      /\ \A d \in Calls : call'[d] = IF d = c THEN Idle ELSE call[d]
      /\ \A h \in Hashes : ended'[h] = IF out /\ h = row.hash THEN later ELSE ended[h]
  BY <1>1, <1>2 DEF TypeOK
<1>5. /\ later >= call[c].at
      /\ ended[row.hash] # NoRow => later >= ended[row.hash]
  BY <1>1 DEF TypeOK
<1>6. Made(user, row) /\ logins[row.hash] # NoRow
  BY <1>1 DEF RowsOfOneLogin, Made
<1>7. /\ refresh_tokens' \in [Users -> Rows \cup {NoRow}]
      /\ call' \in [Calls -> {Idle} \cup Found \cup Asked]
      /\ ended' \in [Hashes -> 0 .. MaxTime \cup {NoRow}]
  BY <1>1, <1>2, <1>3 DEF TypeOK
<1>8. later # NoRow /\ row # NoRow
  BY <1>1, <1>3, Typed
<1>9. out => row.expires = call[c].at
  BY <1>1 DEF LogoutsAreNow
<1>10. ~out => /\ ended[row.hash] = NoRow /\ row.expires = logins[row.hash].at + RefreshLife
               /\ \A v \in Users : ~Holds(v, row.hash)
               /\ \A d \in Calls \ {c} : call[d] # Idle => call[d].row.hash # row.hash
  BY <1>1 DEF LoginAlone
<1>11. \A v \in Users : refresh_tokens[v] # NoRow => refresh_tokens[v].hash \in Hashes
  BY Typed DEF Rows
<1> HIDE DEF row, user, out, later
<1>12. TypeOK'
  BY <1>2, <1>7 DEF TypeOK
<1>13. RowsOfOneLogin'
  <2>1. ASSUME NEW v \in Users, refresh_tokens'[v] # NoRow
        PROVE  Made(v, refresh_tokens[v])'
    BY <2>1, <1>2, <1>4, <1>6 DEF RowsOfOneLogin, Made
  <2>2. ASSUME NEW d \in Calls, call'[d] # Idle
        PROVE  Made(call[d].user, call[d].row)'
    BY <2>2, <1>2, <1>4 DEF RowsOfOneLogin, Made
  <2> QED
    BY <2>1, <2>2 DEF RowsOfOneLogin
<1>14. AccessFromLogin'
  BY <1>2 DEF AccessFromLogin
<1>15. ExpiresAsSaid'
  <2> SUFFICES ASSUME NEW v \in Users, refresh_tokens'[v] # NoRow
               PROVE  IF ended'[refresh_tokens'[v].hash] = NoRow
                      THEN refresh_tokens'[v].expires = logins[refresh_tokens'[v].hash].at + RefreshLife
                      ELSE refresh_tokens'[v].expires <= ended'[refresh_tokens'[v].hash]
    BY <1>2 DEF ExpiresAsSaid, EndsAsSaid
  <2>1. CASE v = user
    <3>1. refresh_tokens'[v] = row
      BY <2>1, <1>4
    <3>2. CASE out
      BY <3>1, <3>2, <1>1, <1>4, <1>5, <1>8, <1>9 DEF row
    <3>3. CASE ~out
      BY <3>1, <3>3, <1>1, <1>4, <1>10 DEF row
    <3> QED
      BY <3>2, <3>3
  <2>2. CASE v # user
    <3> DEFINE old == refresh_tokens[v]
    <3>1. refresh_tokens'[v] = old /\ old # NoRow /\ old.hash \in Hashes /\ old \in Rows
      BY <2>2, <1>4, <1>11, Typed
    <3>2. IF ended[old.hash] = NoRow THEN old.expires = logins[old.hash].at + RefreshLife
          ELSE old.expires <= ended[old.hash]
      BY <3>1 DEF ExpiresAsSaid, EndsAsSaid
    <3>3. old.hash # row.hash
      <4>1. logins[old.hash].user = v /\ logins[row.hash].user = user
        BY <3>1, <1>6 DEF RowsOfOneLogin, Made
      <4> QED
        BY <4>1, <2>2
    <3> QED
      BY <3>1, <3>2, <3>3, <1>4
  <2> QED
    BY <2>1, <2>2
<1>16. LoginAlone'
  <2> SUFFICES ASSUME NEW d \in Calls, call'[d].kind = "login"
               PROVE  /\ ended'[call'[d].row.hash] = NoRow
                      /\ call'[d].row.expires = logins[call'[d].row.hash].at + RefreshLife
                      /\ \A v \in Users : ~(refresh_tokens'[v] # NoRow /\
                                            refresh_tokens'[v].hash = call'[d].row.hash)
                      /\ \A e \in Calls \ {d} : call'[e] # Idle =>
                           call'[e].row.hash # call'[d].row.hash
    BY <1>2 DEF LoginAlone, Holds
  <2>1. d # c /\ call'[d] = call[d] /\ call[d] # Idle
    BY <1>1, <1>4
  <2>2. call[d].row.hash # row.hash /\ call[d].row.hash \in Hashes
    BY <2>1, <1>1, Typed DEF LoginAlone, row, Rows
  <2> QED
    BY <2>1, <2>2, <1>4 DEF LoginAlone, Holds
<1>17. LogoutsAreNow' /\ FoundAsSaid'
  BY <1>1, <1>2, <1>4 DEF LogoutsAreNow, FoundAsSaid, EndsAsSaid
<1>18. OnlyMadeEnds'
  BY <1>2, <1>4, <1>6 DEF OnlyMadeEnds
<1> QED
  BY <1>12, <1>13, <1>14, <1>15, <1>16, <1>17, <1>18

LEMMA RefreshStep ==
  ASSUME IndInv, NEW c \in Calls, RefreshToken(c)
  PROVE  IndInv'
<1> USE DEF IndInv
<1> DEFINE user == call[c].user
           hash == call[c].row.hash
           role == call[c].row.role
           claims == [id |-> user, role |-> role, exp |-> now + AccessLife]
<1>1. /\ call[c].kind = "found" /\ call' = [call EXCEPT ![c] = Idle]
      /\ access' = [access EXCEPT ![hash] = claims]
      /\ UNCHANGED <<now, users, refresh_tokens, logins, ended>>
  BY DEF RefreshToken, GenerateAccessToken
<1>2. call[c] # Idle /\ call[c].row \in Rows /\ user \in Users
  BY <1>1, Typed
<1>3. /\ hash \in Hashes /\ role \in Roles /\ logins[hash] # NoRow
      /\ logins[hash].user = user /\ logins[hash].role = role
  BY <1>2 DEF Rows, RowsOfOneLogin, Made
<1> HIDE DEF user, hash, role
<1>4. claims \in Claims /\ claims.id = user /\ claims.role = role
  BY <1>2, <1>3 DEF Claims, TypeOK
<1> HIDE DEF claims
<1>5. /\ access' \in [Hashes -> Claims \cup {NoRow}]
      /\ \A h \in Hashes : access'[h] = IF h = hash THEN claims ELSE access[h]
      /\ call' \in [Calls -> {Idle} \cup Found \cup Asked] /\ Idle.kind = "idle"
      /\ \A d \in Calls : call'[d] = IF d = c THEN Idle ELSE call[d]
  BY <1>1, <1>4 DEF TypeOK, Idle
<1>6. TypeOK' /\ AccessFromLogin'
  BY <1>1, <1>3, <1>4, <1>5 DEF TypeOK, AccessFromLogin
<1>7. ExpiresAsSaid' /\ OnlyMadeEnds'
  BY <1>1 DEF ExpiresAsSaid, EndsAsSaid, OnlyMadeEnds
<1>8. RowsOfOneLogin' /\ FoundAsSaid' /\ LogoutsAreNow'
  BY <1>1, <1>5 DEF RowsOfOneLogin, Made, FoundAsSaid, EndsAsSaid, LogoutsAreNow
<1>9. LoginAlone'
  BY <1>1, <1>5 DEF LoginAlone, Holds
<1> QED
  BY <1>6, <1>7, <1>8, <1>9

-----------------------------------------------------------------------------

LEMMA IndInvInit == Init => IndInv
<1> SUFFICES ASSUME Init PROVE IndInv
  OBVIOUS
<1>1. TypeOK
  BY DEF Init, TypeOK
<1> QED
  BY <1>1 DEF Init, IndInv, RowsOfOneLogin, AccessFromLogin, ExpiresAsSaid, FoundAsSaid,
              LoginAlone, LogoutsAreNow, OnlyMadeEnds, Idle

LEMMA IndInvStep == IndInv /\ [Next]_vars => IndInv'
<1> SUFFICES ASSUME IndInv, [Next]_vars PROVE IndInv'
  OBVIOUS
<1>1. CASE Tick
  <2>1. now' \in 0 .. MaxTime
    BY <1>1 DEF Tick, IndInv, TypeOK
  <2> QED
    BY <1>1, <2>1, QuietStep DEF Tick, IndInv, TypeOK
<1>2. CASE UserCommand
  <2>1. /\ now' \in 0 .. MaxTime /\ users' \in [Users -> Roles \cup {NoRow}]
        /\ UNCHANGED <<refresh_tokens, call, access, logins, ended>>
    BY <1>2 DEF UserCommand, DeleteUser, CreateUser, UpdateUser, IndInv, TypeOK
  <2> QED
    BY <2>1, QuietStep
<1>3. ASSUME NEW c \in Calls,
             \/ \E u \in Users : Login(c, u)
             \/ \E hash \in Hashes : FindToken(c, hash)
             \/ Logout(c) \/ RefreshToken(c) \/ WriteToken(c) \/ GivesUp(c)
      PROVE  IndInv'
  BY <1>3, LoginStep, FindTokenStep, LogoutStep, RefreshStep, WriteTokenStep, GivesUpStep
<1>4. CASE UNCHANGED vars
  BY <1>4, QuietStep DEF vars, IndInv, TypeOK
<1> QED
  BY <1>1, <1>2, <1>3, <1>4 DEF Next

\* The row of a user and every row a call carries are of one login of that user, and end
\* when that login said or when a logout of it was written (auth.rs:106-116, 169-179,
\* tokens_worker.rs:50-75).
THEOREM SessionsWhole == Spec => []IndInv
<1>1. Init => IndInv
  BY IndInvInit
<1>2. IndInv /\ [Next]_vars => IndInv'
  BY IndInvStep
<1> QED
  BY <1>1, <1>2, PTL DEF Spec

\* No access later than the second of a logout that was written before the refresh found
\* the token, or than the life of the token (auth.rs:204-245).
THEOREM SessionsEnd == Spec => SessionEnds
<1> DEFINE InTime ==
      \A c \in Calls : RefreshToken(c) =>
        IF call[c].ended = NoRow THEN now <= logins[call[c].row.hash].at + RefreshLife
        ELSE now <= call[c].ended
<1>1. IndInv => InTime
  <2> SUFFICES ASSUME IndInv, NEW c \in Calls, RefreshToken(c)
               PROVE  IF call[c].ended = NoRow
                      THEN now <= logins[call[c].row.hash].at + RefreshLife
                      ELSE now <= call[c].ended
    OBVIOUS
  <2> DEFINE row == call[c].row
  <2>1. call[c].kind = "found" /\ ~(row.expires < now)
    BY DEF RefreshToken
  <2>2. /\ call[c] # Idle /\ row \in Rows /\ row.hash \in Hashes
        /\ row.expires \in Nat /\ now \in Nat
        /\ call[c].ended # NoRow => call[c].ended \in Nat
    BY <2>1, Typed DEF Found, Rows, IndInv, TypeOK
  <2>3. logins[row.hash].at \in Nat
    BY <2>2, Typed DEF IndInv, RowsOfOneLogin, Made, Logins
  <2>4. EndsAsSaid(row, call[c].ended)
    BY <2>1 DEF IndInv, FoundAsSaid
  <2> QED
    BY <2>1, <2>2, <2>3, <2>4 DEF EndsAsSaid
<1>2. IndInv => [InTime]_vars
  BY <1>1
<1> QED
  BY <1>2, SessionsWhole, PTL DEF SessionEnds

HIDE SessionsAssumption

-----------------------------------------------------------------------------
(* LiveSockets.                                                              *)

USE LiveSocketsAssumption

\* Sequences.
LEMMA Appended ==
  ASSUME NEW S, NEW q \in Seq(S), NEW e \in S
  PROVE  /\ Append(q, e) \in Seq(S) /\ Append(q, e) # <<>>
         /\ Len(q) \in Nat /\ Len(Append(q, e)) = Len(q) + 1
         /\ DOMAIN q = 1 .. Len(q) /\ DOMAIN Append(q, e) = 1 .. Len(q) + 1
         /\ \A i \in DOMAIN q : i \in DOMAIN Append(q, e) /\ Append(q, e)[i] = q[i]
         /\ Append(q, e)[Len(q) + 1] = e
OBVIOUS

\* The first element of a sequence, and the others.
LEMMA HeadAndTail ==
  ASSUME NEW S, NEW q \in Seq(S), q # <<>>
  PROVE  /\ Head(q) \in S /\ Head(q) = q[1] /\ 1 \in DOMAIN q
         /\ Tail(q) \in Seq(S) /\ Len(q) \in Nat \ {0} /\ Len(Tail(q)) = Len(q) - 1
         /\ DOMAIN q = 1 .. Len(q) /\ DOMAIN Tail(q) = 1 .. Len(q) - 1
         /\ \A i \in DOMAIN Tail(q) : i + 1 \in DOMAIN q /\ Tail(q)[i] = q[i + 1]
OBVIOUS

\* No element, no place.
LEMMA NoPlace ==
  /\ DOMAIN <<>> = {} /\ Len(<<>>) = 0
  /\ \A S : <<>> \in Seq(S)
OBVIOUS

-----------------------------------------------------------------------------
(* Messages.                                                                 *)

\* A message is a function from some things to states; nothing is one.
LEMMA MessageFacts ==
  /\ \A f \in Message : /\ f \in [DOMAIN f -> States] /\ DOMAIN f \subseteq Things
  /\ \A T \in SUBSET Things : \A f \in [T -> States] : f \in Message
  /\ Nothing \in Message /\ DOMAIN Nothing = {}
<1>1. \A T \in SUBSET Things : \A f \in [T -> States] : f \in Message
  BY DEF Message
<1>2. Nothing \in [{} -> States]
  BY DEF Nothing
<1>3. {} \in SUBSET Things
  OBVIOUS
<1> QED
  BY <1>1, <1>2, <1>3 DEF Message, Nothing

\* What a unit takes of some changes.
LEMMA Takes ==
  ASSUME NEW f \in Message, NEW wanted
  PROVE  /\ AskedFor(wanted, f) \in Message
         /\ DOMAIN AskedFor(wanted, f) = wanted \cap DOMAIN f
         /\ \A x \in wanted \cap DOMAIN f : AskedFor(wanted, f)[x] = f[x]
<1>1. f \in [DOMAIN f -> States] /\ DOMAIN f \subseteq Things
  BY MessageFacts
<1>2. AskedFor(wanted, f) = [x \in wanted \cap DOMAIN f |-> f[x]]
  BY DEF AskedFor, Restrict
<1>3. AskedFor(wanted, f) \in [wanted \cap DOMAIN f -> States]
  BY <1>1, <1>2
<1>4. wanted \cap DOMAIN f \in SUBSET Things
  BY <1>1
<1>5. AskedFor(wanted, f) \in Message
  BY <1>3, <1>4, MessageFacts
<1> QED
  BY <1>2, <1>5

\* What is laid over a message hides it.
LEMMA Overlays ==
  ASSUME NEW f \in Message, NEW g \in Message
  PROVE  /\ Overlay(f, g) \in Message
         /\ DOMAIN Overlay(f, g) = DOMAIN f \cup DOMAIN g
         /\ \A x \in DOMAIN g : Overlay(f, g)[x] = g[x]
         /\ \A x \in DOMAIN f \ DOMAIN g : Overlay(f, g)[x] = f[x]
<1>1. /\ f \in [DOMAIN f -> States] /\ DOMAIN f \subseteq Things
      /\ g \in [DOMAIN g -> States] /\ DOMAIN g \subseteq Things
  BY MessageFacts
<1>2. Overlay(f, g) \in [DOMAIN f \cup DOMAIN g -> States]
  BY <1>1 DEF Overlay
<1>3. DOMAIN f \cup DOMAIN g \in SUBSET Things
  BY <1>1
<1>4. Overlay(f, g) \in Message
  BY <1>2, <1>3, MessageFacts
<1> QED
  BY <1>4 DEF Overlay

\* What an event changes.
LEMMA Changes ==
  ASSUME cache \in Message, NEW event \in Message
  PROVE  /\ Changed(event) \in Message
         /\ DOMAIN Changed(event) = {x \in DOMAIN event : x \in DOMAIN cache => cache[x] # event[x]}
         /\ \A x \in DOMAIN Changed(event) : Changed(event)[x] = event[x]
<1> DEFINE D == {x \in DOMAIN event : x \in DOMAIN cache => cache[x] # event[x]}
<1>1. event \in [DOMAIN event -> States] /\ DOMAIN event \subseteq Things
  BY MessageFacts
<1>2. Changed(event) = [x \in D |-> event[x]]
  BY DEF Changed, Restrict
<1>3. Changed(event) \in [D -> States]
  BY <1>1, <1>2
<1>4. D \in SUBSET Things
  BY <1>1
<1>5. Changed(event) \in Message
  BY <1>3, <1>4, MessageFacts
<1> QED
  BY <1>2, <1>5

-----------------------------------------------------------------------------
(* What is told.                                                             *)

\* A message of all that changed of what was asked for is told last, when there is
\* any; else nothing of it changed.
MirroredAfter(wanted, known, shown, messages) == Mirrored(wanted, known, shown, messages)

LEMMA TellsChange ==
  ASSUME cache \in Message, NEW event \in Message, NEW wanted, NEW shown \in Message,
         NEW messages \in Seq(Message), Mirrored(wanted, cache, shown, messages),
         NEW message, message = AskedFor(wanted, Changed(event)),
         NEW after, after = IF DOMAIN message = {} THEN messages ELSE Append(messages, message)
  PROVE  MirroredAfter(wanted, Overlay(cache, event), shown, after)
<1> DEFINE known == Overlay(cache, event)
<1>1. /\ DOMAIN known = DOMAIN cache \cup DOMAIN event
      /\ \A x \in DOMAIN event : known[x] = event[x]
      /\ \A x \in DOMAIN cache \ DOMAIN event : known[x] = cache[x]
  BY Overlays
<1>2. /\ Changed(event) \in Message
      /\ DOMAIN Changed(event) = {x \in DOMAIN event : x \in DOMAIN cache => cache[x] # event[x]}
      /\ \A x \in DOMAIN Changed(event) : Changed(event)[x] = event[x]
  BY Changes
<1> DEFINE changed == Changed(event)
<1>3. changed \in Message /\ message = AskedFor(wanted, changed)
  BY <1>2
<1> HIDE DEF changed
<1>4. /\ AskedFor(wanted, changed) \in Message
      /\ DOMAIN AskedFor(wanted, changed) = wanted \cap DOMAIN changed
      /\ \A x \in wanted \cap DOMAIN changed : AskedFor(wanted, changed)[x] = changed[x]
  BY <1>3, Takes, Zenon
<1>5. /\ message \in Message /\ DOMAIN message = wanted \cap DOMAIN changed
      /\ \A x \in wanted \cap DOMAIN changed : message[x] = changed[x]
  BY <1>3, <1>4
<1>6. /\ DOMAIN message = wanted \cap DOMAIN Changed(event)
      /\ \A x \in DOMAIN message : message[x] = event[x]
  BY <1>2, <1>5 DEF changed
<1>7. /\ \A x \in DOMAIN message : x \in DOMAIN known /\ known[x] = message[x]
      /\ \A x \in wanted \ DOMAIN message : /\ x \in DOMAIN known <=> x \in DOMAIN cache
                                            /\ x \in DOMAIN known => known[x] = cache[x]
  BY <1>1, <1>2, <1>6
<1> HIDE DEF known
<1>8. CASE DOMAIN message = {}
  <2>1. after = messages
    BY <1>8
  <2>2. \A x \in wanted : x \in DOMAIN known => LastTold(shown, messages, x, known[x])
    BY <1>7, <1>8 DEF Mirrored
  <2>3. \A x \in wanted : x \notin DOMAIN known => NotTold(shown, messages, x)
    BY <1>7, <1>8 DEF Mirrored
  <2>4. MirroredAfter(wanted, known, shown, after)
    BY <2>1, <2>2, <2>3 DEF MirroredAfter, Mirrored
  <2> QED
    BY <2>4 DEF known
<1>9. CASE DOMAIN message # {}
  <2>1. after = Append(messages, message)
    BY <1>9
  <2>2. /\ Len(messages) \in Nat /\ DOMAIN messages = 1 .. Len(messages)
        /\ DOMAIN after = 1 .. Len(messages) + 1 /\ after[Len(messages) + 1] = message
        /\ \A i \in DOMAIN messages : after[i] = messages[i]
    BY <1>5, <2>1, Appended
  <2>3. ASSUME NEW x \in wanted, x \in DOMAIN message
        PROVE  x \in DOMAIN known /\ LastTold(shown, after, x, known[x])
    BY <1>7, <2>2, <2>3 DEF LastTold
  <2>4. ASSUME NEW x \in wanted, x \notin DOMAIN message, x \in DOMAIN known
        PROVE  LastTold(shown, after, x, known[x])
    <3>1. LastTold(shown, messages, x, known[x])
      BY <1>7, <2>4 DEF Mirrored
    <3>2. CASE \A i \in DOMAIN messages : x \notin DOMAIN messages[i]
      BY <2>2, <2>4, <3>1, <3>2 DEF LastTold
    <3>3. CASE \E i \in DOMAIN messages : x \in DOMAIN messages[i]
      <4>1. PICK i \in DOMAIN messages :
              /\ x \in DOMAIN messages[i] /\ messages[i][x] = known[x]
              /\ \A j \in DOMAIN messages : j > i => x \notin DOMAIN messages[j]
        BY <3>1, <3>3 DEF LastTold
      <4>2. i \in DOMAIN after /\ x \in DOMAIN after[i] /\ after[i][x] = known[x]
        BY <2>2, <4>1
      <4>3. \A j \in DOMAIN after : j > i => x \notin DOMAIN after[j]
        <5>1. \A j \in DOMAIN after : j \in DOMAIN messages \/ j = Len(messages) + 1
          BY <2>2
        <5> QED
          BY <2>2, <2>4, <4>1, <5>1
      <4> QED
        BY <4>2, <4>3 DEF LastTold
    <3> QED
      BY <3>2, <3>3
  <2>5. ASSUME NEW x \in wanted, x \notin DOMAIN known
        PROVE  NotTold(shown, after, x)
    <3>1. NotTold(shown, messages, x) /\ x \notin DOMAIN message
      BY <1>7, <2>5 DEF Mirrored
    <3> QED
      BY <2>2, <3>1 DEF NotTold
  <2>6. MirroredAfter(wanted, known, shown, after)
    BY <2>3, <2>4, <2>5 DEF MirroredAfter, Mirrored
  <2> QED
    BY <2>6 DEF known
<1> QED
  BY <1>8, <1>9

\* The first message is shown.
LEMMA TellsShown ==
  ASSUME NEW known, NEW wanted, NEW shown \in Message,
         NEW messages \in Seq(Message), messages # <<>>, Mirrored(wanted, known, shown, messages)
  PROVE  MirroredAfter(wanted, known, Overlay(shown, Head(messages)), Tail(messages))
<1> DEFINE first == Head(messages)
           then == Overlay(shown, first)
           left == Tail(messages)
<1>1. /\ first \in Message /\ first = messages[1] /\ 1 \in DOMAIN messages
      /\ Len(messages) \in Nat \ {0}
      /\ DOMAIN messages = 1 .. Len(messages) /\ DOMAIN left = 1 .. Len(messages) - 1
      /\ \A i \in DOMAIN left : i + 1 \in DOMAIN messages /\ left[i] = messages[i + 1]
  BY HeadAndTail
<1> HIDE DEF first
<1>2. /\ DOMAIN then = DOMAIN shown \cup DOMAIN first
      /\ \A x \in DOMAIN first : then[x] = first[x]
      /\ \A x \in DOMAIN shown \ DOMAIN first : then[x] = shown[x]
  BY <1>1, Overlays
<1> HIDE DEF then, left
<1>3. ASSUME NEW x \in wanted, NEW state, LastTold(shown, messages, x, state)
      PROVE  LastTold(then, left, x, state)
  <2>1. CASE \A i \in DOMAIN messages : x \notin DOMAIN messages[i]
    <3>1. x \in DOMAIN shown /\ shown[x] = state
      BY <1>3, <2>1 DEF LastTold
    <3>2. x \in DOMAIN then /\ then[x] = state
      BY <1>1, <1>2, <2>1, <3>1
    <3>3. \A i \in DOMAIN left : x \notin DOMAIN left[i]
      BY <1>1, <2>1
    <3> QED
      BY <3>2, <3>3 DEF LastTold
  <2>2. CASE \E i \in DOMAIN messages : x \in DOMAIN messages[i]
    <3>1. PICK i \in DOMAIN messages :
            /\ x \in DOMAIN messages[i] /\ messages[i][x] = state
            /\ \A j \in DOMAIN messages : j > i => x \notin DOMAIN messages[j]
      BY <1>3, <2>2 DEF LastTold
    <3>2. \A j \in DOMAIN left : j > i - 1 => x \notin DOMAIN left[j]
      <4>1. \A j \in DOMAIN left : j > i - 1 => j + 1 > i
        BY <1>1
      <4> QED
        BY <1>1, <3>1, <4>1
    <3>3. CASE i = 1
      <4>1. first = messages[i]
        BY <1>1, <3>3
      <4>3. x \in DOMAIN first /\ first[x] = state
        BY <3>1, <4>1
      <4>4. x \in DOMAIN then /\ then[x] = state
        BY <1>2, <4>3
      <4>2. \A j \in DOMAIN left : x \notin DOMAIN left[j]
        BY <1>1, <3>2, <3>3
      <4> QED
        BY <4>2, <4>4 DEF LastTold
    <3>4. CASE i # 1
      <4>1. i - 1 \in DOMAIN left /\ (i - 1) + 1 = i
        BY <1>1, <3>4
      <4>2. left[i - 1] = messages[i]
        BY <1>1, <4>1
      <4> QED
        BY <3>1, <3>2, <4>1, <4>2 DEF LastTold
    <3> QED
      BY <3>3, <3>4
  <2> QED
    BY <2>1, <2>2
<1>4. ASSUME NEW x \in wanted, NotTold(shown, messages, x)
      PROVE  NotTold(then, left, x)
  BY <1>1, <1>2, <1>4 DEF NotTold
<1>5. MirroredAfter(wanted, known, then, left)
  BY <1>3, <1>4 DEF MirroredAfter, Mirrored
<1> QED
  BY <1>5 DEF then, left, first

\* A unit that is told all that is cached begins well, when what was shown before
\* is cached.
LEMMA TellsAll ==
  ASSUME cache \in Message, NEW wanted, NEW shown \in Message, DOMAIN shown \subseteq DOMAIN cache,
         NEW all, all = AskedFor(wanted, cache),
         NEW after, after = IF DOMAIN all = {} THEN <<>> ELSE Append(<<>>, all)
  PROVE  MirroredAfter(wanted, cache, shown, after)
<1>1. /\ all \in Message /\ DOMAIN all = wanted \cap DOMAIN cache
      /\ \A x \in wanted \cap DOMAIN cache : all[x] = cache[x]
  BY Takes
<1>2. CASE DOMAIN all = {}
  <2>1. DOMAIN after = {}
    BY <1>2, NoPlace
  <2> QED
    BY <1>1, <1>2, <2>1 DEF MirroredAfter, Mirrored, NotTold
<1>3. CASE DOMAIN all # {}
  <2>1. after = <<all>>
    BY <1>3
  <2>2. DOMAIN after = {1} /\ after[1] = all
    <3>1. <<all>> \in [{1} -> Message] /\ <<all>>[1] = all
      BY <1>1
    <3> QED
      BY <2>1, <3>1
  <2>3. ASSUME NEW x \in wanted, x \in DOMAIN cache
        PROVE  LastTold(shown, after, x, cache[x])
    BY <1>1, <2>2, <2>3 DEF LastTold
  <2>4. ASSUME NEW x \in wanted, x \notin DOMAIN cache
        PROVE  NotTold(shown, after, x)
    BY <1>1, <2>2, <2>4 DEF NotTold
  <2> QED
    BY <2>3, <2>4 DEF MirroredAfter, Mirrored
<1> QED
  BY <1>2, <1>3

-----------------------------------------------------------------------------
(* The inductive invariant: the steps of the coordinator.                    *)

\* What the types say of one unit, one channel, one command and one socket.
LEMMA LiveTyped ==
  ASSUME LiveTypeOK
  PROVE  /\ \A id \in DOMAIN subscribers : id \in Ids /\ subscribers[id] \in Configs
         /\ \A id \in Ids : queue[id] \in Seq(Message)
         /\ \A i \in DOMAIN commands : commands[i] \in Commands
         /\ \A c \in Commands :
              /\ c.id \in Ids /\ c.old_id \in 0 .. MaxIds
              /\ c.type \in {"New", "Change", "Delete"}
              /\ c.type # "Delete" => c.wanted \in Configs
         /\ \A s \in Sockets : /\ sockets[s].current_id \in 0 .. MaxIds
                               /\ sockets[s].receiver \in 0 .. MaxIds
                               /\ screen[s] \in Message
         /\ ws_counter \in Nat /\ MaxIds \in Nat /\ 0 \notin Ids /\ Ids \subseteq Nat
<1>1. \A id \in DOMAIN subscribers : id \in Ids /\ subscribers[id] \in Configs
  BY DEF LiveTypeOK, Ids, Range
<1>2. \A c \in Commands :
        /\ c.id \in Ids /\ c.old_id \in 0 .. MaxIds
        /\ c.type \in {"New", "Change", "Delete"}
        /\ c.type # "Delete" => c.wanted \in Configs
  BY DEF Commands
<1>3. \A i \in DOMAIN commands : commands[i] \in Commands
  BY DEF LiveTypeOK
<1>4. \A id \in Ids : queue[id] \in Seq(Message)
  BY DEF LiveTypeOK
<1>5. \A s \in Sockets : /\ sockets[s].current_id \in 0 .. MaxIds
                        /\ sockets[s].receiver \in 0 .. MaxIds
                        /\ screen[s] \in Message
  BY DEF LiveTypeOK
<1>6. ws_counter \in Nat /\ MaxIds \in Nat /\ 0 \notin Ids /\ Ids \subseteq Nat
  BY DEF LiveTypeOK, Ids
<1> QED
  BY <1>1, <1>2, <1>3, <1>4, <1>5, <1>6

\* A change reaches each unit that stays, and the others lose their place.
LEMMA PublishGives ==
  ASSUME LiveTypeOK, NEW changes \in Message, Publish(changes)
  PROVE  /\ DOMAIN subscribers' \subseteq DOMAIN subscribers
         /\ queue' \in [Ids -> Seq(Message)] /\ \A id \in Ids : Len(queue'[id]) <= Capacity
         /\ \A id \in DOMAIN subscribers' :
              /\ subscribers'[id] = subscribers[id]
              /\ queue'[id] = LET message == AskedFor(subscribers[id], changes)
                              IN  IF DOMAIN message = {} THEN queue[id]
                                  ELSE Append(queue[id], message)
         /\ \A id \in Ids \ DOMAIN subscribers' : queue'[id] = queue[id]
<1> DEFINE message(id) == AskedFor(subscribers[id], changes)
           kept == {id \in DOMAIN subscribers : Flushes(id, message(id))}
<1>1. /\ subscribers' = [id \in kept |-> subscribers[id]]
      /\ queue' = [id \in Ids |-> IF id \in kept THEN Sent(queue[id], message(id)) ELSE queue[id]]
  BY DEF Publish, Restrict
<1>2. /\ \A id \in Ids : queue[id] \in Seq(Message) /\ Len(queue[id]) \in Nat
      /\ \A id \in Ids : Len(queue[id]) <= Capacity
      /\ kept \subseteq Ids /\ kept \subseteq DOMAIN subscribers
  BY LiveTyped DEF LiveTypeOK
<1>3. \A id \in kept : /\ Flushes(id, message(id))
                       /\ message(id) \in Message
  BY Takes
<1>4. ASSUME NEW id \in kept
      PROVE  /\ Sent(queue[id], message(id)) =
                  IF DOMAIN message(id) = {} THEN queue[id] ELSE Append(queue[id], message(id))
             /\ Sent(queue[id], message(id)) \in Seq(Message)
             /\ Len(Sent(queue[id], message(id))) <= Capacity
  <2> DEFINE m == message(id)
  <2>1. m \in Message /\ (DOMAIN m = {} \/ Len(queue[id]) < Capacity)
    BY <1>3 DEF Flushes
  <2> HIDE DEF m
  <2>2. Len(queue[id]) \in Nat /\ queue[id] \in Seq(Message) /\ Len(queue[id]) <= Capacity
    BY <1>2
  <2>3. /\ Append(queue[id], m) \in Seq(Message)
        /\ Len(Append(queue[id], m)) = Len(queue[id]) + 1
    BY <2>1, <2>2, Appended
  <2>4. Sent(queue[id], m) = IF DOMAIN m = {} THEN queue[id] ELSE Append(queue[id], m)
    BY <2>1, <2>2 DEF Sent
  <2>5. Sent(queue[id], m) \in Seq(Message) /\ Len(Sent(queue[id], m)) <= Capacity
    BY <2>1, <2>2, <2>3, <2>4
  <2> QED
    BY <2>4, <2>5 DEF m
<1> HIDE DEF message, kept
<1>5. DOMAIN subscribers' = kept /\ \A id \in kept : subscribers'[id] = subscribers[id]
  BY <1>1
<1>6. \A id \in kept : queue'[id] = Sent(queue[id], message(id))
  BY <1>1, <1>2
<1>7. \A id \in Ids \ kept : queue'[id] = queue[id]
  BY <1>1
<1>8. queue' \in [Ids -> Seq(Message)]
  BY <1>1, <1>2, <1>4
<1>9. \A id \in Ids : Len(queue'[id]) <= Capacity
  BY <1>2, <1>4, <1>6, <1>7
<1> QED
  BY <1>2, <1>4, <1>5, <1>6, <1>7, <1>8, <1>9 DEF message

\* An event keeps the invariant: what changes is cached and told.
LEMMA HearKeeps ==
  ASSUME LiveInv, NEW event \in Message, Hear(event)
  PROVE  LiveInv'
<1> DEFINE changed == Changed(event)
<1>1. /\ cache' = Overlay(cache, event) /\ Publish(changed)
      /\ events < MaxEvents /\ events' = events + 1
      /\ UNCHANGED <<commands, sockets, ws_counter, screen, sending, lost>>
  BY DEF Hear
<1>2. LiveTypeOK /\ SocketsInv /\ UnitsInv /\ KnownInv /\ KeptInv /\ Mirrors
  BY DEF LiveInv
<1>3. changed \in Message /\ DOMAIN changed \subseteq DOMAIN event
  BY <1>2, Changes DEF LiveTypeOK
<1>4. /\ cache' \in Message /\ DOMAIN cache' = DOMAIN cache \cup DOMAIN event
  BY <1>1, <1>2, Overlays DEF LiveTypeOK
<1> HIDE DEF changed
<1>5. /\ DOMAIN subscribers' \subseteq DOMAIN subscribers
      /\ queue' \in [Ids -> Seq(Message)] /\ \A id \in Ids : Len(queue'[id]) <= Capacity
      /\ \A id \in DOMAIN subscribers' :
           /\ subscribers'[id] = subscribers[id]
           /\ queue'[id] = LET message == AskedFor(subscribers[id], changed)
                           IN  IF DOMAIN message = {} THEN queue[id]
                               ELSE Append(queue[id], message)
      /\ \A id \in Ids \ DOMAIN subscribers' : queue'[id] = queue[id]
  BY <1>1, <1>2, <1>3, PublishGives
<1>6. LiveTypeOK'
  <2>1. Range(subscribers)' \subseteq Configs
    BY <1>2, <1>5, LiveTyped DEF Range
  <2> QED
    BY <1>1, <1>2, <1>4, <1>5, <2>1 DEF LiveTypeOK
<1>7. SocketsInv'
  BY <1>1, <1>2 DEF SocketsInv
<1>8. UnitsInv'
  <2>1. \A id \in Ids : id \notin DOMAIN subscribers => queue'[id] = queue[id]
    BY <1>5
  <2>2. \A i \in DOMAIN commands : commands[i].id \in Ids
    BY <1>2, LiveTyped
  <2>3. \A id \in Ids : id > ws_counter => id \notin DOMAIN subscribers
    BY <1>2, LiveTyped DEF LiveTypeOK
  <2> QED
    BY <1>1, <1>2, <1>5, <2>1, <2>2, <2>3 DEF UnitsInv, Brings
<1>9. KnownInv'
  <2>1. \A s \in Sockets : DOMAIN screen'[s] \subseteq DOMAIN cache'
    BY <1>1, <1>2, <1>4 DEF KnownInv
  <2>2. ASSUME NEW id \in Ids, NEW i \in DOMAIN queue'[id]
        PROVE  DOMAIN queue'[id][i] \subseteq DOMAIN cache'
    <3>1. queue[id] \in Seq(Message)
      BY <1>2, LiveTyped
    <3>2. CASE queue'[id] = queue[id]
      BY <1>2, <1>4, <2>2, <3>2 DEF KnownInv
    <3>3. CASE queue'[id] # queue[id]
      <4> DEFINE m == AskedFor(subscribers[id], changed)
      <4>1. m \in Message /\ DOMAIN m \subseteq DOMAIN changed
        BY <1>3, Takes
      <4>2. queue'[id] = Append(queue[id], m)
        BY <1>5, <3>3
      <4> HIDE DEF m
      <4>3. (i \in DOMAIN queue[id] /\ queue'[id][i] = queue[id][i]) \/ queue'[id][i] = m
        BY <2>2, <3>1, <4>1, <4>2, Appended
      <4> QED
        BY <1>2, <1>3, <1>4, <4>1, <4>3 DEF KnownInv
    <3> QED
      BY <3>2, <3>3
  <2> QED
    BY <2>1, <2>2 DEF KnownInv
<1>10. KeptInv'
  BY <1>1, <1>2, <1>5 DEF KeptInv, Kept
<1>11. Mirrors'
  <2> SUFFICES ASSUME NEW s \in Sockets, sockets[s].receiver \in DOMAIN subscribers'
               PROVE  LET id == sockets[s].receiver
                      IN  Mirrored(subscribers'[id], cache', screen[s], queue'[id])
    BY <1>1 DEF Mirrors
  <2> DEFINE id == sockets[s].receiver
             wanted == subscribers[id]
             told == AskedFor(wanted, changed)
             after == IF DOMAIN told = {} THEN queue[id] ELSE Append(queue[id], told)
             shown == screen[s]
             messages == queue[id]
  <2>1. id \in DOMAIN subscribers /\ subscribers'[id] = wanted /\ queue'[id] = after
    BY <1>5
  <2>2. Mirrored(wanted, cache, shown, messages)
    BY <1>2, <2>1 DEF Mirrors
  <2>3. shown \in Message /\ messages \in Seq(Message)
    BY <1>2, <2>1, LiveTyped
  <2>4. told = AskedFor(wanted, Changed(event))
    BY DEF changed
  <2>5. after = IF DOMAIN told = {} THEN messages ELSE Append(messages, told)
    OBVIOUS
  <2> HIDE DEF id, wanted, told, after, shown, messages
  <2>6. MirroredAfter(wanted, Overlay(cache, event), shown, after)
    BY <1>2, <2>2, <2>3, <2>4, <2>5, TellsChange DEF LiveTypeOK
  <2>7. Mirrored(wanted, cache', shown, after)
    BY <1>1, <2>6 DEF MirroredAfter
  <2> QED
    BY <2>1, <2>7 DEF id, shown
<1> QED
  BY <1>6, <1>7, <1>8, <1>9, <1>10, <1>11 DEF LiveInv

\* What the first command does: a unit that stays is as it was and was not to be
\* removed, or it is the one that was told all that is cached.
LEMMA ObeyGives ==
  ASSUME LiveInv, Obey, NEW c, c = Head(commands), NEW all, all = AskedFor(c.wanted, cache)
  PROVE  /\ \A id \in DOMAIN subscribers' :
              \/ /\ id \in DOMAIN subscribers /\ ~Removes(c, id)
                 /\ subscribers'[id] = subscribers[id]
                 /\ ~Brings(c, id)
              \/ /\ Brings(c, id) /\ subscribers'[id] = c.wanted
                 /\ queue'[id] = IF DOMAIN all = {} THEN <<>> ELSE Append(<<>>, all)
         /\ \A id \in Ids : ~Brings(c, id) => queue'[id] = queue[id]
         /\ queue' \in [Ids -> Seq(Message)] /\ \A id \in Ids : Len(queue'[id]) <= Capacity
         /\ \A id \in Ids : \A i \in DOMAIN queue'[id] :
              queue'[id][i] = all \/ (i \in DOMAIN queue[id] /\ queue'[id][i] = queue[id][i])
<1>1. LiveTypeOK /\ SocketsInv /\ UnitsInv
  BY DEF LiveInv
<1>2. c \in Commands /\ c = commands[1] /\ 1 \in DOMAIN commands
  BY <1>1, HeadAndTail DEF Obey, LiveTypeOK
<1>3. /\ c.id \in Ids /\ c.type \in {"New", "Change", "Delete"}
      /\ queue \in [Ids -> Seq(Message)] /\ \A id \in Ids : Len(queue[id]) <= Capacity
  BY <1>1, <1>2, LiveTyped DEF LiveTypeOK
<1>4. c.type # "Delete" => queue[c.id] = <<>> /\ c.id \notin DOMAIN subscribers
  BY <1>1, <1>2 DEF UnitsInv, Brings
<1>5. all \in Message
  BY <1>1, Takes DEF LiveTypeOK
<1>6. CASE c.type = "Delete"
  <2>1. subscribers' = Others(c.id) /\ UNCHANGED queue
    BY <1>6 DEF Obey
  <2>2. subscribers' = [id \in DOMAIN subscribers \ {c.id} |-> subscribers[id]]
    BY <2>1 DEF Others, Restrict
  <2> QED
    BY <1>3, <1>6, <2>1, <2>2 DEF Brings, Removes
<1>7. CASE c.type # "Delete"
  <2> DEFINE others == IF c.type = "New" THEN subscribers ELSE Others(c.old_id)
             first == IF DOMAIN all = {} THEN <<>> ELSE Append(<<>>, all)
  <2>1. Subscribe(c.id, c.wanted, others)
    BY <1>3, <1>7 DEF Obey
  <2>2. /\ DOMAIN others \subseteq DOMAIN subscribers
        /\ \A id \in DOMAIN others : others[id] = subscribers[id] /\ ~Removes(c, id)
    <3>1. CASE c.type = "New"
      BY <3>1 DEF Removes
    <3>2. CASE c.type = "Change"
      <4>1. others = [id \in DOMAIN subscribers \ {c.old_id} |-> subscribers[id]]
        BY <3>2 DEF Others, Restrict
      <4> QED
        BY <3>2, <4>1 DEF Removes
    <3> QED
      BY <1>3, <1>7, <3>1, <3>2
  <2>3. \A id \in DOMAIN others : ~Brings(c, id)
    BY <1>4, <1>7, <2>2 DEF Brings
  <2> HIDE DEF others
  <2>4. CASE Flushes(c.id, all)
    <3>1. /\ subscribers' = Overlay(others, [x \in {c.id} |-> c.wanted])
          /\ queue' = [queue EXCEPT ![c.id] = Sent(@, all)]
      BY <2>1, <2>4 DEF Subscribe
    <3>2. /\ DOMAIN subscribers' = DOMAIN others \cup {c.id}
          /\ subscribers'[c.id] = c.wanted
          /\ \A id \in DOMAIN others : id # c.id => subscribers'[id] = others[id]
      BY <3>1 DEF Overlay
    <3>3. Sent(queue[c.id], all) = first
      <4>1. queue[c.id] = <<>> /\ ~(0 >= Capacity)
        BY <1>4, <1>7
      <4>2. Sent(<<>>, all) = IF DOMAIN all = {} \/ 0 >= Capacity THEN <<>> ELSE Append(<<>>, all)
        BY NoPlace DEF Sent
      <4>3. Sent(<<>>, all) = first
        BY <4>1, <4>2
      <4> QED
        BY <4>1, <4>3
    <3>4. first \in Seq(Message) /\ Len(first) <= Capacity /\ \A i \in DOMAIN first : first[i] = all
      <4>1. <<>> \in Seq(Message) /\ DOMAIN <<>> = {} /\ Len(<<>>) = 0
        BY NoPlace
      <4>2. /\ Append(<<>>, all) \in Seq(Message) /\ Len(Append(<<>>, all)) = 1
            /\ \A i \in DOMAIN Append(<<>>, all) : Append(<<>>, all)[i] = all
        BY <1>5
      <4> QED
        BY <4>1, <4>2
    <3> HIDE DEF first
    <3>5. queue'[c.id] = first /\ \A id \in Ids : id # c.id => queue'[id] = queue[id]
      BY <1>3, <3>1, <3>3
    <3>6. queue' \in [Ids -> Seq(Message)]
      BY <1>3, <3>1, <3>3, <3>4
    <3>7. \A id \in Ids : Len(queue'[id]) <= Capacity
      BY <1>3, <3>4, <3>5
    <3>8. \A id \in Ids : \A i \in DOMAIN queue'[id] :
            queue'[id][i] = all \/ (i \in DOMAIN queue[id] /\ queue'[id][i] = queue[id][i])
      BY <3>4, <3>5
    <3>9. \A id : Brings(c, id) <=> id = c.id
      BY <1>7 DEF Brings
    <3>10. \A id \in DOMAIN subscribers' :
              \/ /\ id \in DOMAIN subscribers /\ ~Removes(c, id)
                 /\ subscribers'[id] = subscribers[id]
                 /\ ~Brings(c, id)
              \/ Brings(c, id) /\ subscribers'[id] = c.wanted /\ queue'[id] = first
      BY <2>2, <2>3, <3>2, <3>5, <3>9
    <3> QED
      BY <3>5, <3>6, <3>7, <3>8, <3>9, <3>10 DEF first
  <2>5. CASE ~Flushes(c.id, all)
    <3>1. subscribers' = others /\ UNCHANGED queue
      BY <2>1, <2>5 DEF Subscribe
    <3> QED
      BY <1>3, <2>2, <2>3, <3>1
  <2> QED
    BY <2>4, <2>5
<1> QED
  BY <1>6, <1>7

\* A command keeps the invariant.
LEMMA ObeyKeeps ==
  ASSUME LiveInv, Obey
  PROVE  LiveInv'
<1> DEFINE c == Head(commands)
           all == AskedFor(c.wanted, cache)
<1>1. LiveTypeOK /\ SocketsInv /\ UnitsInv /\ KnownInv /\ KeptInv /\ Mirrors
  BY DEF LiveInv
<1>2. /\ commands # <<>> /\ commands' = Tail(commands)
      /\ UNCHANGED <<cache, sockets, ws_counter, screen, sending, lost, events>>
  BY DEF Obey
<1>3. /\ c \in Commands /\ c = commands[1] /\ 1 \in DOMAIN commands
      /\ Len(commands) \in Nat \ {0} /\ commands' \in Seq(Commands)
      /\ DOMAIN commands = 1 .. Len(commands) /\ DOMAIN commands' = 1 .. Len(commands) - 1
      /\ \A i \in DOMAIN commands' : i + 1 \in DOMAIN commands /\ commands'[i] = commands[i + 1]
  BY <1>1, <1>2, HeadAndTail DEF LiveTypeOK
<1>4. all \in Message /\ DOMAIN all \subseteq DOMAIN cache
  BY <1>1, Takes, ZenonT(40) DEF LiveTypeOK
<1>5. c = Head(commands) /\ all = AskedFor(c.wanted, cache)
  OBVIOUS
<1> HIDE DEF c, all
<1>6. /\ \A id \in DOMAIN subscribers' :
           \/ /\ id \in DOMAIN subscribers /\ ~Removes(c, id)
              /\ subscribers'[id] = subscribers[id]
              /\ ~Brings(c, id)
           \/ /\ Brings(c, id) /\ subscribers'[id] = c.wanted
              /\ queue'[id] = IF DOMAIN all = {} THEN <<>> ELSE Append(<<>>, all)
      /\ \A id \in Ids : ~Brings(c, id) => queue'[id] = queue[id]
      /\ queue' \in [Ids -> Seq(Message)] /\ \A id \in Ids : Len(queue'[id]) <= Capacity
      /\ \A id \in Ids : \A i \in DOMAIN queue'[id] :
           queue'[id][i] = all \/ (i \in DOMAIN queue[id] /\ queue'[id][i] = queue[id][i])
  BY <1>5, ObeyGives
<1>7. /\ c.id \in Ids /\ c.id <= ws_counter
      /\ c.type # "Delete" => c.wanted \in Configs
      /\ \A i \in DOMAIN commands : commands[i].id \in Ids
  BY <1>1, <1>3, LiveTyped DEF UnitsInv
<1>8. LiveTypeOK'
  <2>1. DOMAIN subscribers' \subseteq 1 .. ws_counter'
    BY <1>1, <1>2, <1>6, <1>7 DEF LiveTypeOK, Brings, Ids
  <2>2. \A id \in DOMAIN subscribers' : subscribers'[id] \in Configs
    BY <1>1, <1>6, <1>7, LiveTyped DEF Brings
  <2>3. Range(subscribers)' \subseteq Configs
    BY <2>2 DEF Range
  <2> QED
    BY <1>1, <1>2, <1>3, <1>6, <2>1, <2>3 DEF LiveTypeOK
<1>9. SocketsInv'
  BY <1>1, <1>2 DEF SocketsInv
<1>10. UnitsInv'
  <2>1. ASSUME NEW i \in DOMAIN commands'
        PROVE  /\ commands'[i].id <= ws_counter'
               /\ Brings(commands'[i], commands'[i].id) =>
                    /\ queue'[commands'[i].id] = <<>> /\ commands'[i].id \notin DOMAIN subscribers'
                    /\ \A j \in DOMAIN commands' : Brings(commands'[j], commands'[i].id) => j = i
    <3> DEFINE d == commands[i + 1]
    <3>1. i + 1 \in DOMAIN commands /\ commands'[i] = d /\ i + 1 # 1
      BY <1>3
    <3>2. d.id <= ws_counter /\ d.id \in Ids
      BY <1>1, <1>7, <3>1 DEF UnitsInv
    <3>3. ASSUME Brings(d, d.id)
          PROVE  /\ queue[d.id] = <<>> /\ d.id \notin DOMAIN subscribers
                 /\ \A j \in DOMAIN commands : Brings(commands[j], d.id) => j = i + 1
      BY <1>1, <3>1, <3>3 DEF UnitsInv
    <3>4. ASSUME Brings(d, d.id)
          PROVE  ~Brings(c, d.id)
      BY <1>3, <3>1, <3>3, <3>4
    <3>5. ASSUME Brings(d, d.id)
          PROVE  /\ queue'[d.id] = <<>> /\ d.id \notin DOMAIN subscribers'
      BY <1>6, <3>2, <3>3, <3>4, <3>5
    <3>6. ASSUME Brings(d, d.id), NEW j \in DOMAIN commands', Brings(commands'[j], d.id)
          PROVE  j = i
      <4>1. j + 1 = i + 1
        BY <1>3, <3>3, <3>6
      <4> QED
        BY <1>3, <4>1
    <3> HIDE DEF d
    <3> QED
      BY <1>2, <3>1, <3>2, <3>5, <3>6
  <2>2. ASSUME NEW id \in Ids, id > ws_counter'
        PROVE  queue'[id] = <<>>
    BY <1>1, <1>2, <1>6, <1>7, <2>2, LiveTyped DEF UnitsInv, Brings
  <2> QED
    BY <2>1, <2>2 DEF UnitsInv
<1>11. KnownInv'
  <2>1. ASSUME NEW id \in Ids, NEW i \in DOMAIN queue'[id]
        PROVE  DOMAIN queue'[id][i] \subseteq DOMAIN cache
    BY <1>1, <1>4, <1>6, <2>1 DEF KnownInv
  <2> QED
    BY <1>1, <1>2, <2>1 DEF KnownInv
<1>12. KeptInv'
  <2>1. ASSUME NEW id, NEW i \in Nat, Kept(id, i + 1)
        PROVE  Kept(id, i)'
    <3>1. CASE \E j \in DOMAIN commands : j > i + 1 /\ Removes(commands[j], id)
      <4>1. PICK j \in DOMAIN commands : j > i + 1 /\ Removes(commands[j], id)
        BY <3>1
      <4>2. j - 1 \in DOMAIN commands' /\ (j - 1) + 1 = j /\ j - 1 > i
        BY <1>3, <4>1
      <4>3. commands'[j - 1] = commands[j]
        BY <1>3, <4>2
      <4> QED
        BY <4>1, <4>2, <4>3 DEF Kept
    <3> QED
      BY <1>2, <2>1, <3>1 DEF Kept
  <2>2. ASSUME NEW id \in DOMAIN subscribers'
        PROVE  Kept(id, 0)'
    <3>1. Kept(id, 1)
      <4>1. CASE Brings(c, id)
        BY <1>1, <1>3, <4>1 DEF KeptInv, Brings
      <4>2. CASE ~Brings(c, id)
        <5>1. id \in DOMAIN subscribers /\ ~Removes(c, id)
          BY <1>6, <4>2
        <5>2. Kept(id, 0)
          BY <1>1, <5>1 DEF KeptInv
        <5> QED
          BY <1>3, <5>1, <5>2 DEF Kept
      <4> QED
        BY <4>1, <4>2
    <3> QED
      BY <2>1, <3>1
  <2>3. ASSUME NEW i \in DOMAIN commands', commands'[i].type # "Delete"
        PROVE  Kept(commands[i].id, i)'
    <3>1. Kept(commands[i + 1].id, i + 1) /\ i \in Nat
      BY <1>1, <1>3, <2>3 DEF KeptInv
    <3>2. PICK id : id = commands'[i].id
      OBVIOUS
    <3>3. Kept(id, i + 1)
      BY <1>3, <3>1, <3>2
    <3>4. Kept(id, i)'
      BY <2>1, <3>1, <3>3
    <3> QED
      BY <3>2, <3>4 DEF Kept
  <2> QED
    BY <2>2, <2>3 DEF KeptInv
<1>13. Mirrors'
  <2> SUFFICES ASSUME NEW s \in Sockets, sockets[s].receiver \in DOMAIN subscribers'
               PROVE  LET id == sockets[s].receiver
                      IN  Mirrored(subscribers'[id], cache, screen[s], queue'[id])
    BY <1>2 DEF Mirrors
  <2> DEFINE id == sockets[s].receiver
             shown == screen[s]
             first == IF DOMAIN all = {} THEN <<>> ELSE Append(<<>>, all)
             wanted == c.wanted
  <2>1. shown \in Message /\ DOMAIN shown \subseteq DOMAIN cache
    BY <1>1, LiveTyped DEF KnownInv
  <2>2. CASE Brings(c, id)
    <3>1. subscribers'[id] = wanted /\ queue'[id] = first
      BY <1>6, <2>2
    <3>2. all = AskedFor(wanted, cache) /\ first = IF DOMAIN all = {} THEN <<>> ELSE Append(<<>>, all)
      BY <1>5
    <3> HIDE DEF wanted, first, shown
    <3>3. MirroredAfter(wanted, cache, shown, first)
      BY <1>1, <2>1, <3>2, TellsAll DEF LiveTypeOK
    <3> QED
      BY <3>1, <3>3 DEF MirroredAfter, shown
  <2>3. CASE ~Brings(c, id)
    <3>1. id \in DOMAIN subscribers /\ subscribers'[id] = subscribers[id]
      BY <1>6, <2>3
    <3>2. queue'[id] = queue[id]
      BY <1>1, <1>6, <2>3, <3>1, LiveTyped
    <3> QED
      BY <1>1, <3>1, <3>2 DEF Mirrors
  <2> QED
    BY <2>2, <2>3
<1> QED
  BY <1>8, <1>9, <1>10, <1>11, <1>12, <1>13 DEF LiveInv

-----------------------------------------------------------------------------
(* The inductive invariant: the steps of handle_socket.                      *)

SocketStates == [pc : {"first", "open", "closed"}, current_id : 0 .. MaxIds, receiver : 0 .. MaxIds]

\* A socket sends a command and goes to another state, dropping the receiver it held:
\* it opens with the id it sends, or it ends and asks for its unit to be removed.
LEMMA SendKeeps ==
  ASSUME LiveInv, NEW s \in Sockets, NEW c \in Commands, NEW new \in SocketStates,
         commands' = Append(commands, c), sockets' = [sockets EXCEPT ![s] = new],
         UNCHANGED <<cache, subscribers, screen, events>>,
         ws_counter' \in 0 .. MaxIds, ws_counter <= ws_counter',
         queue' \in [Ids -> Seq(Message)],
         \A id \in Ids : queue'[id] = queue[id] \/ (queue'[id] = <<>> /\ id = sockets[s].receiver),
         lost \subseteq lost', lost' \subseteq Ids,
         sending' \subseteq sending, s \in sending' => new.pc = "open",
         c.id <= ws_counter',
         c.type # "Delete" => c.id > ws_counter /\ new.pc = "open" /\ new.current_id = c.id,
         IF new.pc = "open"
           THEN new.receiver = new.current_id /\ new.current_id \in ws_counter + 1 .. ws_counter'
           ELSE new.receiver = 0,
         sockets[s].pc = "open" =>
           sockets[s].current_id \in lost' \/ Removes(c, sockets[s].current_id)
  PROVE  LiveInv'
<1>1. LiveTypeOK /\ SocketsInv /\ UnitsInv /\ KnownInv /\ KeptInv /\ Mirrors
  BY DEF LiveInv
<1>2. /\ commands' \in Seq(Commands) /\ Len(commands) \in Nat
      /\ DOMAIN commands = 1 .. Len(commands) /\ DOMAIN commands' = 1 .. Len(commands) + 1
      /\ \A i \in DOMAIN commands : i \in DOMAIN commands' /\ commands'[i] = commands[i]
      /\ commands'[Len(commands) + 1] = c
  BY <1>1, Appended DEF LiveTypeOK
<1>3. /\ sockets'[s] = new
      /\ \A t \in Sockets : t # s => sockets'[t] = sockets[t]
      /\ sockets' \in [Sockets -> SocketStates]
  BY <1>1 DEF LiveTypeOK, SocketStates
<1>4. /\ c.id \in Ids /\ ws_counter \in Nat /\ ws_counter' \in Nat /\ Ids \subseteq Nat
      /\ \A i \in DOMAIN commands : commands[i].id \in Ids
      /\ \A t \in Sockets : sockets[t].receiver \in Nat /\ sockets[t].current_id \in Nat
      /\ new.receiver \in Nat /\ new.current_id \in Nat
  BY <1>1, LiveTyped DEF SocketStates
<1>5. LiveTypeOK'
  <2>1. \A id \in Ids : Len(queue'[id]) <= Capacity
    BY <1>1, NoPlace DEF LiveTypeOK
  <2>2. DOMAIN subscribers' \subseteq 1 .. ws_counter'
    BY <1>1, <1>4 DEF LiveTypeOK
  <2> QED
    BY <1>1, <1>2, <1>3, <2>1, <2>2 DEF LiveTypeOK, SocketStates
<1>6. SocketsInv'
  <2>1. \A t \in Sockets : t # s =>
          IF sockets[t].pc = "open"
            THEN /\ sockets[t].receiver = sockets[t].current_id
                 /\ sockets[t].current_id \in 1 .. ws_counter
            ELSE sockets[t].receiver = 0
    BY <1>1 DEF SocketsInv
  <2>2. \A t \in Sockets : IF sockets'[t].pc = "open"
                             THEN /\ sockets'[t].receiver = sockets'[t].current_id
                                  /\ sockets'[t].current_id \in 1 .. ws_counter'
                             ELSE sockets'[t].receiver = 0
    BY <1>3, <1>4, <2>1
  <2>3. \A t \in Sockets : t # s => sockets'[t].receiver = 0 \/ sockets'[t].receiver # new.receiver
    BY <1>3, <1>4, <2>1
  <2>4. \A t, u \in Sockets :
          sockets'[t].receiver = sockets'[u].receiver /\ sockets'[t].receiver # 0 => t = u
    BY <1>1, <1>3, <2>3 DEF SocketsInv
  <2>5. \A t \in sending' : sockets'[t].pc = "open"
    BY <1>1, <1>3 DEF SocketsInv, LiveTypeOK
  <2> QED
    BY <2>2, <2>4, <2>5 DEF SocketsInv
<1>7. UnitsInv'
  <2>1. ASSUME NEW i \in DOMAIN commands'
        PROVE  \/ i \in DOMAIN commands /\ commands'[i] = commands[i]
               \/ i = Len(commands) + 1 /\ commands'[i] = c /\ i \notin DOMAIN commands
    BY <1>2
  <2>2. \A id \in Ids : id > ws_counter => queue'[id] = <<>> /\ id \notin DOMAIN subscribers
    BY <1>1, <1>4, SMTT(30) DEF UnitsInv, LiveTypeOK
  <2>3. Brings(c, c.id) => c.id > ws_counter
    BY DEF Brings
  <2>4. \A i \in DOMAIN commands : /\ commands[i].id <= ws_counter
                                   /\ c.id > ws_counter => commands[i].id # c.id
    <3>1. ASSUME NEW i \in DOMAIN commands
          PROVE  commands[i].id \in Nat /\ commands[i].id <= ws_counter
      BY <1>1, <1>4 DEF UnitsInv
    <3>2. c.id \in Nat /\ ws_counter \in Nat
      BY <1>4
    <3> QED
      BY <3>1, <3>2
  <2>5. ASSUME NEW i \in DOMAIN commands', Brings(commands'[i], commands'[i].id)
        PROVE  /\ queue'[commands'[i].id] = <<>> /\ commands'[i].id \notin DOMAIN subscribers'
               /\ \A j \in DOMAIN commands' : Brings(commands'[j], commands'[i].id) => j = i
    <3>1. CASE i \in DOMAIN commands
      <4>1. /\ queue[commands[i].id] = <<>> /\ commands[i].id \notin DOMAIN subscribers
            /\ \A j \in DOMAIN commands : Brings(commands[j], commands[i].id) => j = i
        BY <1>1, <1>2, <2>5, <3>1 DEF UnitsInv
      <4>2. ~Brings(c, commands[i].id)
        BY <2>3, <2>4, <3>1 DEF Brings
      <4>3. queue'[commands[i].id] = <<>>
        BY <1>4, <3>1, <4>1
      <4> QED
        BY <1>2, <2>1, <3>1, <4>1, <4>2, <4>3
    <3>2. CASE i \notin DOMAIN commands
      <4>1. i = Len(commands) + 1 /\ commands'[i] = c
        BY <2>1, <3>2
      <4>2. c.id > ws_counter
        BY <2>3, <2>5, <4>1
      <4>3. \A j \in DOMAIN commands : ~Brings(commands[j], c.id)
        BY <2>4, <4>2 DEF Brings
      <4> QED
        BY <1>4, <2>1, <2>2, <4>1, <4>2, <4>3
    <3> QED
      BY <3>1, <3>2
  <2>6. ASSUME NEW i \in DOMAIN commands'
        PROVE  commands'[i].id <= ws_counter'
    <3>1. CASE i \in DOMAIN commands /\ commands'[i] = commands[i]
      <4>1. \A a \in Ids : a <= ws_counter => a <= ws_counter'
        BY <1>4
      <4>2. commands[i].id \in Ids /\ commands[i].id <= ws_counter
        BY <1>4, <2>4, <3>1
      <4> QED
        BY <3>1, <4>1, <4>2
    <3>2. CASE commands'[i] = c
      BY <3>2
    <3> QED
      BY <2>1, <3>1, <3>2
  <2>7. \A id \in Ids : id > ws_counter' => queue'[id] = <<>>
    BY <1>4, <2>2
  <2> QED
    BY <2>5, <2>6, <2>7 DEF UnitsInv
<1>8. KnownInv'
  <2>1. ASSUME NEW id \in Ids, NEW i \in DOMAIN queue'[id]
        PROVE  DOMAIN queue'[id][i] \subseteq DOMAIN cache
    <3>1. queue'[id] # <<>>
      BY <2>1, NoPlace
    <3>2. queue'[id] = queue[id]
      BY <3>1
    <3> QED
      BY <1>1, <2>1, <3>2 DEF KnownInv
  <2> QED
    BY <1>1, <2>1 DEF KnownInv
<1>9. KeptInv'
  <2>1. ASSUME NEW id, NEW i \in Nat, i <= Len(commands), Kept(id, i)
        PROVE  Kept(id, i)'
    <3>1. CASE \E j \in DOMAIN commands : j > i /\ Removes(commands[j], id)
      BY <1>2, <3>1 DEF Kept
    <3>2. CASE \E t \in Sockets : sockets[t].pc = "open" /\ sockets[t].current_id = id
      <4>1. PICK t \in Sockets : sockets[t].pc = "open" /\ sockets[t].current_id = id
        BY <3>2
      <4>2. CASE t = s
        <5>1. id \in lost' \/ Removes(c, id)
          BY <4>1, <4>2
        <5>2. Len(commands) + 1 \in DOMAIN commands' /\ Len(commands) + 1 > i
          BY <1>2, <2>1
        <5> QED
          BY <1>2, <5>1, <5>2 DEF Kept
      <4>3. CASE t # s
        BY <1>3, <4>1, <4>3 DEF Kept
      <4> QED
        BY <4>2, <4>3
    <3>3. CASE id \in lost
      BY <3>3 DEF Kept
    <3> QED
      BY <2>1, <3>1, <3>2, <3>3 DEF Kept
  <2>2. ASSUME NEW id \in DOMAIN subscribers'
        PROVE  Kept(id, 0)'
    <3>1. Kept(id, 0) /\ 0 <= Len(commands)
      BY <1>1, <1>2 DEF KeptInv
    <3> QED
      BY <2>1, <3>1
  <2>3. ASSUME NEW i \in DOMAIN commands', commands'[i].type # "Delete"
        PROVE  Kept(commands[i].id, i)'
    <3>1. CASE i \in DOMAIN commands
      <4>1. Kept(commands[i].id, i) /\ i \in Nat /\ i <= Len(commands)
        BY <1>1, <1>2, <2>3, <3>1 DEF KeptInv
      <4>2. PICK id : id = commands[i].id
        OBVIOUS
      <4>3. Kept(id, i)'
        BY <2>1, <4>1, <4>2
      <4> QED
        BY <1>2, <3>1, <4>2, <4>3 DEF Kept
    <3>2. CASE i \notin DOMAIN commands
      <4>1. commands'[i] = c
        BY <1>2, <3>2
      <4>2. sockets'[s].pc = "open" /\ sockets'[s].current_id = c.id
        BY <1>3, <2>3, <4>1
      <4> QED
        BY <4>1, <4>2 DEF Kept
    <3> QED
      BY <3>1, <3>2
  <2> QED
    BY <2>2, <2>3 DEF KeptInv
<1>10. Mirrors'
  <2> SUFFICES ASSUME NEW t \in Sockets, sockets'[t].receiver \in DOMAIN subscribers
               PROVE  LET id == sockets'[t].receiver
                      IN  Mirrored(subscribers[id], cache, screen[t], queue'[id])
    BY DEF Mirrors
  <2>1. DOMAIN subscribers \subseteq 1 .. ws_counter /\ DOMAIN subscribers \subseteq Ids
    BY <1>1, LiveTyped DEF LiveTypeOK
  <2>2. t # s
    BY <1>3, <1>4, <2>1
  <2>3. sockets'[t] = sockets[t]
    BY <1>3, <2>2
  <2>4. sockets[t].receiver # 0 /\ sockets[t].receiver \in Ids
    BY <1>4, <2>1, <2>3
  <2>5. sockets[t].receiver # sockets[s].receiver
    BY <1>1, <2>2, <2>4 DEF SocketsInv
  <2>6. queue'[sockets[t].receiver] = queue[sockets[t].receiver]
    BY <2>4, <2>5
  <2> QED
    BY <1>1, <2>3, <2>6 DEF Mirrors
<1> QED
  BY <1>5, <1>6, <1>7, <1>8, <1>9, <1>10 DEF LiveInv

\* What a channel becomes when its receiver is dropped.
LEMMA Dropped ==
  ASSUME LiveTypeOK, NEW r \in Ids
  PROVE  /\ [queue EXCEPT ![r] = <<>>] \in [Ids -> Seq(Message)]
         /\ \A id \in Ids : \/ [queue EXCEPT ![r] = <<>>][id] = queue[id]
                            \/ [queue EXCEPT ![r] = <<>>][id] = <<>> /\ id = r
<1>1. queue \in [Ids -> Seq(Message)] /\ <<>> \in Seq(Message)
  BY NoPlace DEF LiveTypeOK
<1> QED
  BY <1>1

\* A socket that opens sends the id it takes.
LEMMA OpensKeeps ==
  ASSUME LiveInv, NEW s \in Sockets, NEW wanted \in Configs,
         FirstConfig(s, wanted) \/ ChangeConfig(s, wanted)
  PROVE  LiveInv'
<1> DEFINE id == ws_counter + 1
           type == IF sockets[s].pc = "first" THEN "New" ELSE "Change"
           old == IF sockets[s].pc = "first" THEN 0 ELSE sockets[s].current_id
           c == Command(type, id, old, wanted)
           new == [pc |-> "open", current_id |-> id, receiver |-> id]
<1>1. LiveTypeOK /\ SocketsInv /\ UnitsInv
  BY DEF LiveInv
<1>2. /\ sockets[s] \in SocketStates /\ ws_counter \in 0 .. MaxIds
      /\ queue \in [Ids -> Seq(Message)] /\ lost \subseteq Ids /\ MaxIds \in Nat
  BY <1>1 DEF LiveTypeOK, SocketStates
<1>3. /\ ws_counter' = id /\ ws_counter < MaxIds /\ lost' = lost
      /\ UNCHANGED <<cache, subscribers, screen, events>>
      /\ commands' = Append(commands, c)
  BY DEF FirstConfig, ChangeConfig, Selects
<1>12. sending' = sending
  BY DEF FirstConfig, ChangeConfig
<1>4. sockets' = [sockets EXCEPT ![s] = new]
  <2>1. CASE FirstConfig(s, wanted)
    BY <2>1 DEF FirstConfig
  <2>2. CASE ChangeConfig(s, wanted)
    <3>1. sockets[s].pc = "open"
      BY <2>2 DEF ChangeConfig, Selects
    <3>2. sockets' = [sockets EXCEPT ![s].current_id = id, ![s].receiver = id]
      BY <2>2 DEF ChangeConfig
    <3>3. [[sockets[s] EXCEPT !.current_id = id] EXCEPT !.receiver = id] = new
      <4> DEFINE held == sockets[s]
                 sent == [held EXCEPT !.current_id = id]
      <4>1. /\ held = [pc |-> held.pc, current_id |-> held.current_id, receiver |-> held.receiver]
            /\ held.pc = "open"
        BY <1>2, <3>1 DEF SocketStates
      <4> HIDE DEF held
      <4>2. sent = [pc |-> "open", current_id |-> id, receiver |-> held.receiver]
        BY <4>1
      <4> HIDE DEF sent
      <4>3. [sent EXCEPT !.receiver = id] = new
        BY <4>2
      <4> QED
        BY <4>3 DEF sent, held
    <3> QED
      BY <1>1, <3>2, <3>3 DEF LiveTypeOK
  <2> QED
    BY <2>1, <2>2
<1>5. /\ queue' \in [Ids -> Seq(Message)]
      /\ \A i \in Ids : queue'[i] = queue[i] \/ (queue'[i] = <<>> /\ i = sockets[s].receiver)
  <2>1. CASE FirstConfig(s, wanted)
    BY <1>2, <2>1 DEF FirstConfig
  <2>2. CASE ChangeConfig(s, wanted)
    <3>1. sockets[s].receiver \in Ids
      BY <1>1, <1>2, <2>2 DEF ChangeConfig, Selects, SocketsInv, Ids
    <3>2. queue' = [queue EXCEPT ![sockets[s].receiver] = <<>>]
      BY <2>2 DEF ChangeConfig
    <3> QED
      BY <1>1, <3>1, <3>2, Dropped
  <2> QED
    BY <2>1, <2>2
<1>6. id \in Ids /\ new \in SocketStates
  BY <1>2, <1>3 DEF Ids, SocketStates
<1>7. /\ c.type = type /\ c.id = id /\ c.old_id = old /\ c.wanted = wanted
      /\ type \in {"New", "Change"}
  BY DEF Command
<1>8. c \in Commands
  <2>1. old \in 0 .. MaxIds
    BY <1>2 DEF SocketStates
  <2> QED
    BY <1>6, <2>1 DEF Command, Commands
<1>9. sockets[s].pc = "open" => Removes(c, sockets[s].current_id)
  BY <1>7 DEF Removes
<1>10. /\ new.pc = "open" /\ new.current_id = id /\ new.receiver = id
  OBVIOUS
<1>11. id > ws_counter /\ id \in ws_counter + 1 .. ws_counter' /\ id <= ws_counter'
       /\ ws_counter' \in 0 .. MaxIds /\ ws_counter <= ws_counter'
  BY <1>2, <1>3
<1> HIDE DEF id, type, old, c, new
<1> QED
  BY <1>2, <1>3, <1>4, <1>5, <1>6, <1>7, <1>8, <1>9, <1>10, <1>11, <1>12, SendKeeps

\* A socket that ends asks for the unit of an id to be removed: its own, or a newer
\* one when it is lost.
LEMMA EndsKeeps ==
  ASSUME LiveInv, NEW s \in Sockets, sockets[s].pc = "open", NEW id \in Ids, Ends(s, id),
         ws_counter' \in 0 .. MaxIds, ws_counter <= ws_counter', id <= ws_counter',
         lost \subseteq lost', lost' \subseteq Ids,
         sockets[s].current_id \in lost' \/ sockets[s].current_id = id
  PROVE  LiveInv'
<1> DEFINE c == Command("Delete", id, 0, {})
           new == [pc |-> "closed", current_id |-> id, receiver |-> 0]
<1>1. LiveTypeOK /\ SocketsInv
  BY DEF LiveInv
<1>2. /\ commands' = Append(commands, c) /\ sockets' = [sockets EXCEPT ![s] = new]
      /\ queue' = [queue EXCEPT ![sockets[s].receiver] = <<>>]
      /\ sending' = sending \ {s} /\ UNCHANGED <<cache, subscribers, screen, events>>
  BY DEF Ends
<1>3. sockets[s].receiver \in Ids /\ MaxIds \in Nat
  BY <1>1 DEF SocketsInv, LiveTypeOK, Ids
<1>4. /\ queue' \in [Ids -> Seq(Message)]
      /\ \A i \in Ids : queue'[i] = queue[i] \/ (queue'[i] = <<>> /\ i = sockets[s].receiver)
  BY <1>1, <1>2, <1>3, Dropped
<1>5. c.type = "Delete" /\ c.id = id
  BY DEF Command
<1>6. c \in Commands
  BY DEF Command, Commands
<1>7. new \in SocketStates /\ new.pc = "closed" /\ new.receiver = 0
  BY <1>3 DEF SocketStates, Ids
<1>8. sockets[s].current_id \in lost' \/ Removes(c, sockets[s].current_id)
  BY <1>5 DEF Removes
<1> HIDE DEF c, new
<1> QED
  BY <1>2, <1>4, <1>5, <1>6, <1>7, <1>8, SendKeeps

\* A socket that was open and ends keeps it.
LEMMA LeavesKeeps ==
  ASSUME LiveInv, NEW s \in Sockets, ChangeFails(s) \/ SendFails(s) \/ ReceiveNone(s) \/ Leave(s)
  PROVE  LiveInv'
<1>1. LiveTypeOK /\ SocketsInv
  BY DEF LiveInv
<1>2. sockets[s].pc = "open"
  BY <1>1 DEF ChangeFails, SendFails, ReceiveNone, Leave, Selects, SocketsInv
<1>3. /\ sockets[s].current_id \in Ids /\ sockets[s].current_id <= ws_counter
      /\ ws_counter \in 0 .. MaxIds /\ MaxIds \in Nat /\ lost \subseteq Ids
  BY <1>1, <1>2 DEF SocketsInv, LiveTypeOK, Ids
<1>4. CASE ChangeFails(s)
  <2> DEFINE id == ws_counter + 1
  <2>1. /\ ws_counter < MaxIds /\ ws_counter' = id /\ lost' = lost \cup {sockets[s].current_id}
        /\ Ends(s, id)
    BY <1>4 DEF ChangeFails
  <2>2. id \in Ids /\ id <= ws_counter' /\ ws_counter' \in 0 .. MaxIds /\ ws_counter <= ws_counter'
    BY <1>3, <2>1 DEF Ids
  <2>3. lost \subseteq lost' /\ lost' \subseteq Ids /\ sockets[s].current_id \in lost'
    BY <1>3, <2>1
  <2> HIDE DEF id
  <2> QED
    BY <1>2, <2>1, <2>2, <2>3, EndsKeeps
<1>5. CASE SendFails(s) \/ ReceiveNone(s) \/ Leave(s)
  <2>1. Ends(s, sockets[s].current_id) /\ UNCHANGED <<ws_counter, lost>>
    BY <1>5 DEF SendFails, ReceiveNone, Leave
  <2>2. PICK id : id = sockets[s].current_id
    OBVIOUS
  <2>3. /\ Ends(s, id) /\ id \in Ids /\ id <= ws_counter'
        /\ ws_counter' \in 0 .. MaxIds /\ ws_counter <= ws_counter'
    BY <1>3, <2>1, <2>2
  <2> QED
    BY <1>2, <1>3, <2>1, <2>2, <2>3, EndsKeeps
<1> QED
  BY <1>4, <1>5

\* A socket that ends before its first subscription keeps it.
LEMMA FirstFailsKeeps ==
  ASSUME LiveInv, NEW s \in Sockets, FirstFails(s)
  PROVE  LiveInv'
<1>1. LiveTypeOK /\ SocketsInv /\ UnitsInv /\ KnownInv /\ KeptInv /\ Mirrors
  BY DEF LiveInv
<1>2. /\ sockets[s].pc = "first" /\ sockets' = [sockets EXCEPT ![s].pc = "closed"]
      /\ UNCHANGED <<cache, subscribers, queue, commands, screen, sending, lost, events>>
  BY DEF FirstFails
<1>3. \A t \in Sockets : sockets[t] \in SocketStates
  BY <1>1 DEF LiveTypeOK, SocketStates
<1>4. /\ sockets' \in [Sockets -> SocketStates]
      /\ sockets'[s].pc = "closed"
      /\ \A t \in Sockets : /\ sockets'[t].receiver = sockets[t].receiver
                            /\ sockets'[t].current_id = sockets[t].current_id
                            /\ t # s => sockets'[t].pc = sockets[t].pc
  BY <1>1, <1>2, <1>3 DEF LiveTypeOK, SocketStates
<1>5. /\ ws_counter' \in 0 .. MaxIds /\ ws_counter \in Nat /\ ws_counter <= ws_counter'
      /\ 1 .. ws_counter \subseteq 1 .. ws_counter'
  BY <1>1 DEF FirstFails, LiveTypeOK
<1>6. LiveTypeOK'
  <2>1. DOMAIN subscribers' \subseteq 1 .. ws_counter'
    BY <1>1, <1>2, <1>5 DEF LiveTypeOK
  <2> QED
    BY <1>1, <1>2, <1>4, <1>5, <2>1 DEF LiveTypeOK, SocketStates
<1>7. SocketsInv'
  BY <1>1, <1>2, <1>4, <1>5 DEF SocketsInv
<1>8. UnitsInv' /\ KnownInv'
  <2>1. /\ \A id \in Ids : id > ws_counter' => id > ws_counter
        /\ \A id \in Ids : id <= ws_counter => id <= ws_counter'
    BY <1>1, <1>5, LiveTyped
  <2>2. \A i \in DOMAIN commands : commands[i].id \in Ids
    BY <1>1, LiveTyped
  <2> QED
    BY <1>1, <1>2, <2>1, <2>2 DEF UnitsInv, KnownInv, Brings
<1>9. KeptInv'
  <2>1. \A t \in Sockets : sockets[t].pc = "open" => sockets'[t].pc = "open"
    BY <1>2, <1>4
  <2> QED
    BY <1>1, <1>2, <1>4, <2>1 DEF KeptInv, Kept
<1>10. Mirrors'
  BY <1>1, <1>2, <1>4 DEF Mirrors
<1> QED
  BY <1>6, <1>7, <1>8, <1>9, <1>10 DEF LiveInv

\* A message that is shown leaves the channel.
LEMMA ReceiveKeeps ==
  ASSUME LiveInv, NEW s \in Sockets, Receive(s)
  PROVE  LiveInv'
<1> DEFINE id == sockets[s].receiver
           shown == screen[s]
           messages == queue[id]
           then == Overlay(shown, Head(messages))
           left == Tail(messages)
<1>1. LiveTypeOK /\ SocketsInv /\ UnitsInv /\ KnownInv /\ KeptInv /\ Mirrors
  BY DEF LiveInv
<1>2. /\ sockets[s].pc = "open" /\ messages # <<>>
      /\ screen' = [screen EXCEPT ![s] = then] /\ queue' = [queue EXCEPT ![id] = left]
      /\ sending' = sending \cup {s}
      /\ UNCHANGED <<cache, subscribers, commands, sockets, ws_counter, lost, events>>
  BY DEF Receive, Selects
<1>3. id \in Ids
  BY <1>1, <1>2 DEF SocketsInv, LiveTypeOK, Ids
<1>4. messages \in Seq(Message) /\ shown \in Message
  BY <1>1, <1>3, LiveTyped
<1>5. /\ Head(messages) \in Message /\ Head(messages) = messages[1] /\ 1 \in DOMAIN messages
      /\ left \in Seq(Message) /\ Len(messages) \in Nat \ {0} /\ Len(left) = Len(messages) - 1
      /\ \A i \in DOMAIN left : i + 1 \in DOMAIN messages /\ left[i] = messages[i + 1]
  BY <1>2, <1>4, HeadAndTail
<1>6. then \in Message /\ DOMAIN then = DOMAIN shown \cup DOMAIN Head(messages)
  <2> DEFINE first == Head(messages)
  <2>1. first \in Message
    BY <1>5
  <2> HIDE DEF first, shown
  <2>2. /\ Overlay(shown, first) \in Message
        /\ DOMAIN Overlay(shown, first) = DOMAIN shown \cup DOMAIN first
    BY <1>4, <2>1, Overlays
  <2> QED
    BY <2>2 DEF first
<1>7. /\ queue \in [Ids -> Seq(Message)] /\ screen \in [Sockets -> Message]
      /\ \A i \in Ids : Len(queue[i]) <= Capacity
  BY <1>1 DEF LiveTypeOK
<1>8. Len(messages) <= Capacity
  BY <1>3, <1>7
<1>9. \A i \in DOMAIN messages : DOMAIN messages[i] \subseteq DOMAIN cache
  BY <1>1, <1>3 DEF KnownInv
<1>10. DOMAIN shown \subseteq DOMAIN cache
  BY <1>1 DEF KnownInv
<1>11. Mirrored(subscribers[id], cache, shown, messages) \/ id \notin DOMAIN subscribers
  BY <1>1 DEF Mirrors
<1>12. id \in DOMAIN subscribers => MirroredAfter(subscribers[id], cache, then, left)
  <2> HIDE DEF id, shown, messages
  <2> QED
    BY <1>2, <1>4, <1>11, TellsShown
<1>13. \A t \in Sockets : t # s => sockets[t].receiver # id
  BY <1>1, <1>3, LiveTyped DEF SocketsInv
<1> HIDE DEF shown, messages, then, left
<1>14. /\ queue' \in [Ids -> Seq(Message)] /\ screen' \in [Sockets -> Message]
       /\ queue'[id] = left /\ \A i \in Ids : i # id => queue'[i] = queue[i]
       /\ screen'[s] = then /\ \A t \in Sockets : t # s => screen'[t] = screen[t]
  BY <1>2, <1>3, <1>5, <1>6, <1>7
<1>15. LiveTypeOK'
  <2>1. Len(left) <= Capacity
    BY <1>5, <1>8
  <2>2. \A i \in Ids : Len(queue'[i]) <= Capacity
    BY <1>7, <1>14, <2>1
  <2> QED
    BY <1>1, <1>2, <1>14, <2>2 DEF LiveTypeOK
<1>16. SocketsInv'
  BY <1>1, <1>2 DEF SocketsInv
<1>17. UnitsInv'
  <2>1. \A i \in Ids : queue[i] = <<>> => queue'[i] = <<>>
    BY <1>2, <1>14 DEF messages
  <2>2. \A i \in DOMAIN commands : commands[i].id \in Ids
    BY <1>1, LiveTyped
  <2> QED
    BY <1>1, <1>2, <2>1, <2>2 DEF UnitsInv, Brings
<1>18. KnownInv'
  <2>1. \A i \in DOMAIN left : DOMAIN left[i] \subseteq DOMAIN cache
    BY <1>5, <1>9
  <2>2. DOMAIN then \subseteq DOMAIN cache
    BY <1>5, <1>6, <1>9, <1>10
  <2>3. \A j \in Ids : \A i \in DOMAIN queue'[j] : DOMAIN queue'[j][i] \subseteq DOMAIN cache
    BY <1>1, <1>14, <2>1 DEF KnownInv
  <2>4. \A t \in Sockets : DOMAIN screen'[t] \subseteq DOMAIN cache
    BY <1>1, <1>14, <2>2 DEF KnownInv
  <2> QED
    BY <1>2, <2>3, <2>4 DEF KnownInv
<1>19. KeptInv'
  BY <1>1, <1>2 DEF KeptInv, Kept
<1>20. Mirrors'
  <2> SUFFICES ASSUME NEW t \in Sockets, sockets[t].receiver \in DOMAIN subscribers
               PROVE  Mirrored(subscribers[sockets[t].receiver], cache, screen'[t],
                               queue'[sockets[t].receiver])
    BY <1>2 DEF Mirrors
  <2>1. CASE t = s
    BY <1>12, <1>14, <2>1 DEF MirroredAfter
  <2>2. CASE t # s
    <3>1. sockets[t].receiver \in Ids /\ sockets[t].receiver # id
      BY <1>1, <1>13, <2>2, LiveTyped
    <3>2. queue'[sockets[t].receiver] = queue[sockets[t].receiver]
      BY <1>14, <3>1
    <3> QED
      BY <1>1, <1>14, <2>2, <3>2 DEF Mirrors
  <2> QED
    BY <2>1, <2>2
<1> QED
  BY <1>15, <1>16, <1>17, <1>18, <1>19, <1>20 DEF LiveInv

\* The end of a send lets the select be polled again.
LEMMA SendEndsKeeps ==
  ASSUME LiveInv, NEW s \in Sockets, SendEnds(s)
  PROVE  LiveInv'
<1>1. /\ sending' = sending \ {s}
      /\ UNCHANGED <<cache, subscribers, queue, commands, sockets, ws_counter, screen, lost, events>>
  BY DEF SendEnds
<1>2. LiveTypeOK /\ SocketsInv /\ UnitsInv /\ KnownInv /\ KeptInv /\ Mirrors
  BY DEF LiveInv
<1>3. LiveTypeOK' /\ SocketsInv'
  BY <1>1, <1>2 DEF LiveTypeOK, SocketsInv
<1>4. UnitsInv' /\ KnownInv' /\ KeptInv' /\ Mirrors'
  BY <1>1, <1>2 DEF UnitsInv, KnownInv, KeptInv, Kept, Mirrors
<1> QED
  BY <1>3, <1>4 DEF LiveInv

-----------------------------------------------------------------------------
\* The invariant holds when nothing is cached and nobody is connected.
LEMMA LiveInitGives == LiveInit => LiveInv
<1> SUFFICES ASSUME LiveInit
             PROVE  LiveInv
  OBVIOUS
<1>1. /\ cache = Nothing /\ subscribers = Nothing /\ DOMAIN Nothing = {} /\ Nothing \in Message
      /\ queue = [i \in Ids |-> <<>>] /\ commands = <<>>
      /\ sockets = [s \in Sockets |-> [pc |-> "first", current_id |-> 0, receiver |-> 0]]
      /\ ws_counter = 0 /\ screen = [s \in Sockets |-> Nothing] /\ sending = {}
      /\ lost = {} /\ events = 0
  BY MessageFacts DEF LiveInit
<1>2. MaxIds \in Nat /\ MaxEvents \in Nat /\ Capacity \in Nat
  OBVIOUS
<1>3. LiveTypeOK
  <2>1. <<>> \in Seq(Message) /\ <<>> \in Seq(Commands) /\ Len(<<>>) = 0
    BY NoPlace
  <2>2. Range(subscribers) = {}
    BY <1>1 DEF Range
  <2>3. queue \in [Ids -> Seq(Message)] /\ \A i \in Ids : Len(queue[i]) <= Capacity
    BY <1>1, <1>2, <2>1
  <2>4. 0 \in 0 .. MaxIds /\ 0 \in 0 .. MaxEvents
    BY <1>2
  <2> QED
    BY <1>1, <2>1, <2>2, <2>3, <2>4 DEF LiveTypeOK
<1>4. SocketsInv /\ Mirrors
  BY <1>1 DEF SocketsInv, Mirrors
<1>5. UnitsInv /\ KnownInv /\ KeptInv
  BY <1>1, NoPlace DEF UnitsInv, KnownInv, KeptInv
<1> QED
  BY <1>3, <1>4, <1>5 DEF LiveInv

\* What nodes and devices report is a message.
LEMMA EventsKeep ==
  ASSUME LiveInv, NodeEvent \/ DeviceEvent
  PROVE  LiveInv'
<1>1. CASE NodeEvent
  <2>1. PICK n \in Nodes, state \in NodeStates : Hear([x \in {n} |-> state])
    BY <1>1 DEF NodeEvent
  <2> DEFINE event == [x \in {n} |-> state]
  <2>2. event \in [{n} -> States] /\ {n} \in SUBSET Things
    BY DEF States, Things
  <2>3. event \in Message
    BY <2>2, MessageFacts
  <2> HIDE DEF event
  <2>4. Hear(event)
    BY <2>1 DEF event
  <2> QED
    BY <2>3, <2>4, HearKeeps
<1>2. CASE DeviceEvent
  <2>1. PICK d \in Devices, state \in DeviceStates, T \in SUBSET Tags :
          \E readings \in [T -> Readings] : Hear(Overlay([x \in {d} |-> state], readings))
    BY <1>2 DEF DeviceEvent
  <2>2. PICK readings \in [T -> Readings] : Hear(Overlay([x \in {d} |-> state], readings))
    BY <2>1
  <2> DEFINE own == [x \in {d} |-> state]
             event == Overlay(own, readings)
  <2>3. own \in [{d} -> States] /\ {d} \in SUBSET Things
    BY DEF States, Things
  <2>4. readings \in [T -> States] /\ T \in SUBSET Things
    BY DEF States, Things
  <2>5. own \in Message /\ readings \in Message
    BY <2>3, <2>4, MessageFacts
  <2>6. Hear(event)
    BY <2>2
  <2> HIDE DEF own
  <2>7. event \in Message
    BY <2>5, Overlays
  <2> HIDE DEF event
  <2> QED
    BY <2>6, <2>7, HearKeeps
<1> QED
  BY <1>1, <1>2

\* Every step keeps the invariant.
LEMMA LiveKeeps == LiveInv /\ [LiveNext]_liveVars => LiveInv'
<1> SUFFICES ASSUME LiveInv, [LiveNext]_liveVars
             PROVE  LiveInv'
  OBVIOUS
<1>1. CASE NodeEvent \/ DeviceEvent
  BY <1>1, EventsKeep
<1>2. CASE Obey
  BY <1>2, ObeyKeeps
<1>3. ASSUME NEW s \in Sockets, NEW wanted \in Configs,
             FirstConfig(s, wanted) \/ ChangeConfig(s, wanted)
      PROVE  LiveInv'
  BY <1>3, OpensKeeps
<1>4. ASSUME NEW s \in Sockets, FirstFails(s)
      PROVE  LiveInv'
  BY <1>4, FirstFailsKeeps
<1>5. ASSUME NEW s \in Sockets, ChangeFails(s) \/ SendFails(s) \/ ReceiveNone(s) \/ Leave(s)
      PROVE  LiveInv'
  BY <1>5, LeavesKeeps
<1>6. ASSUME NEW s \in Sockets, Receive(s)
      PROVE  LiveInv'
  BY <1>6, ReceiveKeeps
<1>8. ASSUME NEW s \in Sockets, SendEnds(s)
      PROVE  LiveInv'
  BY <1>8, SendEndsKeeps
<1>7. CASE UNCHANGED liveVars
  BY <1>7 DEF liveVars, LiveInv, LiveTypeOK, SocketsInv, UnitsInv, KnownInv, KeptInv, Kept, Mirrors
<1> QED
  BY <1>1, <1>2, <1>3, <1>4, <1>5, <1>6, <1>7, <1>8 DEF LiveNext

\* The inductive invariant holds: types, one socket for a unit, channels that begin
\* empty, nothing told that is not cached, and a socket or a command for each unit.
THEOREM LiveInvariance == LiveSpec => []LiveInv
BY LiveInitGives, LiveKeeps, PTL DEF LiveSpec

\* What a browser shows after its channel is what the coordinator has cached, for
\* every set of connections and things, any capacity and any number of events.
THEOREM MirrorsHolds == LiveSpec => []Mirrors
<1>1. LiveInv => Mirrors
  BY DEF LiveInv
<1> QED
  BY <1>1, LiveInvariance, PTL

\* No unit stays without a socket, apart from those of sockets that ended on a text
\* that does not parse.
THEOREM NoneLeftBehindHolds == LiveSpec => []NoneLeftBehind
<1>1. LiveInv => NoneLeftBehind
  <2> SUFFICES ASSUME LiveInv, NEW id \in DOMAIN subscribers \ lost
               PROVE  \/ \E s \in Sockets : sockets[s].pc = "open" /\ sockets[s].current_id = id
                      \/ \E i \in DOMAIN commands : id \in {commands[i].id, commands[i].old_id}
    BY DEF NoneLeftBehind
  <2>1. Kept(id, 0)
    BY DEF LiveInv, KeptInv
  <2> QED
    BY <2>1 DEF Kept, Removes
<1> QED
  BY <1>1, LiveInvariance, PTL
=============================================================================
