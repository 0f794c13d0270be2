------------------------- MODULE LobbyPlayersProofs --------------------------
(* Proofs about the players of a lobby, for any number of users, sessions  *)
(* and Player objects and any length of the queue of messages.             *)
EXTENDS LobbyPlayers, TLAPS

Dealt == [f : {"login", "close", "app"}, s : Sessions, u : Users \cup {NoUser}]

(* The end of a session is dealt when it has ended. *)
EndsFirst ==
    \A i \in 1..Len(inbox) : inbox[i].f = "close" => inbox[i].s \notin open

(* The player of a session belongs to the user that logged in there last. *)
OnlineIsLast ==
    \A s \in Sessions : m_online_user[s] # NoPlayer =>
        m_user_id[m_online_user[s]] = lastlogin[s]

(* On a session that one user only has used, that user's player is found. *)
OneUser ==
    \A u \in Users : m_login_user[u] # NoPlayer =>
        LET s == m_session[m_login_user[u]] IN
          s \notin shared => lastlogin[s] = u /\ m_online_user[s] = m_login_user[u]

IInv == TypeOK /\ MapsAgree /\ EndsFirst /\ OnlineIsLast /\ OneUser /\ NoGhosts

-----------------------------------------------------------------------------
(* The next message to handle is well formed, the others stay so, and the  *)
(* session of a close has ended.                                           *)
LEMMA NextMessage ==
    ASSUME IInv, inbox # <<>>
    PROVE  /\ Head(inbox) \in Dealt
           /\ Tail(inbox) \in Seq(Dealt)
           /\ \A i \in 1..Len(Tail(inbox)) :
                 Tail(inbox)[i].f = "close" => Tail(inbox)[i].s \notin open
           /\ Head(inbox).f = "close" => Head(inbox).s \notin open
<1>1. inbox \in Seq(Dealt)
  BY DEF IInv, TypeOK, Dealt
<1>2. Head(inbox) \in Dealt /\ Tail(inbox) \in Seq(Dealt) /\ Head(inbox) = inbox[1]
      /\ Len(inbox) \in Nat \ {0}
  BY <1>1
<1>3. \A i \in 1..Len(Tail(inbox)) :
         i + 1 \in 1..Len(inbox) /\ Tail(inbox)[i] = inbox[i + 1]
  BY <1>1
<1>4. QED
  BY <1>2, <1>3 DEF IInv, EndsFirst

(* What is dealt by a session is well formed, and the end comes last. *)
LEMMA Deal ==
    ASSUME IInv, NEW x \in Dealt, inbox' = Append(inbox, x),
           open' \subseteq open, x.f = "close" => x.s \notin open'
    PROVE  inbox' \in Seq(Dealt) /\ EndsFirst'
<1>1. inbox \in Seq(Dealt)
  BY DEF IInv, TypeOK, Dealt
<1>2. inbox' \in Seq(Dealt) /\ Len(inbox') = Len(inbox) + 1 /\ Len(inbox) \in Nat
      /\ inbox'[Len(inbox) + 1] = x
      /\ \A i \in 1..Len(inbox) : inbox'[i] = inbox[i]
  BY <1>1
<1>3. QED
  BY <1>2 DEF IInv, EndsFirst

(* The network's steps leave the tables alone. *)
LEMMA NetworkStep ==
    ASSUME IInv, NEW s \in Sessions, receive(s) \/ leave(s) \/ shutdown(s)
    PROVE  IInv'
<1>1. UNCHANGED <<tables, hist>>
  BY DEF receive, leave, shutdown
<1>2. /\ closing' \subseteq Sessions /\ open' \subseteq open
      /\ sent' \in [Sessions -> Nat] /\ late' \subseteq Sessions \ open'
  BY DEF receive, leave, shutdown, IInv, TypeOK, End
<1>3. inbox' \in Seq(Dealt) /\ EndsFirst'
  <2>1. CASE receive(s)
    <3>1. PICK x \in Contents(s) : inbox' = Append(inbox, x) /\ open' = open
      BY <2>1 DEF receive
    <3>2. x \in Dealt /\ x.f # "close"
      BY DEF Contents, Message, Dealt
    <3>3. QED
      BY <1>2, <3>1, <3>2, Deal
  <2>2. CASE (leave(s) \/ shutdown(s)) /\ End(s)
    <3>1. Message("close", s, NoUser) \in Dealt /\ Message("close", s, NoUser).s = s
      BY DEF Message, Dealt
    <3>2. QED
      BY <1>2, <2>2, <3>1, Deal DEF End
  <2>3. CASE shutdown(s) /\ UNCHANGED <<open, inbox>>
    BY <2>3 DEF IInv, TypeOK, EndsFirst, Dealt
  <2>4. QED
    BY <2>1, <2>2, <2>3 DEF leave, shutdown
<1>4. TypeOK'
  BY <1>1, <1>2, <1>3 DEF IInv, TypeOK, tables, hist, Dealt
<1>5. MapsAgree' /\ OnlineIsLast' /\ OneUser' /\ NoGhosts'
  BY <1>1 DEF IInv, MapsAgree, OnlineIsLast, OneUser, NoGhosts, tables, hist
<1>6. QED
  BY <1>3, <1>4, <1>5 DEF IInv

-----------------------------------------------------------------------------
(* The part of IInv about the tables and the history. *)
Tables ==
    /\ m_login_user \in [Users -> Players \cup {NoPlayer}]
    /\ m_online_user \in [Sessions -> Players \cup {NoPlayer}]
    /\ m_user_id \in [Players -> Users \cup {NoUser}]
    /\ m_session \in [Players -> Sessions \cup {NoSession}]
    /\ lastlogin \in [Sessions -> Users \cup {NoUser}]
    /\ shared \subseteq Sessions /\ overdue \subseteq Sessions
    /\ routed \in [Sessions -> Users \cup {NoUser}]
    /\ \A p \in Players : m_session[p] # NoSession => m_user_id[p] \in Users
    /\ MapsAgree /\ OnlineIsLast /\ OneUser /\ NoGhosts

(* A user that is logged in logs in on session s. *)
LEMMA Relogin ==
    ASSUME Tables, NEW u \in Users, NEW s \in Sessions,
           m_login_user[u] # NoPlayer, relogin(u, s), Record(u, s)
    PROVE  Tables'
<1> DEFINE p == m_login_user[u]
           old == m_session[p]
<1>1. p \in Players /\ m_user_id[p] = u /\ old \in Sessions
  BY DEF Tables, MapsAgree
<1>2. /\ m_login_user' = m_login_user /\ m_user_id' = m_user_id
      /\ m_session' = [m_session EXCEPT ![p] = s]
      /\ m_online_user' = [x \in Sessions |-> IF x = s THEN p
                                              ELSE IF x = old THEN NoPlayer
                                              ELSE m_online_user[x]]
  BY DEF relogin
<1>3. /\ lastlogin' = [lastlogin EXCEPT ![s] = u] /\ done' = done /\ routed' = routed
      /\ shared' = shared \/ shared' = shared \cup {s}
      /\ overdue' = overdue \/ overdue' = overdue \cup {s}
      /\ s \in done => s \in overdue'
      /\ s \notin shared' => lastlogin[s] \in {NoUser, u}
  BY DEF Record
<1>4. \A q \in Players : m_session'[q] = IF q = p THEN s ELSE m_session[q]
  BY <1>1, <1>2 DEF Tables
<1>5. \A x \in Sessions : lastlogin'[x] = IF x = s THEN u ELSE lastlogin[x]
  BY <1>3 DEF Tables
<1>6. \A x \in Sessions : m_online_user'[x] = p => x = s
  BY <1>1, <1>2, LobbyAssumption DEF Tables, MapsAgree
<1> HIDE DEF p, old
<1>7. /\ m_login_user' \in [Users -> Players \cup {NoPlayer}]
      /\ m_online_user' \in [Sessions -> Players \cup {NoPlayer}]
      /\ m_user_id' \in [Players -> Users \cup {NoUser}]
      /\ m_session' \in [Players -> Sessions \cup {NoSession}]
      /\ lastlogin' \in [Sessions -> Users \cup {NoUser}]
      /\ shared' \subseteq Sessions /\ overdue' \subseteq Sessions
      /\ routed' \in [Sessions -> Users \cup {NoUser}]
  BY <1>1, <1>2, <1>3 DEF Tables
<1>8. \A q \in Players : m_session'[q] # NoSession => m_user_id'[q] \in Users
  BY <1>1, <1>2, <1>4 DEF Tables
<1>9. MapsAgree'
  <2>1. ASSUME NEW x \in Sessions, m_online_user'[x] # NoPlayer
        PROVE  /\ m_session'[m_online_user'[x]] = x
               /\ m_user_id'[m_online_user'[x]] \in Users
               /\ m_login_user'[m_user_id'[m_online_user'[x]]] = m_online_user'[x]
    <3>1. CASE x = s
      BY <1>1, <1>2, <1>4, <3>1 DEF p
    <3>2. CASE x # s
      <4>1. m_online_user'[x] = m_online_user[x] /\ m_online_user[x] \in Players \ {p}
        BY <1>2, <1>6, <2>1, <3>2 DEF Tables
      <4>2. QED
        BY <1>2, <1>4, <2>1, <4>1 DEF Tables, MapsAgree
    <3>3. QED
      BY <3>1, <3>2
  <2>2. ASSUME NEW v \in Users, m_login_user'[v] # NoPlayer
        PROVE  /\ m_user_id'[m_login_user'[v]] = v
               /\ m_session'[m_login_user'[v]] \in Sessions
    BY <1>2, <1>4, <2>2 DEF Tables, MapsAgree
  <2>3. QED
    BY <2>1, <2>2 DEF MapsAgree
<1>10. OnlineIsLast'
  BY <1>1, <1>2, <1>5 DEF Tables, OnlineIsLast
<1>11. OneUser'
  <2>1. SUFFICES ASSUME NEW v \in Users, m_login_user[v] # NoPlayer,
                        m_session'[m_login_user[v]] \notin shared'
                 PROVE  /\ lastlogin'[m_session'[m_login_user[v]]] = v
                        /\ m_online_user'[m_session'[m_login_user[v]]] = m_login_user[v]
    BY <1>2 DEF OneUser
  <2>2. CASE v = u
    BY <1>1, <1>2, <1>4, <1>5, <2>2 DEF p
  <2>3. CASE v # u
    <3>1. m_login_user[v] \in Players \ {p} /\ m_session[m_login_user[v]] \in Sessions
          /\ m_session'[m_login_user[v]] = m_session[m_login_user[v]]
      BY <1>1, <1>4, <2>1, <2>3 DEF Tables, MapsAgree
    <3>2. /\ m_session[m_login_user[v]] \notin shared
          /\ lastlogin[m_session[m_login_user[v]]] = v
          /\ m_online_user[m_session[m_login_user[v]]] = m_login_user[v]
      BY <1>3, <2>1, <3>1 DEF Tables, OneUser
    <3>3. m_session[m_login_user[v]] # s
      BY <1>3, <2>1, <2>3, <3>1, <3>2, LobbyAssumption
    <3>4. m_session[m_login_user[v]] # old
      BY <1>1, <2>3, <3>2 DEF Tables, OneUser, p, old
    <3>5. QED
      BY <1>2, <1>5, <3>1, <3>2, <3>3, <3>4
  <2>4. QED
    BY <2>2, <2>3
<1>12. NoGhosts'
  <2>1. ASSUME NEW v \in Users, m_login_user[v] # NoPlayer
        PROVE  m_session'[m_login_user[v]] \notin done' \ (shared' \cup overdue')
    BY <1>1, <1>3, <1>4, <2>1 DEF Tables, NoGhosts
  <2>2. QED
    BY <1>2, <2>1 DEF NoGhosts
<1>13. QED
  BY <1>7, <1>8, <1>9, <1>10, <1>11, <1>12 DEF Tables

(* A user that is not logged in logs in on session s. *)
LEMMA FirstLogin ==
    ASSUME Tables, NEW u \in Users, NEW s \in Sessions,
           m_login_user[u] = NoPlayer, first_login(u, s), Record(u, s)
    PROVE  Tables'
<1>1. PICK p \in Players :
        /\ Free(p)
        /\ m_user_id' = [m_user_id EXCEPT ![p] = u]
        /\ m_session' = [m_session EXCEPT ![p] = s]
        /\ m_login_user' = [m_login_user EXCEPT ![u] = p]
        /\ m_online_user' = [m_online_user EXCEPT ![s] = p]
  BY DEF first_login
<1>2. /\ lastlogin' = [lastlogin EXCEPT ![s] = u] /\ done' = done /\ routed' = routed
      /\ shared' = shared \/ shared' = shared \cup {s}
      /\ overdue' = overdue \/ overdue' = overdue \cup {s}
      /\ s \in done => s \in overdue'
      /\ s \notin shared' => lastlogin[s] \in {NoUser, u}
  BY DEF Record
<1>3. /\ \A q \in Players : /\ m_session'[q] = IF q = p THEN s ELSE m_session[q]
                            /\ m_user_id'[q] = IF q = p THEN u ELSE m_user_id[q]
      /\ \A v \in Users : m_login_user'[v] = IF v = u THEN p ELSE m_login_user[v]
      /\ \A x \in Sessions :
            /\ m_online_user'[x] = IF x = s THEN p ELSE m_online_user[x]
            /\ lastlogin'[x] = IF x = s THEN u ELSE lastlogin[x]
  BY <1>1, <1>2 DEF Tables
<1>4. p # NoPlayer /\ (\A v \in Users : m_login_user[v] # p)
      /\ (\A x \in Sessions : m_online_user[x] # p)
  BY <1>1, LobbyAssumption DEF Free
<1>5. /\ m_login_user' \in [Users -> Players \cup {NoPlayer}]
      /\ m_online_user' \in [Sessions -> Players \cup {NoPlayer}]
      /\ m_user_id' \in [Players -> Users \cup {NoUser}]
      /\ m_session' \in [Players -> Sessions \cup {NoSession}]
      /\ lastlogin' \in [Sessions -> Users \cup {NoUser}]
      /\ shared' \subseteq Sessions /\ overdue' \subseteq Sessions
      /\ routed' \in [Sessions -> Users \cup {NoUser}]
  BY <1>1, <1>2 DEF Tables
<1>6. \A q \in Players : m_session'[q] # NoSession => m_user_id'[q] \in Users
  BY <1>3 DEF Tables
<1>7. MapsAgree'
  <2>1. ASSUME NEW x \in Sessions, m_online_user'[x] # NoPlayer
        PROVE  /\ m_session'[m_online_user'[x]] = x
               /\ m_user_id'[m_online_user'[x]] \in Users
               /\ m_login_user'[m_user_id'[m_online_user'[x]]] = m_online_user'[x]
    <3>1. CASE x = s
      BY <1>3, <3>1
    <3>2. CASE x # s
      <4>1. m_online_user'[x] = m_online_user[x] /\ m_online_user[x] \in Players \ {p}
        BY <1>3, <1>4, <2>1, <3>2 DEF Tables
      <4>2. m_user_id[m_online_user[x]] # u
        BY <2>1, <4>1 DEF Tables, MapsAgree
      <4>3. QED
        BY <1>3, <2>1, <4>1, <4>2 DEF Tables, MapsAgree
    <3>3. QED
      BY <3>1, <3>2
  <2>2. ASSUME NEW v \in Users, m_login_user'[v] # NoPlayer
        PROVE  /\ m_user_id'[m_login_user'[v]] = v
               /\ m_session'[m_login_user'[v]] \in Sessions
    BY <1>3, <1>4, <2>2 DEF Tables, MapsAgree
  <2>3. QED
    BY <2>1, <2>2 DEF MapsAgree
<1>8. OnlineIsLast'
  BY <1>3, <1>4 DEF Tables, OnlineIsLast
<1>9. OneUser'
  <2>1. SUFFICES ASSUME NEW v \in Users, m_login_user'[v] # NoPlayer,
                        m_session'[m_login_user'[v]] \notin shared'
                 PROVE  /\ lastlogin'[m_session'[m_login_user'[v]]] = v
                        /\ m_online_user'[m_session'[m_login_user'[v]]] = m_login_user'[v]
    BY DEF OneUser
  <2>2. CASE v = u
    BY <1>3, <2>2
  <2>3. CASE v # u
    <3>1. /\ m_login_user'[v] = m_login_user[v] /\ m_login_user[v] \in Players \ {p}
          /\ m_session[m_login_user[v]] \in Sessions
          /\ m_session'[m_login_user[v]] = m_session[m_login_user[v]]
      BY <1>3, <1>4, <2>1, <2>3 DEF Tables, MapsAgree
    <3>2. /\ m_session[m_login_user[v]] \notin shared
          /\ lastlogin[m_session[m_login_user[v]]] = v
          /\ m_online_user[m_session[m_login_user[v]]] = m_login_user[v]
      BY <1>2, <2>1, <3>1 DEF Tables, OneUser
    <3>3. m_session[m_login_user[v]] # s
      BY <1>2, <2>1, <2>3, <3>1, <3>2, LobbyAssumption
    <3>4. QED
      BY <1>3, <3>1, <3>2, <3>3
  <2>4. QED
    BY <2>2, <2>3
<1>10. NoGhosts'
  <2>1. ASSUME NEW v \in Users, m_login_user'[v] # NoPlayer
        PROVE  m_session'[m_login_user'[v]] \notin done' \ (shared' \cup overdue')
    BY <1>2, <1>3, <1>4, <2>1 DEF Tables, NoGhosts
  <2>2. QED
    BY <2>1 DEF NoGhosts
<1>11. QED
  BY <1>5, <1>6, <1>7, <1>8, <1>9, <1>10 DEF Tables

(* The end of session s is handled. *)
LEMMA SessionClose ==
    ASSUME Tables, NEW s \in Sessions, on_session_close(s)
    PROVE  Tables'
<1>1. UNCHANGED <<m_user_id, lastlogin, shared, overdue, routed>> /\ done' = done \cup {s}
  BY DEF on_session_close, tables
<1>2. CASE m_online_user[s] = NoPlayer
  <2>1. UNCHANGED <<m_login_user, m_online_user, m_session>>
    BY <1>2 DEF on_session_close, tables
  <2>2. NoGhosts'
    BY <1>1, <1>2, <2>1, LobbyAssumption DEF Tables, NoGhosts, OneUser
  <2>3. MapsAgree' /\ OnlineIsLast' /\ OneUser'
    BY <1>1, <2>1 DEF Tables, MapsAgree, OnlineIsLast, OneUser
  <2>4. QED
    BY <1>1, <2>1, <2>2, <2>3 DEF Tables
<1>3. CASE m_online_user[s] # NoPlayer
  <2> DEFINE p == m_online_user[s]
             w == m_user_id[p]
  <2>1. p \in Players /\ w \in Users /\ m_session[p] = s /\ m_login_user[w] = p
    BY <1>3 DEF Tables, MapsAgree
  <2>2. /\ m_session' = [m_session EXCEPT ![p] = NoSession]
        /\ m_online_user' = [m_online_user EXCEPT ![s] = NoPlayer]
        /\ m_login_user' = [m_login_user EXCEPT ![w] = NoPlayer]
    BY <1>3 DEF on_session_close
  <2>3. p = m_online_user[s] /\ w = m_user_id[p]
    OBVIOUS
  <2> HIDE DEF p, w
  <2>4. /\ \A q \in Players : m_session'[q] = IF q = p THEN NoSession ELSE m_session[q]
        /\ \A v \in Users : m_login_user'[v] = IF v = w THEN NoPlayer ELSE m_login_user[v]
        /\ \A x \in Sessions :
              m_online_user'[x] = IF x = s THEN NoPlayer ELSE m_online_user[x]
    BY <2>1, <2>2 DEF Tables
  <2>5. /\ m_login_user' \in [Users -> Players \cup {NoPlayer}]
        /\ m_online_user' \in [Sessions -> Players \cup {NoPlayer}]
        /\ m_session' \in [Players -> Sessions \cup {NoSession}]
    BY <2>2 DEF Tables
  <2>6. \A q \in Players : m_session'[q] # NoSession => m_user_id'[q] \in Users
    BY <1>1, <2>4 DEF Tables
  <2>7. \A v \in Users : m_login_user'[v] # NoPlayer =>
           /\ v # w /\ m_login_user'[v] = m_login_user[v]
           /\ m_login_user[v] \in Players \ {p}
           /\ m_session'[m_login_user[v]] = m_session[m_login_user[v]]
    BY <2>3, <2>4 DEF Tables, MapsAgree
  <2>8. MapsAgree'
    <3>1. ASSUME NEW x \in Sessions, m_online_user'[x] # NoPlayer
          PROVE  /\ m_session'[m_online_user'[x]] = x
                 /\ m_user_id'[m_online_user'[x]] \in Users
                 /\ m_login_user'[m_user_id'[m_online_user'[x]]] = m_online_user'[x]
      <4>1. x # s /\ m_online_user'[x] = m_online_user[x]
        BY <2>4, <3>1
      <4>2. m_online_user[x] \in Players \ {p}
        BY <2>1, <3>1, <4>1 DEF Tables, MapsAgree
      <4>3. m_user_id[m_online_user[x]] # w
        BY <2>1, <3>1, <4>1, <4>2 DEF Tables, MapsAgree
      <4>4. QED
        BY <1>1, <2>4, <3>1, <4>1, <4>2, <4>3 DEF Tables, MapsAgree
    <3>2. ASSUME NEW v \in Users, m_login_user'[v] # NoPlayer
          PROVE  /\ m_user_id'[m_login_user'[v]] = v
                 /\ m_session'[m_login_user'[v]] \in Sessions
      BY <1>1, <2>7, <3>2 DEF Tables, MapsAgree
    <3>3. QED
      BY <3>1, <3>2 DEF MapsAgree
  <2>9. OnlineIsLast'
    BY <1>1, <2>4 DEF Tables, OnlineIsLast
  <2>10. OneUser'
    <3>1. SUFFICES ASSUME NEW v \in Users, m_login_user'[v] # NoPlayer,
                          m_session'[m_login_user'[v]] \notin shared'
                   PROVE  /\ lastlogin'[m_session'[m_login_user'[v]]] = v
                          /\ m_online_user'[m_session'[m_login_user'[v]]] = m_login_user'[v]
      BY DEF OneUser
    <3>2. /\ m_session[m_login_user[v]] \in Sessions
          /\ lastlogin[m_session[m_login_user[v]]] = v
          /\ m_online_user[m_session[m_login_user[v]]] = m_login_user[v]
      BY <1>1, <2>7, <3>1, LobbyAssumption DEF Tables, OneUser, MapsAgree
    <3>3. m_session[m_login_user[v]] # s
      BY <2>3, <2>7, <3>1, <3>2
    <3>4. QED
      BY <1>1, <2>4, <2>7, <3>1, <3>2, <3>3
  <2>11. NoGhosts'
    <3>1. ASSUME NEW v \in Users, m_login_user'[v] # NoPlayer
          PROVE  m_session'[m_login_user'[v]] \notin done' \ (shared' \cup overdue')
      <4>1. m_session'[m_login_user'[v]] = m_session[m_login_user[v]]
        BY <2>7, <3>1
      <4>2. CASE m_session[m_login_user[v]] = s
        BY <1>1, <2>4, <2>10, <3>1, <4>1, <4>2 DEF OneUser
      <4>3. CASE m_session[m_login_user[v]] # s
        BY <1>1, <2>7, <3>1, <4>1, <4>3 DEF Tables, NoGhosts
      <4>4. QED
        BY <4>2, <4>3
    <3>2. QED
      BY <3>1 DEF NoGhosts
  <2>12. QED
    BY <1>1, <2>5, <2>6, <2>8, <2>9, <2>10, <2>11 DEF Tables
<1>4. QED
  BY <1>2, <1>3

-----------------------------------------------------------------------------
(* A message is handled. *)
LEMMA HandlerStep ==
    ASSUME IInv, do_handle_message
    PROVE  IInv'
<1> DEFINE m == Head(inbox)
<1>1. /\ m \in Dealt /\ inbox' = Tail(inbox) /\ inbox' \in Seq(Dealt)
      /\ EndsFirst' /\ (m.f = "close" => m.s \notin open)
  BY NextMessage DEF do_handle_message, net, EndsFirst
<1>2. m.s \in Sessions /\ m.u \in Users \cup {NoUser}
  BY <1>1 DEF Dealt
<1>3. Tables
  BY DEF IInv, TypeOK, Tables
<1>4. UNCHANGED <<open, sent, late>>
  BY DEF do_handle_message, net
<1>5. /\ Tables' /\ closing' \subseteq Sessions /\ done' \subseteq Sessions \ open'
  <2>1. CASE m.f = "login" /\ player_token_login(m.u, m.s)
    <3>1. closing' \subseteq Sessions /\ done' = done
      <4>1. CASE m.u = NoUser
        BY <1>2, <2>1, <4>1
           DEF player_token_login, shutdown_user_session, hist, IInv, TypeOK
      <4>2. CASE m.u \in Users /\ m_login_user[m.u] # NoPlayer
        <5>1. m_session[m_login_user[m.u]] \in Sessions
          BY <4>2 DEF IInv, MapsAgree
        <5>2. relogin(m.u, m.s) /\ Record(m.u, m.s)
          BY <2>1, <4>2, LobbyAssumption DEF player_token_login, add_user_session
        <5>3. QED
          BY <5>1, <5>2 DEF relogin, Record, shutdown_user_session, IInv, TypeOK
      <4>3. CASE m.u \in Users /\ m_login_user[m.u] = NoPlayer
        <5>1. first_login(m.u, m.s) /\ Record(m.u, m.s)
          BY <2>1, <4>3, LobbyAssumption DEF player_token_login, add_user_session
        <5>2. QED
          BY <5>1 DEF first_login, Record, IInv, TypeOK
      <4>4. QED
        BY <1>2, <4>1, <4>2, <4>3
    <3>2. Tables'
      <4>1. CASE m.u = NoUser
        <5>1. UNCHANGED <<tables, hist>>
          BY <2>1, <4>1 DEF player_token_login
        <5>2. QED
          BY <1>3, <5>1
             DEF Tables, MapsAgree, OnlineIsLast, OneUser, NoGhosts, tables, hist
      <4>2. CASE m.u # NoUser
        <5>1. m.u \in Users /\ add_user_session(m.u, m.s) /\ Record(m.u, m.s)
          BY <1>2, <2>1, <4>2 DEF player_token_login
        <5>2. QED
          BY <1>2, <1>3, <5>1, Relogin, FirstLogin DEF add_user_session
      <4>3. QED
        BY <4>1, <4>2
    <3>3. QED
      BY <1>4, <3>1, <3>2 DEF IInv, TypeOK
  <2>2. CASE m.f = "close" /\ on_session_close(m.s)
    <3>1. Tables'
      BY <1>2, <1>3, <2>2, SessionClose
    <3>2. closing' = closing /\ done' = done \cup {m.s}
      BY <2>2 DEF on_session_close
    <3>3. QED
      BY <1>1, <1>2, <1>4, <2>2, <3>1, <3>2 DEF IInv, TypeOK
  <2>3. CASE m.f = "app" /\ on_unknown_msg(m.s)
    <3>1. /\ UNCHANGED <<tables, closing, lastlogin, shared, done, overdue>>
          /\ routed' = routed
             \/ /\ m_online_user[m.s] # NoPlayer
                /\ routed' = [routed EXCEPT ![m.s] = m_user_id[m_online_user[m.s]]]
      BY <2>3 DEF on_unknown_msg
    <3>2. routed' \in [Sessions -> Users \cup {NoUser}]
      BY <1>2, <1>3, <3>1 DEF Tables
    <3>3. QED
      BY <1>3, <1>4, <3>1, <3>2
         DEF Tables, MapsAgree, OnlineIsLast, OneUser, NoGhosts, tables, IInv, TypeOK
  <2>4. QED
    BY <2>1, <2>2, <2>3 DEF do_handle_message
<1>6. TypeOK'
  BY <1>1, <1>4, <1>5 DEF TypeOK, Tables, IInv, Dealt
<1>7. QED
  BY <1>1, <1>5, <1>6 DEF IInv, Tables

(* IInv is an invariant of the lobby. *)
THEOREM LobbyInvariant == Spec => []IInv
<1>1. Init => IInv
  BY LobbyAssumption
     DEF Init, IInv, TypeOK, MapsAgree, EndsFirst, OnlineIsLast, OneUser, NoGhosts
<1>2. IInv /\ [Next]_vars => IInv'
  <2>1. SUFFICES ASSUME IInv, [Next]_vars PROVE IInv'
    OBVIOUS
  <2>2. CASE UNCHANGED vars
    BY <2>1, <2>2 DEF vars, tables, net, hist, IInv, TypeOK, MapsAgree, EndsFirst,
                      OnlineIsLast, OneUser, NoGhosts
  <2>3. CASE Next
    BY <2>1, <2>3, NetworkStep, HandlerStep DEF Next
  <2>4. QED
    BY <2>1, <2>2, <2>3
<1>3. QED
  BY <1>1, <1>2, PTL DEF Spec

(* The lobby's maps stay maps between users and sessions that connected    *)
(* (m_login_user, m_online_user).                                          *)
THEOREM LobbyTypes == Spec => []TypeOK
<1>1. IInv => TypeOK
  BY DEF IInv
<1>2. QED
  BY <1>1, LobbyInvariant, PTL

(* m_login_user and m_online_user agree, in whatever order users log in    *)
(* and sessions end: the assert(0) in the game server's copy of            *)
(* on_session_close cannot fail.                                           *)
THEOREM LobbyMapsAgree == Spec => []MapsAgree
<1>1. IInv => MapsAgree
  BY DEF IInv
<1>2. QED
  BY <1>1, LobbyInvariant, PTL

(* A user stays logged in over an ended session only if the session was    *)
(* shared or ended before its last login was handled (on_session_close).   *)
THEOREM LobbyNoGhosts == Spec => []NoGhosts
<1>1. IInv => NoGhosts
  BY DEF IInv
<1>2. QED
  BY <1>1, LobbyInvariant, PTL

(* check_user_msg names the user that last logged in on the message's      *)
(* session.                                                                *)
THEOREM LobbyRightUser == Spec => RightUser
<1> DEFINE Routes == \A s \in Sessions : routed'[s] # routed[s] => routed'[s] = lastlogin[s]
<1>1. IInv /\ [Next]_vars => [Routes]_vars
  <2>1. SUFFICES ASSUME IInv, Next, NEW s \in Sessions, routed'[s] # routed[s]
                 PROVE  routed'[s] = lastlogin[s]
    BY DEF vars
  <2>2. do_handle_message
    BY <2>1 DEF Next, receive, leave, shutdown, hist
  <2>3. Head(inbox).f = "app" /\ on_unknown_msg(Head(inbox).s)
    BY <2>1, <2>2 DEF do_handle_message, player_token_login, Record, hist, on_session_close
  <2>4. Head(inbox).s \in Sessions
    BY <2>1, <2>2, NextMessage DEF do_handle_message, Dealt
  <2>5. QED
    BY <2>1, <2>3, <2>4 DEF on_unknown_msg, IInv, OnlineIsLast, TypeOK
<1>2. QED
  BY <1>1, LobbyInvariant, PTL DEF Spec, RightUser
=============================================================================
