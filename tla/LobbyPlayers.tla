---------------------------- MODULE LobbyPlayers -----------------------------
(***************************************************************************)
(* Who is logged in at a lobby server, and over which connection           *)
(* (lobbysvr/PlayerManager.cpp, PlayerTaskManager.cpp, Player.h).          *)
(*                                                                         *)
(* m_login_user finds a user's Player, m_online_user the Player of a       *)
(* session; the Player knows its user and its session.  The sessions, each *)
(* in its own loop, deal messages to the one thread that runs the handlers *)
(* here, and are shut down by a task posted to their loop.  Of a session   *)
(* this module takes what TcpSession.tla shows: its end is dealt once, and *)
(* one message at most is dealt after it.  Heartbeats and the two clocks   *)
(* (m_session_time, the player's online time) are left out: on_timeout,    *)
(* the only reader of the first, is never started, and nothing reads the   *)
(* second.                                                                 *)
(***************************************************************************)
EXTENDS Naturals, Sequences

CONSTANTS Users, Sessions, Players,     \* Players: the objects, reused once freed
          NoUser, NoSession, NoPlayer,
          MaxMessages,                  \* bound: messages of one open session
          MaxInbox                      \* bound: messages that wait to be handled

ASSUME LobbyAssumption ==
    /\ NoUser \notin Users /\ NoSession \notin Sessions /\ NoPlayer \notin Players
    /\ MaxMessages \in Nat /\ MaxInbox \in Nat

VARIABLES
    m_login_user,   \* by user
    m_online_user,  \* by session
    m_user_id,      \* by player
    m_session,      \* by player
    inbox,          \* the task loop: messages dealt by the sessions
    closing,        \* sessions with a shutdown posted to their loop
    open,           \* sessions whose socket is open
    sent,           \* messages sent by each session
    late,           \* sessions that dealt a message after their end
    lastlogin,      \* the user that last logged in on each session
    shared,         \* sessions on which several users logged in
    done,           \* sessions whose end was handled
    overdue,        \* sessions with a login handled after their end
    routed          \* the user the session's last message was forwarded for

tables == <<m_login_user, m_online_user, m_user_id, m_session>>
net    == <<open, sent, late>>
hist   == <<lastlogin, shared, done, overdue, routed>>
vars   == <<tables, inbox, closing, net, hist>>

Init ==
    /\ m_login_user = [u \in Users |-> NoPlayer]
    /\ m_online_user = [s \in Sessions |-> NoPlayer]
    /\ m_user_id = [p \in Players |-> NoUser]
    /\ m_session = [p \in Players |-> NoSession]
    /\ inbox = <<>>
    /\ closing = {}
    /\ open = Sessions
    /\ sent = [s \in Sessions |-> 0]
    /\ late = {}
    /\ lastlogin = [s \in Sessions |-> NoUser]
    /\ shared = {} /\ done = {} /\ overdue = {}
    /\ routed = [s \in Sessions |-> NoUser]

Message(f, s, u) == [f |-> f, s |-> s, u |-> u]

-----------------------------------------------------------------------------
(* The sessions.  A peer sends logins and other requests of its own; the   *)
(* two commands the server makes for itself, CMD_SESSION_OPEN and          *)
(* CMD_SESSION_CLOSE, are taken to come from the session alone.            *)
Contents(s) ==
    {Message("login", s, u) : u \in Users \cup {NoUser}} \cup {Message("app", s, NoUser)}

(* A message is read, or the one that was on its way when the session ended. *)
receive(s) ==
    /\ Len(inbox) < MaxInbox
    /\ IF s \in open THEN sent[s] < MaxMessages /\ UNCHANGED late
                     ELSE s \notin late /\ late' = late \cup {s}
    /\ sent' = [sent EXCEPT ![s] = @ + 1]
    /\ \E m \in Contents(s) : inbox' = Append(inbox, m)
    /\ UNCHANGED <<tables, closing, open, hist>>

End(s) ==
    /\ open' = open \ {s}
    /\ inbox' = Append(inbox, Message("close", s, NoUser))

leave(s) ==
    /\ Len(inbox) < MaxInbox
    /\ s \in open
    /\ End(s)
    /\ UNCHANGED <<tables, closing, sent, late, hist>>

(* CMD_SHUTDOWN_SESSION: Session::close in the session's loop. *)
shutdown(s) ==
    /\ s \in closing
    /\ closing' = closing \ {s}
    /\ IF s \in open THEN End(s) ELSE UNCHANGED <<open, inbox>>
    /\ UNCHANGED <<tables, sent, late, hist>>

-----------------------------------------------------------------------------
(* The handlers. *)
Free(p) ==
    /\ \A u \in Users : m_login_user[u] # p
    /\ \A s \in Sessions : m_online_user[s] # p

shutdown_user_session(s) == closing' = closing \cup {s}

(* Fault: the session the user leaves stays in m_online_user. *)
relogin_both(u, s) ==
    LET p   == m_login_user[u]
        old == m_session[p]
    IN  /\ m_session' = [m_session EXCEPT ![p] = s]
        /\ m_online_user' = [m_online_user EXCEPT ![s] = p]
        /\ IF old \notin {NoSession, s} THEN shutdown_user_session(old)
                                        ELSE UNCHANGED closing
        /\ UNCHANGED <<m_login_user, m_user_id>>

(* Fault: the session the user leaves is not shut down. *)
relogin_quiet(u, s) ==
    LET p   == m_login_user[u]
        old == m_session[p]
    IN  /\ m_session' = [m_session EXCEPT ![p] = s]
        /\ m_online_user' = [x \in Sessions |-> IF x = s THEN p
                                                ELSE IF x = old THEN NoPlayer
                                                ELSE m_online_user[x]]
        /\ UNCHANGED <<m_login_user, m_user_id, closing>>

relogin(u, s) ==
    LET p   == m_login_user[u]
        old == m_session[p]
    IN  /\ m_session' = [m_session EXCEPT ![p] = s]
        /\ m_online_user' = [x \in Sessions |-> IF x = s THEN p
                                                ELSE IF x = old THEN NoPlayer
                                                ELSE m_online_user[x]]
        /\ IF old \notin {NoSession, s} THEN shutdown_user_session(old)
                                        ELSE UNCHANGED closing
        /\ UNCHANGED <<m_login_user, m_user_id>>

(* Fault: set_player_id is forgotten. *)
first_login_nameless(u, s) ==
    \E p \in Players :
        /\ Free(p)
        /\ m_session' = [m_session EXCEPT ![p] = s]
        /\ m_login_user' = [m_login_user EXCEPT ![u] = p]
        /\ m_online_user' = [m_online_user EXCEPT ![s] = p]
        /\ UNCHANGED <<m_user_id, closing>>

(* Fault: a Player that was used before keeps its user. *)
first_login_recycled(u, s) ==
    \E p \in Players :
        /\ Free(p)
        /\ m_user_id' = [m_user_id EXCEPT ![p] = IF @ = NoUser THEN u ELSE @]
        /\ m_session' = [m_session EXCEPT ![p] = s]
        /\ m_login_user' = [m_login_user EXCEPT ![u] = p]
        /\ m_online_user' = [m_online_user EXCEPT ![s] = p]
        /\ UNCHANGED closing

first_login(u, s) ==
    \E p \in Players :
        /\ Free(p)
        /\ m_user_id' = [m_user_id EXCEPT ![p] = u]
        /\ m_session' = [m_session EXCEPT ![p] = s]
        /\ m_login_user' = [m_login_user EXCEPT ![u] = p]
        /\ m_online_user' = [m_online_user EXCEPT ![s] = p]
        /\ UNCHANGED closing

add_user_session(u, s) ==
    IF m_login_user[u] # NoPlayer THEN relogin(u, s) ELSE first_login(u, s)

Record(u, s) ==
    /\ lastlogin' = [lastlogin EXCEPT ![s] = u]
    /\ shared' = IF lastlogin[s] \notin {NoUser, u} THEN shared \cup {s} ELSE shared
    /\ overdue' = IF s \in done THEN overdue \cup {s} ELSE overdue
    /\ UNCHANGED <<done, routed>>

(* A token that fails its check is answered by shutting the session down. *)
player_token_login(u, s) ==
    IF u = NoUser
      THEN shutdown_user_session(s) /\ UNCHANGED <<tables, hist>>
      ELSE add_user_session(u, s) /\ Record(u, s)

(* Fault: only m_online_user hears of the end. *)
on_session_close_half(s) ==
    /\ m_online_user' = [m_online_user EXCEPT ![s] = NoPlayer]
    /\ done' = done \cup {s}
    /\ UNCHANGED <<m_login_user, m_user_id, m_session, closing, lastlogin, shared,
                   overdue, routed>>

on_session_close(s) ==
    /\ LET p == m_online_user[s] IN
         IF p = NoPlayer THEN UNCHANGED tables
         ELSE /\ m_session' = [m_session EXCEPT ![p] = NoSession]
              /\ m_online_user' = [m_online_user EXCEPT ![s] = NoPlayer]
              /\ m_login_user' = [m_login_user EXCEPT ![m_user_id[p]] = NoPlayer]
              /\ UNCHANGED m_user_id
    /\ done' = done \cup {s}
    /\ UNCHANGED <<closing, lastlogin, shared, overdue, routed>>

(* check_user_msg names the user for whom dispatch_app_msg forwards. *)
on_unknown_msg(s) ==
    /\ LET p == m_online_user[s] IN
         routed' = IF p = NoPlayer THEN routed ELSE [routed EXCEPT ![s] = m_user_id[p]]
    /\ UNCHANGED <<tables, closing, lastlogin, shared, done, overdue>>

do_handle_message ==
    /\ inbox # <<>>
    /\ inbox' = Tail(inbox)
    /\ LET m == Head(inbox) IN
         \/ m.f = "login" /\ player_token_login(m.u, m.s)
         \/ m.f = "close" /\ on_session_close(m.s)
         \/ m.f = "app"   /\ on_unknown_msg(m.s)
    /\ UNCHANGED net

Next ==
    \/ \E s \in Sessions : receive(s) \/ leave(s) \/ shutdown(s)
    \/ do_handle_message

Spec == Init /\ [][Next]_vars

(* The task loop and the sessions' loops run what is posted to them. *)
FairSpec == /\ Spec
            /\ WF_vars(do_handle_message)
            /\ \A s \in Sessions : WF_vars(shutdown(s))

-----------------------------------------------------------------------------
TypeOK ==
    /\ m_login_user \in [Users -> Players \cup {NoPlayer}]
    /\ m_online_user \in [Sessions -> Players \cup {NoPlayer}]
    /\ m_user_id \in [Players -> Users \cup {NoUser}]
    /\ m_session \in [Players -> Sessions \cup {NoSession}]
    /\ inbox \in Seq([f : {"login", "close", "app"}, s : Sessions,
                      u : Users \cup {NoUser}])
    /\ closing \subseteq Sessions /\ open \subseteq Sessions
    /\ sent \in [Sessions -> Nat]
    /\ lastlogin \in [Sessions -> Users \cup {NoUser}]
    /\ shared \subseteq Sessions /\ overdue \subseteq Sessions
    /\ late \subseteq Sessions \ open /\ done \subseteq Sessions \ open
    /\ \A p \in Players : m_session[p] # NoSession => m_user_id[p] \in Users
    /\ routed \in [Sessions -> Users \cup {NoUser}]

(* The two maps agree, whatever users log in where and in which order      *)
(* sessions end: a session's player is the player of its user (what the    *)
(* assert(0) of the game server's copy of on_session_close claims) and is  *)
(* on that session; a user's player is its own and has a session.          *)
MapsAgree ==
    /\ \A s \in Sessions : m_online_user[s] # NoPlayer =>
          /\ m_session[m_online_user[s]] = s
          /\ m_user_id[m_online_user[s]] \in Users
          /\ m_login_user[m_user_id[m_online_user[s]]] = m_online_user[s]
    /\ \A u \in Users : m_login_user[u] # NoPlayer =>
          /\ m_user_id[m_login_user[u]] = u
          /\ m_session[m_login_user[u]] \in Sessions

(* A user is not logged in over a connection that has ended, unless the    *)
(* connection was used by several users or its last message was the login. *)
NoGhosts ==
    \A u \in Users : m_login_user[u] # NoPlayer =>
        m_session[m_login_user[u]] \notin done \ (shared \cup overdue)

(* A message is forwarded for the user that last logged in on its session. *)
RightUser ==
    [][\A s \in Sessions : routed'[s] # routed[s] => routed'[s] = lastlogin[s]]_vars

(* m_login_user holds "the users that logged in, those who are offline for *)
(* a moment included; the record is deleted 5 minutes after the user goes  *)
(* offline" (PlayerManager.h:65).  No time passes in this module.          *)
KeptWhileOffline ==
    [][\A u \in Users : m_login_user[u] # NoPlayer => m_login_user'[u] # NoPlayer]_vars

(* The connection a user left for another one is ended, and the lobby      *)
(* hears of it.                                                            *)
Elsewhere(u, s) ==
    /\ lastlogin[s] = u
    /\ m_login_user[u] # NoPlayer
    /\ m_session[m_login_user[u]] # s

OldSessionEnds ==
    \A s \in Sessions, u \in Users :
        Elsewhere(u, s) ~> s \in done \/ ~Elsewhere(u, s)
=============================================================================
