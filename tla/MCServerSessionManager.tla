----------------------- MODULE MCServerSessionManager ------------------------
(* Servers of two loops: two connections and room for one or for both, and *)
(* three with room for one, which say nothing.                             *)
EXTENDS ServerSessionManager

MCServers ==
    {[m_max_session_count |-> 1, sessions |-> 2, messages |-> 1],
     [m_max_session_count |-> 2, sessions |-> 2, messages |-> 1],
     [m_max_session_count |-> 1, sessions |-> 3, messages |-> 0]}
=============================================================================
