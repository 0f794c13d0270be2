----------------------------- MODULE TcpSession ------------------------------
(***************************************************************************)
(* One TcpSession and the IoLoop it lives in (libserver/TcpSession.cpp).   *)
(*                                                                         *)
(* The loop is a FIFO of handlers that are ready: functions posted by      *)
(* other threads, and completions of the socket's asynchronous operations. *)
(* A handler runs to its end; the functions below take the session's state *)
(* and give the state after the call, so that a handler composes the calls *)
(* it makes in their order.  Closing the socket completes the operations   *)
(* in progress with an error; one that has completed already stays in the  *)
(* loop as it is.                                                          *)
(***************************************************************************)
EXTENDS SendQueue, FiniteSets

CONSTANTS MaxWrites,    \* bound: messages given to do_write
          MaxFrames,    \* bound: frames that arrive from the peer
          MaxPosts      \* bound: calls of close and of check_alive

ASSUME SessionAssumption ==
    /\ MaxWrites \in Nat
    /\ MaxFrames \in Nat
    /\ MaxPosts \in Nat

VARIABLES
    s,          \* the session and its loop
    started,    \* what start() has done: "no", "half", "yes", or "rejected"
    posts       \* calls of close and check_alive so far

vars == <<s, started, posts>>

ReadStages == {"head_len", "head", "body"}

(***************************************************************************)
(* shared: the thread that starts the session runs its loop (a client's    *)
(* session, or one that shares the loop of the session manager);           *)
(* open: m_socket.is_open();  queue: m_send_queue;  reading, writing: the  *)
(* asynchronous operation in progress;  silent: nothing was received for   *)
(* m_alive_interval seconds;  ready: the loop;  dealt: what was given to   *)
(* m_recv_message_dealer;  told: calls of m_session_manager->              *)
(* close_session;  accepted, wire: messages that entered the queue, and    *)
(* that were written;  sent: messages made so far.                         *)
(***************************************************************************)
NewSession(shared) ==
    [shared |-> shared, open |-> TRUE, queue |-> EmptyQueue, reading |-> "none",
     writing |-> FALSE, silent |-> FALSE, ready |-> <<>>, dealt |-> <<>>,
     told |-> 0, accepted |-> <<>>, wire |-> <<>>, sent |-> 0, frames |-> 0]

Init ==
    /\ s \in {NewSession(b) : b \in BOOLEAN}
    /\ started = "no"
    /\ posts = 0

-----------------------------------------------------------------------------
Post(x, handler) == [x EXCEPT !.ready = Append(@, handler)]
Deal(x, what)    == [x EXCEPT !.dealt = Append(@, what)]

Completion(op, failed) == [h |-> op, err |-> failed]

Aborted(x) ==
    (IF x.reading = "none" THEN <<>> ELSE <<Completion(x.reading, TRUE)>>) \o
    (IF x.writing THEN <<Completion("write", TRUE)>> ELSE <<>>)

(* Fault: the dealer is not told. *)
do_close_quiet(x) ==
    IF x.open
      THEN [x EXCEPT !.open = FALSE, !.reading = "none", !.writing = FALSE,
                     !.ready = @ \o Aborted(x), !.told = @ + 1]
      ELSE x

(* Closes the socket, tells the session manager, then the dealer. *)
do_close(x) ==
    IF x.open
      THEN Deal([x EXCEPT !.open = FALSE, !.reading = "none", !.writing = FALSE,
                          !.ready = @ \o Aborted(x), !.told = @ + 1], "close")
      ELSE x

(* async_read of the next part of a frame; on a closed socket it fails. *)
async_read(x, stage) ==
    IF x.open THEN [x EXCEPT !.reading = stage]
              ELSE Post(x, Completion(stage, TRUE))

do_read_head_len(x) == async_read(x, "head_len")

(* valid: the length announced fits MSG_BUF_SIZE. *)
do_read_head(x, valid) == IF valid THEN async_read(x, "head") ELSE do_close(x)

(* valid: the header decodes and its check_result agrees. *)
do_read_body(x, valid) == IF valid THEN async_read(x, "body") ELSE do_close(x)

(* Fault: a message is written at once although another is being written. *)
do_write_at_once(x, msg) ==
    IF Refuse(x.queue)
      THEN do_close(x)
      ELSE [x EXCEPT !.queue = Push(x.queue, msg),
                     !.accepted = Append(@, msg),
                     !.writing = IF x.open THEN TRUE ELSE @]

(* A message goes to the socket at once only if none is being written. *)
do_write(x, msg) ==
    IF Refuse(x.queue)
      THEN do_close(x)
      ELSE [x EXCEPT !.queue = Push(x.queue, msg),
                     !.accepted = Append(@, msg),
                     !.writing = IF IsEmpty(x.queue) /\ x.open THEN TRUE ELSE @]

on_write_complete(x, err) ==
    IF err
      THEN do_close(x)
      ELSE LET popped == Pop(x.queue)
           IN  [x EXCEPT !.queue = popped,
                         !.wire = Append(@, Front(x.queue)),
                         !.writing = ~IsEmpty(popped) /\ x.open]

(* What the code above does with a message while it is being dealt: it     *)
(* may answer (the reply to a heartbeat) or close the session, in the      *)
(* loop's own thread and therefore on the spot.  Bound: one of the two for *)
(* a message.  In the library only deal_heart_beat_message writes here,    *)
(* once; the servers' task managers post the rest to their own loop.       *)
React(x, reaction) ==
    CASE reaction = "none"  -> x
      [] reaction = "reply" -> do_write([x EXCEPT !.sent = @ + 1], x.sent + 1)
      [] reaction = "close" -> do_close(x)

(* Fault: the message is dealt twice. *)
on_read_complete_twice(x, err, valid, reaction) ==
    IF ~err /\ valid
      THEN do_read_head_len(React(Deal(Deal([x EXCEPT !.silent = FALSE,
                                                      !.frames = @ + 1],
                                            "message"), "message"), reaction))
      ELSE do_close(x)

(* Fault: the next frame is not asked for. *)
on_read_complete_deaf(x, err, valid, reaction) ==
    IF ~err /\ valid
      THEN React(Deal([x EXCEPT !.silent = FALSE, !.frames = @ + 1], "message"),
                 reaction)
      ELSE do_close(x)

(* valid: the message is known and decodes. *)
on_read_complete(x, err, valid, reaction) ==
    IF ~err /\ valid
      THEN do_read_head_len(React(Deal([x EXCEPT !.silent = FALSE,
                                                 !.frames = @ + 1],
                                       "message"), reaction))
      ELSE do_close(x)

on_read_head_len_complete(x, err, valid) ==
    IF err THEN do_close(x) ELSE do_read_head(x, valid)

on_read_head_complete(x, err, valid) ==
    IF err THEN do_close(x) ELSE do_read_body(x, valid)

do_session_open(x) == Deal(x, "open")

do_check_alive(x) == IF x.silent THEN do_close(x) ELSE x

-----------------------------------------------------------------------------
(***************************************************************************)
(* TcpSession::start, called by the session manager: it posts the first    *)
(* read and then do_session_open.  Between the two the session's loop may  *)
(* already be at work, unless it is the caller's own loop.                 *)
(***************************************************************************)
start ==
    /\ started = "no"
    /\ s.open
    /\ IF s.shared
         THEN /\ s' = do_session_open(do_read_head_len([s EXCEPT !.silent = FALSE]))
              /\ started' = "yes"
         ELSE /\ s' = Post([s EXCEPT !.silent = FALSE], [h |-> "do_read_head_len"])
              /\ started' = "half"
    /\ UNCHANGED posts

start_rest ==
    /\ started = "half"
    /\ s' = Post(s, [h |-> "do_session_open"])
    /\ started' = "yes"
    /\ UNCHANGED posts

(* A session over the manager's limit is closed and never started. *)
reject ==
    /\ started = "no"
    /\ started' = "rejected"
    /\ s' = IF s.shared THEN do_close(s) ELSE Post(s, [h |-> "do_close"])
    /\ UNCHANGED posts

(* Session::send from another thread posts do_send_message. *)
send ==
    /\ s.sent < MaxWrites
    /\ started # "no"
    /\ s' = Post([s EXCEPT !.sent = @ + 1], [h |-> "do_write", msg |-> s.sent + 1])
    /\ UNCHANGED <<started, posts>>

close ==
    /\ posts < MaxPosts
    /\ started # "no"
    /\ posts' = posts + 1
    /\ s' = Post(s, [h |-> "do_close"])
    /\ UNCHANGED started

check_alive ==
    /\ posts < MaxPosts
    /\ started # "no"
    /\ posts' = posts + 1
    /\ s' = Post(s, [h |-> "do_check_alive"])
    /\ UNCHANGED started

(* m_alive_interval seconds pass without a message. *)
fall_silent ==
    /\ ~s.silent
    /\ s' = [s EXCEPT !.silent = TRUE]
    /\ UNCHANGED <<started, posts>>

(* The operating system completes an operation on the socket. *)
read_done(err) ==
    /\ s.reading # "none"
    /\ s.frames < MaxFrames \/ err
    /\ s' = Post([s EXCEPT !.reading = "none"], Completion(s.reading, err))
    /\ UNCHANGED <<started, posts>>

write_done(err) ==
    /\ s.writing
    /\ s' = Post([s EXCEPT !.writing = FALSE], Completion("write", err))
    /\ UNCHANGED <<started, posts>>

(* IoLoop::run takes the next handler and runs it. *)
RunHandler(x, e, valid, reaction) ==
    CASE e.h = "do_read_head_len" -> do_read_head_len(x)
      [] e.h = "do_session_open"  -> do_session_open(x)
      [] e.h = "do_write"         -> do_write(x, e.msg)
      [] e.h = "do_close"         -> do_close(x)
      [] e.h = "do_check_alive"   -> do_check_alive(x)
      [] e.h = "head_len"         -> on_read_head_len_complete(x, e.err, valid)
      [] e.h = "head"             -> on_read_head_complete(x, e.err, valid)
      [] e.h = "body"             -> on_read_complete(x, e.err, valid, reaction)
      [] e.h = "write"            -> on_write_complete(x, e.err)

run ==
    /\ s.ready # <<>>
    /\ \E valid \in BOOLEAN, reaction \in {"none", "reply", "close"} :
          /\ reaction = "reply" => s.sent < MaxWrites
          /\ s' = RunHandler([s EXCEPT !.ready = Tail(@)], Head(s.ready),
                             valid, reaction)
    /\ UNCHANGED <<started, posts>>

Next ==
    \/ start \/ start_rest \/ reject
    \/ send \/ close \/ check_alive \/ fall_silent
    \/ \E err \in BOOLEAN : read_done(err) \/ write_done(err)
    \/ run

Spec == Init /\ [][Next]_vars

FairSpec == Spec /\ WF_vars(run) /\ WF_vars(start_rest)

-----------------------------------------------------------------------------
Queued(hs) == Cardinality({i \in DOMAIN s.ready : s.ready[i].h \in hs})
Count(what) == Cardinality({i \in DOMAIN s.dealt : s.dealt[i] = what})

(* A write is in progress, or its completion waits in the loop. *)
WritesUnderWay == Queued({"write"}) + (IF s.writing THEN 1 ELSE 0)
ReadsUnderWay  == Queued(ReadStages) + (IF s.reading = "none" THEN 0 ELSE 1)

(***************************************************************************)
(* m_send_msg_buf belongs to one write at a time, on_write_complete finds  *)
(* the message it wrote at the front of the queue, and while the socket is *)
(* open a queue that is not empty is being written: no message is left     *)
(* behind without a write that will reach it.                              *)
(***************************************************************************)
OneWriteAtATime ==
    /\ WritesUnderWay <= 1
    /\ WritesUnderWay = 1 => ~IsEmpty(s.queue)
    /\ s.open /\ ~IsEmpty(s.queue) => WritesUnderWay = 1

(* The peer receives the messages in the order of do_write, none twice,    *)
(* none skipped; growing the queue loses nothing.                          *)
WrittenInOrder == s.accepted = s.wire \o s.queue.buf

(* The queue stops growing: beyond MAX_SIZE it at most doubles once more.  *)
QueueBounded ==
    Len(s.queue.buf) <= s.queue.cap
    /\ (s.queue.cap = INIT_SIZE \/ s.queue.cap <= 2 * MAX_SIZE)

(* One read at a time (m_recv_msg_buf), and an open session that was       *)
(* started keeps reading, so that it notices the peer leaving.             *)
OneReadAtATime ==
    /\ ReadsUnderWay + Queued({"do_read_head_len"}) <= 1
    /\ s.open /\ started \in {"half", "yes"} => ReadsUnderWay + Queued({"do_read_head_len"}) = 1

(* The session manager and the dealer hear of the end of a session once,   *)
(* however many errors, closes and checks ask for it, and after the end at *)
(* most one message is dealt, the one whose read had completed by then.  A *)
(* session started by its own loop's thread (a client's session, or one    *)
(* that shares the loop of the session manager) is announced before        *)
(* anything else is dealt on it.                                           *)
OpenedAndEndedOnce ==
    /\ s.told = Count("close")
    /\ s.told = IF s.open THEN 0 ELSE 1
    /\ \A i, j, k \in DOMAIN s.dealt :
          i < j /\ j < k /\ s.dealt[i] = "close" =>
              ~(s.dealt[j] = "message" /\ s.dealt[k] = "message")
    /\ s.shared /\ started = "yes" => s.dealt # <<>> /\ s.dealt[1] = "open"

(* A write had been completed when the session ended. *)
LateWrite ==
    ~s.open /\ \E i \in DOMAIN s.ready : s.ready[i].h = "write" /\ ~s.ready[i].err

Channel == INSTANCE SendContract
             WITH accepted <- s.accepted, delivered <- s.wire,
                  ended <- ~s.open, owed <- LateWrite

(* The session implements what SendContract promises of its messages: the  *)
(* queue may grow, refuse and be overtaken by the end of the session, and  *)
(* yet every step accepts one, delivers the next one, ends the session or  *)
(* shows nothing.                                                          *)
ImplementsSending == Channel!CSafety

(* close() ends in the end of the session being reported. *)
CloseReported ==
    (\E i \in DOMAIN s.ready : s.ready[i].h = "do_close") ~> Count("close") = 1
=============================================================================
