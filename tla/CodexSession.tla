----------------------------- MODULE CodexSession -----------------------------
(***************************************************************************)
(* An execution session of the Codex websocket executor, and the client     *)
(* connection it serves (internal/runtime/executor/                         *)
(* codex_websockets_executor.go, sdk/api/handlers/openai/                   *)
(* openai_responses_websocket.go).  A client keeps one websocket open and   *)
(* sends turns, one at a time.  Each turn is one or more attempts of        *)
(* ExecuteStream, which hold the session's reqMu, reuse or dial its         *)
(* upstream connection, and wait on a channel that the connection's reader  *)
(* goroutine fills.  Failing connections, the handler's end and the removal *)
(* of a credential all take the connection away.                            *)
(*                                                                         *)
(* The channel of an attempt is named by the attempt.  Credentials are      *)
(* those with websockets enabled: the others do not touch the session.      *)
(* Message contents, pings and the non-streaming Execute, which no client   *)
(* websocket reaches, are left out.                                         *)
(***************************************************************************)
EXTENDS Integers, Sequences, FiniteSets

CONSTANTS
  Auths,       \* credentials with websockets enabled
  Sessions,    \* session objects in the order they are created
  MaxAttempts, \* bound on the calls of ExecuteStream
  MaxConns,    \* bound on the upstream connections dialled
  Cap,         \* capacity of an attempt's channel (4096 in the code)
  Rejections,  \* handshake answers beside success: "upgrade" (426), "status" (any other)
  None         \* no session, connection, attempt or credential

Attempts == 1..MaxAttempts
Conns == 1..MaxConns

ASSUME SessionAssumption ==
  /\ MaxAttempts \in Nat /\ MaxConns \in Nat /\ Cap \in Nat
  /\ Sessions \subseteq Nat /\ \E n \in Sessions : Sessions = 1..n
  /\ None \notin Nat \cup Auths \cup {"ok", "failed"}

VARIABLES
  store,    \* the session the store holds for this client, or None
  sess,     \* sessions: reqMu's holder, conn, authID, activeCh, upstreamDisconnectOnce
  att,      \* attempts: where each stands, its session, credential, connection, result
  chan,     \* per attempt: what its channel holds, whether it is closed, its activeDone
  conns,    \* connections: up, down (reads fail) or shut, what the upstream still sends
  reader,   \* readUpstreamLoop of each connection
  client,   \* the handler: where it stands, its attempt, pinnedAuthID, whether a payload went out
  open,     \* whether the client's websocket is open
  removal,  \* CloseCodexWebsocketSessionsForAuthID
  mixed,    \* history: sessions of which a client got an answer to another attempt
  deserted, \* history: sessions of which a turn was given up amid its answer
  panicked  \* a send on, or a second close of, a closed channel

vars == <<store, sess, att, chan, conns, reader, client, open, removal, mixed, deserted, panicked>>
downstream == <<client, open, mixed, deserted>>
upstream == <<conns, reader>>

NoSess == [lock |-> None, conn |-> None, auth |-> None, active |-> None, told |-> FALSE]
NoAtt == [at |-> "none", sess |-> None, auth |-> None, conn |-> None, res |-> None]
NoConn == [state |-> "none", auth |-> None, sess |-> None, owes |-> <<>>]
NoRead == [at |-> "none", ch |-> None]

Init ==
  /\ store = 1  \* UpstreamDisconnectChan creates the session when the client connects
  /\ sess = [s \in Sessions |-> NoSess]
  /\ att = [a \in Attempts |-> NoAtt]
  /\ chan = [a \in Attempts |-> [msgs |-> <<>>, closed |-> FALSE, done |-> FALSE]]
  /\ conns = [c \in Conns |-> NoConn]
  /\ reader = [c \in Conns |-> NoRead]
  /\ client = [at |-> "listen", cur |-> None, pin |-> None, turnPin |-> None, sent |-> FALSE]
  /\ open = TRUE
  /\ removal = [at |-> "idle", sess |-> None]
  /\ mixed = {} /\ deserted = {} /\ panicked = FALSE

Live == ~panicked
NewAttempt == {a \in Attempts : att[a].at = "none" /\ \A b \in Attempts : b < a => att[b].at # "none"}
FreeConns == {c \in Conns : conns[c].state = "none" /\ \A d \in Conns : d < c => conns[d].state # "none"}

\* The context of the attempt's call has ended: the turn has, or the handler.
Cancelled(a) == client.at # "turn" \/ client.cur # a

------------------------------------------------------------------------------
(* The parts of a session.                                                  *)

\* invalidateUpstreamConn, of the connection that is still the session's: the
\* first one tells the handler's watcher.
Forget(ss, s, c) ==
  IF ss[s].conn = c THEN [ss EXCEPT ![s].conn = None, ![s].told = TRUE] ELSE ss

\* Mutant of Shut: the connection is forgotten without being closed.
ShutNot(cs, s, c) == cs

Shut(cs, s, c) ==
  IF sess[s].conn = c THEN [cs EXCEPT ![c].state = "shut"] ELSE cs

\* clearActive(ch): only when ch is still the active channel.
Cleared(ss, s, ch) == IF ss[s].active = ch THEN [ss EXCEPT ![s].active = None] ELSE ss
Done(chs, s, ch) == IF sess[s].active = ch THEN [chs EXCEPT ![ch].done = TRUE] ELSE chs

------------------------------------------------------------------------------
(* The handler: turns of the client, attempts of a turn.                    *)

\* The Manager picks a credential (the pinned one, if the turn began with one)
\* and calls ExecuteStream, which finds or creates the session.
Attempt(x, pinned) ==
  \E a \in NewAttempt :
    LET s == IF store # None THEN store
             ELSE CHOOSE n \in Sessions : \A m \in Sessions : m <= n
    IN /\ store' = s
       /\ att' = [att EXCEPT ![a] = [NoAtt EXCEPT !.at = "lock", !.sess = s, !.auth = x]]
       /\ client' = [client EXCEPT !.at = "turn", !.cur = a, !.turnPin = pinned, !.sent = FALSE,
                                   !.pin = IF pinned = None THEN x ELSE @]

BeginTurn(x) ==
  /\ client.at = "listen" /\ open
  /\ client.pin # None => x = client.pin
  /\ Attempt(x, client.pin)
  /\ UNCHANGED <<sess, chan, upstream, open, removal, mixed, deserted, panicked>>

\* The handler reads on, unless its write failed.
TurnOver == [client EXCEPT !.at = IF open THEN "listen" ELSE "leave", !.cur = None,
                           !.turnPin = None, !.sent = FALSE]

Failing == client.at = "turn" /\ att[client.cur].res = "failed"

\* The Manager's next credential, or a retry of the stream's start: only while
\* the client has got nothing.
Retry(x) ==
  /\ Failing /\ ~client.sent
  /\ client.turnPin # None => x = client.turnPin
  /\ Attempt(x, client.turnPin)
  /\ UNCHANGED <<sess, chan, upstream, open, removal, mixed, deserted, panicked>>

\* The error goes to the client; a 401, 402, 403 or 429 releases the pinned
\* credential.
TurnFails(release) ==
  /\ Failing
  /\ client' = [TurnOver EXCEPT !.pin = IF release THEN None ELSE @]
  /\ UNCHANGED <<store, sess, att, chan, upstream, open, removal, mixed, deserted, panicked>>

\* The stream is closed after response.completed.
TurnEnds ==
  /\ client.at = "turn" /\ att[client.cur].res = "ok" /\ att[client.cur].at = "gone"
  /\ client' = TurnOver
  /\ UNCHANGED <<store, sess, att, chan, upstream, open, removal, mixed, deserted, panicked>>

HandlerReadFails ==
  /\ client.at = "listen" /\ ~open
  /\ client' = [client EXCEPT !.at = "leave"]
  /\ UNCHANGED <<store, sess, att, chan, upstream, open, removal, mixed, deserted, panicked>>

\* CloseExecutionSession: out of the store first ...
Leave ==
  /\ client.at = "leave"
  /\ client' = [client EXCEPT !.at = "close", !.cur = store, !.pin = None]
  /\ store' = None /\ open' = FALSE
  /\ UNCHANGED <<sess, att, chan, upstream, removal, mixed, deserted, panicked>>

\* closeCodexWebsocketSession: nobody is told.
CloseConn(s) ==
  /\ sess' = [sess EXCEPT ![s].conn = None]
  /\ conns' = IF sess[s].conn = None THEN conns ELSE [conns EXCEPT ![sess[s].conn].state = "shut"]

\* ... then its connection.
Close ==
  /\ client.at = "close"
  /\ client' = [client EXCEPT !.at = "gone", !.cur = None]
  /\ IF client.cur = None THEN UNCHANGED <<sess, conns>> ELSE CloseConn(client.cur)
  /\ UNCHANGED <<store, att, chan, reader, open, removal, mixed, deserted, panicked>>

\* The watcher listens to the session of the connect, whatever came after it.
Disconnected ==
  /\ open /\ sess[1].told
  /\ open' = FALSE
  /\ UNCHANGED <<store, sess, att, chan, upstream, client, removal, mixed, deserted, panicked>>

ClientLeaves ==
  /\ open /\ open' = FALSE
  /\ UNCHANGED <<store, sess, att, chan, upstream, client, removal, mixed, deserted, panicked>>

------------------------------------------------------------------------------
(* ExecuteStream.                                                           *)

At(a, where) == att[a].at = where
Goes(a, where) == att' = [att EXCEPT ![a].at = where]
Fails(a, where) == att' = [att EXCEPT ![a].at = where, ![a].res = "failed"]
Returns(a, res) == att' = [att EXCEPT ![a] = [NoAtt EXCEPT !.at = "gone", !.res = res]]

Lock(a) ==
  /\ At(a, "lock") /\ sess[att[a].sess].lock = None
  /\ sess' = [sess EXCEPT ![att[a].sess].lock = a]
  /\ Goes(a, "connect")
  /\ UNCHANGED <<store, chan, upstream, downstream, removal, panicked>>

\* ensureUpstreamConn reuses the session's connection, whoever dialled it, ...
Reuse(a, next) ==
  /\ sess[att[a].sess].conn # None
  /\ att' = [att EXCEPT ![a].at = next, ![a].conn = sess[att[a].sess].conn]
  /\ UNCHANGED <<store, sess, chan, upstream, downstream, removal, panicked>>

\* Mutant of Dial: a connection the session has is replaced.
DialAnew(a, next) ==
  /\ \E c \in FreeConns :
       /\ att' = [att EXCEPT ![a].at = next, ![a].conn = c]
       /\ conns' = [conns EXCEPT ![c] = [state |-> "up", auth |-> att[a].auth,
                                         sess |-> att[a].sess, owes |-> <<>>]]
       /\ sess' = [sess EXCEPT ![att[a].sess].conn = c, ![att[a].sess].auth = att[a].auth]
       /\ reader' = [reader EXCEPT ![c].at = "read"]
  /\ UNCHANGED <<store, chan, downstream, removal, panicked>>

\* ... or dials, outside connMu, and starts its reader.
Dial(a, next) ==
  /\ sess[att[a].sess].conn = None
  /\ \E c \in FreeConns :
       /\ att' = [att EXCEPT ![a].at = next, ![a].conn = c]
       /\ conns' = [conns EXCEPT ![c] = [state |-> "up", auth |-> att[a].auth,
                                         sess |-> att[a].sess, owes |-> <<>>]]
       /\ sess' = [sess EXCEPT ![att[a].sess].conn = c, ![att[a].sess].auth = att[a].auth]
       /\ reader' = [reader EXCEPT ![c].at = "read"]
  /\ UNCHANGED <<store, chan, downstream, removal, panicked>>

Connect(a) == At(a, "connect") /\ (Reuse(a, "activate") \/ Dial(a, "activate"))

DialFails(a) ==
  /\ At(a, "connect") /\ sess[att[a].sess].conn = None
  /\ sess' = [sess EXCEPT ![att[a].sess].lock = None]
  /\ Returns(a, "failed")
  /\ UNCHANGED <<store, chan, upstream, downstream, removal, panicked>>

\* A 426 falls back to HTTP, any other answer is the attempt's error: both
\* return with reqMu held.
Rejected(a, why) ==
  /\ At(a, "connect") /\ sess[att[a].sess].conn = None
  /\ IF why = "upgrade" THEN Goes(a, "http") ELSE Returns(a, "failed")
  /\ UNCHANGED <<store, sess, chan, upstream, downstream, removal, panicked>>

Http(a) ==
  /\ At(a, "http")
  /\ Returns(a, "ok") \/ Returns(a, "failed")
  /\ UNCHANGED <<store, sess, chan, upstream, downstream, removal, panicked>>

\* setActive ends whoever still waits to fill the previous channel.
Activate(a) ==
  LET old == sess[att[a].sess].active
  IN /\ At(a, "activate") /\ Goes(a, "send")
     /\ chan' = IF old = None THEN chan ELSE [chan EXCEPT ![old].done = TRUE]
     /\ sess' = [sess EXCEPT ![att[a].sess].active = a]
     /\ UNCHANGED <<store, upstream, downstream, removal, panicked>>

\* What the upstream does with a request; silence ends like a failure (Break).
Answers(a) == {<<[of |-> a, kind |-> "delta"], [of |-> a, kind |-> "completed"]>>,
               <<[of |-> a, kind |-> "error"]>>}

\* A write into a failed connection may still succeed.
Sent(a) ==
  /\ conns[att[a].conn].state \in {"up", "down"}
  /\ IF conns[att[a].conn].state = "up"
     THEN \E ans \in Answers(a) : conns' = [conns EXCEPT ![att[a].conn].owes = @ \o ans]
     ELSE UNCHANGED conns
  /\ Goes(a, "stream")
  /\ UNCHANGED <<store, sess, chan, reader, downstream, removal, panicked>>

Send(a) == (At(a, "send") \/ At(a, "resend")) /\ Sent(a)

\* The connection is given up, and another one tried.
SendFails(a) ==
  LET s == att[a].sess  c == att[a].conn
  IN /\ At(a, "send") /\ conns[c].state # "up"
     /\ sess' = Forget(sess, s, c) /\ conns' = Shut(conns, s, c)
     /\ Goes(a, "redial")
     /\ UNCHANGED <<store, chan, reader, downstream, removal, panicked>>

Redial(a) == At(a, "redial") /\ (Reuse(a, "resend") \/ Dial(a, "resend"))

\* sess.clearActive(readCh), sess.reqMu.Unlock()
Released(ss, a) == [Cleared(ss, att[a].sess, a) EXCEPT ![att[a].sess].lock = None]

RedialFails(a) ==
  /\ At(a, "redial") /\ sess[att[a].sess].conn = None
  /\ sess' = Released(sess, a) /\ chan' = Done(chan, att[a].sess, a)
  /\ Returns(a, "failed")
  /\ UNCHANGED <<store, upstream, downstream, removal, panicked>>

ResendFails(a) ==
  LET s == att[a].sess  c == att[a].conn
  IN /\ At(a, "resend") /\ conns[c].state # "up"
     /\ sess' = Released(Forget(sess, s, c), a) /\ conns' = Shut(conns, s, c)
     /\ chan' = Done(chan, s, a)
     /\ Returns(a, "failed")
     /\ UNCHANGED <<store, reader, downstream, removal, panicked>>

\* Mutant of Ending: the first event ends the stream.
EndingEarly == {"delta", "completed"}

\* Events after which the goroutine of the stream returns.
Ending == {"completed"}

\* An answer goes to the client.  A client that is gone ends the handler.
Passed(a, ev) ==
  /\ client' = [client EXCEPT !.sent = TRUE, !.at = IF open THEN @ ELSE "leave"]
  /\ mixed' = IF ev.of = a THEN mixed ELSE mixed \cup {att[a].sess}
  /\ UNCHANGED deserted

\* A payload that is not JSON: the client is sent an error instead, and the
\* call is cancelled, whatever is still to come.
Refused(a, ev) ==
  /\ client' = TurnOver
  /\ deserted' = IF ev.kind \in Ending THEN deserted ELSE deserted \cup {att[a].sess}
  /\ UNCHANGED mixed

\* An event of an earlier connection is passed over.  One that came before the
\* end of the context was noticed goes nowhere, and is the last.
Receive(a) ==
  /\ At(a, "stream") /\ chan[a].msgs # <<>>
  /\ LET ev == Head(chan[a].msgs)  s == att[a].sess  c == att[a].conn
     IN /\ chan' = [chan EXCEPT ![a].msgs = Tail(@)]
        /\ \/ /\ ev.conn # c
              /\ UNCHANGED <<sess, att, conns, downstream>>
           \/ /\ ev.conn = c /\ ev.kind = "fail"
              /\ Fails(a, "finish")
              /\ UNCHANGED <<sess, conns, downstream>>
           \/ /\ ev.conn = c /\ ev.kind = "error"
              /\ sess' = Forget(sess, s, c) /\ conns' = Shut(conns, s, c)
              /\ Fails(a, "finish")
              /\ UNCHANGED downstream
           \/ /\ ev.conn = c /\ ev.kind \in {"delta", "completed"}
              /\ \/ ev.kind \in Ending /\ att' = [att EXCEPT ![a].at = "finish", ![a].res = "ok"]
                 \/ ev.kind \notin Ending /\ Cancelled(a) /\ Fails(a, "finish")
                 \/ ev.kind \notin Ending /\ ~Cancelled(a) /\ UNCHANGED att
              /\ IF Cancelled(a) THEN UNCHANGED downstream
                 ELSE (Passed(a, ev) \/ Refused(a, ev)) /\ UNCHANGED open
              /\ UNCHANGED <<sess, conns>>
  /\ UNCHANGED <<store, reader, removal, panicked>>

\* "session read channel closed", or the context ended.
ReceiveFails(a) ==
  /\ At(a, "stream")
  /\ Cancelled(a) \/ (chan[a].closed /\ chan[a].msgs = <<>>)
  /\ Fails(a, "finish")
  /\ UNCHANGED <<store, sess, chan, upstream, downstream, removal, panicked>>

\* The deferred clearActive and Unlock, after the last chunk was handed on.
Finish(a) ==
  /\ At(a, "finish")
  /\ sess' = Released(sess, a) /\ chan' = Done(chan, att[a].sess, a)
  /\ Returns(a, att[a].res)
  /\ UNCHANGED <<store, upstream, downstream, removal, panicked>>

------------------------------------------------------------------------------
(* readUpstreamLoop.                                                        *)

\* The peer goes away, or nothing comes for five minutes.
Break(c) ==
  /\ conns[c].state = "up"
  /\ conns' = [conns EXCEPT ![c].state = "down"]
  /\ UNCHANGED <<store, sess, att, chan, reader, downstream, removal, panicked>>

\* A message, for the channel that is active now; without one it is dropped.
Read(c) ==
  /\ reader[c].at = "read" /\ conns[c].state = "up" /\ conns[c].owes # <<>>
  /\ LET ch == sess[conns[c].sess].active
     IN IF ch = None
        THEN /\ conns' = [conns EXCEPT ![c].owes = Tail(@)]
             /\ UNCHANGED reader
        ELSE /\ reader' = [reader EXCEPT ![c] = [at |-> "deliver", ch |-> ch]]
             /\ UNCHANGED conns
  /\ UNCHANGED <<store, sess, att, chan, downstream, removal, panicked>>

Offer(c, kind, of) ==
  [chan EXCEPT ![reader[c].ch].msgs = Append(@, [conn |-> c, kind |-> kind, of |-> of])]

\* Mutant of Room: the channel has no limit.
RoomAlways(ch) == ~chan[ch].closed

Room(ch) == ~chan[ch].closed /\ Len(chan[ch].msgs) < Cap

\* It waits for room, until the channel is no longer the active one.  A send on
\* a closed channel panics, should select choose it.
Deliver(c) ==
  LET ch == reader[c].ch  m == Head(conns[c].owes)
  IN /\ reader[c].at = "deliver"
     /\ \/ Room(ch) /\ chan' = Offer(c, m.kind, m.of) /\ UNCHANGED panicked
        \/ chan[ch].done /\ UNCHANGED <<chan, panicked>>
        \/ chan[ch].closed /\ panicked' = TRUE /\ UNCHANGED chan
     /\ reader' = [reader EXCEPT ![c] = [NoRead EXCEPT !.at = "read"]]
     /\ conns' = [conns EXCEPT ![c].owes = Tail(@)]
     /\ UNCHANGED <<store, sess, att, downstream, removal>>

\* ReadMessage fails.
ReadFails(c) ==
  LET ch == sess[conns[c].sess].active
  IN /\ reader[c].at = "read" /\ conns[c].state # "up"
     /\ reader' = [reader EXCEPT ![c] = [at |-> IF ch = None THEN "invalidate" ELSE "tell", ch |-> ch]]
     /\ conns' = [conns EXCEPT ![c].owes = <<>>]
     /\ UNCHANGED <<store, sess, att, chan, downstream, removal, panicked>>

\* The error is offered without waiting.
Tell(c) ==
  LET ch == reader[c].ch
  IN /\ reader[c].at = "tell"
     /\ \/ Room(ch) /\ chan' = Offer(c, "fail", None) /\ UNCHANGED panicked
        \/ (chan[ch].done \/ (~Room(ch) /\ ~chan[ch].closed)) /\ UNCHANGED <<chan, panicked>>
        \/ chan[ch].closed /\ panicked' = TRUE /\ UNCHANGED chan
     /\ reader' = [reader EXCEPT ![c].at = "close"]
     /\ UNCHANGED <<store, sess, att, conns, downstream, removal>>

\* clearActive and close of the channel it took, whoever reads there now.
CloseChannel(c) ==
  LET ch == reader[c].ch  s == conns[c].sess
  IN /\ reader[c].at = "close"
     /\ sess' = Cleared(sess, s, ch)
     /\ chan' = [Done(chan, s, ch) EXCEPT ![ch].closed = TRUE]
     /\ panicked' = chan[ch].closed
     /\ reader' = [reader EXCEPT ![c].at = "invalidate"]
     /\ UNCHANGED <<store, att, conns, downstream, removal>>

\* Mutant of Invalidate: the session keeps the dead connection.
InvalidateNot(c) ==
  /\ reader[c].at = "invalidate"
  /\ conns' = [conns EXCEPT ![c].state = "shut"]
  /\ reader' = [reader EXCEPT ![c] = [NoRead EXCEPT !.at = "gone"]]
  /\ UNCHANGED <<store, sess, att, chan, downstream, removal, panicked>>

Invalidate(c) ==
  /\ reader[c].at = "invalidate"
  /\ sess' = Forget(sess, conns[c].sess, c)
  /\ LET cs == Shut(conns, conns[c].sess, c)
     IN conns' = [cs EXCEPT ![c] = [NoConn EXCEPT !.state = cs[c].state]]
  /\ reader' = [reader EXCEPT ![c] = [NoRead EXCEPT !.at = "gone"]]
  /\ UNCHANGED <<store, att, chan, downstream, removal, panicked>>

------------------------------------------------------------------------------
(* CloseCodexWebsocketSessionsForAuthID, called when a credential is removed. *)

RemoveMatch(x) ==
  /\ removal.at = "idle" /\ store # None /\ sess[store].auth = x
  /\ removal' = [at |-> "delete", sess |-> store]
  /\ UNCHANGED <<store, sess, att, chan, upstream, downstream, panicked>>

RemoveDelete ==
  /\ removal.at = "delete"
  /\ IF store = removal.sess
     THEN store' = None /\ removal' = [removal EXCEPT !.at = "close"]
     ELSE removal' = [removal EXCEPT !.at = "done"] /\ UNCHANGED store
  /\ UNCHANGED <<sess, att, chan, upstream, downstream, panicked>>

RemoveClose ==
  /\ removal.at = "close"
  /\ removal' = [removal EXCEPT !.at = "done"]
  /\ CloseConn(removal.sess)
  /\ UNCHANGED <<store, att, chan, reader, downstream, panicked>>

------------------------------------------------------------------------------

Handler ==
  \/ \E x \in Auths : Retry(x)
  \/ \E release \in BOOLEAN : TurnFails(release)
  \/ TurnEnds \/ HandlerReadFails \/ Leave \/ Close

Execute(a) ==
  \/ Lock(a) \/ Connect(a) \/ DialFails(a) \/ (\E why \in Rejections : Rejected(a, why)) \/ Http(a)
  \/ Activate(a) \/ Send(a) \/ SendFails(a) \/ Redial(a) \/ RedialFails(a) \/ ResendFails(a)
  \/ Receive(a) \/ ReceiveFails(a) \/ Finish(a)

ReadLoop(c) ==
  Break(c) \/ Read(c) \/ Deliver(c) \/ ReadFails(c) \/ Tell(c) \/ CloseChannel(c) \/ Invalidate(c)

Remove == (\E x \in Auths : RemoveMatch(x)) \/ RemoveDelete \/ RemoveClose

Next ==
  /\ Live
  /\ \/ (\E x \in Auths : BeginTurn(x)) \/ Handler \/ Disconnected \/ ClientLeaves
     \/ \E a \in Attempts : Execute(a)
     \/ \E c \in Conns : ReadLoop(c)
     \/ Remove

\* Goroutines run, a dial and an HTTP exchange come to an end, and a reader
\* gets a message or fails, at the latest after its read deadline.
Fairness ==
  /\ WF_vars(Live /\ Handler) /\ WF_vars(Live /\ Disconnected)
  /\ \A a \in Attempts : WF_vars(Live /\ Execute(a))
  /\ \A c \in Conns : WF_vars(Live /\ ReadLoop(c))
  /\ WF_vars(Live /\ (RemoveDelete \/ RemoveClose))

Spec == Init /\ [][Next]_vars /\ Fairness

------------------------------------------------------------------------------
(* Properties.                                                              *)

Places == {"none", "lock", "connect", "http", "activate", "send", "redial", "resend", "stream",
           "finish", "gone"}

TypeOK ==
  /\ store \in Sessions \cup {None}
  /\ sess \in [Sessions -> [lock: Attempts \cup {None}, conn: Conns \cup {None},
                            auth: Auths \cup {None}, active: Attempts \cup {None}, told: BOOLEAN]]
  /\ att \in [Attempts -> [at: Places, sess: Sessions \cup {None}, auth: Auths \cup {None},
                           conn: Conns \cup {None}, res: {None, "ok", "failed"}]]
  /\ \A a \in Attempts : Len(chan[a].msgs) <= Cap
  /\ \A c \in Conns : conns[c].state \in {"none", "up", "down", "shut"}
  /\ client.at \in {"listen", "turn", "leave", "close", "gone"}
  /\ mixed \cup deserted \subseteq Sessions
  /\ {open, panicked} \subseteq BOOLEAN

\* The session has lost a connection: then the handler's watcher, told of it,
\* closes the client's, or the credential was removed.
Lost(s) == sess[s].told \/ (removal.sess = s /\ removal.at = "done")

\* A turn never gets what the upstream sends for another one, although turns
\* and retries share the connection, as long as the session has not lost one
\* and no turn of it was given up amid its answer: the connection keeps the
\* rest, for whoever comes next.
OwnAnswers == \A s \in mixed : Lost(s) \/ s \in deserted

\* Until then channels are closed once, and nothing is sent to them afterwards.
NoEarlyPanic == panicked => \E s \in Sessions : Lost(s)

\* An attempt has returned without unlocking reqMu.
Leaked == \E s \in Sessions : sess[s].lock # None /\ att[sess[s].lock].at \in {"http", "gone"}

Waiting == client.at = "turn" /\ open

\* The sessions of removed credentials are left aside: nobody watches them.
Unwatched == removal.at # "idle"

\* However connections fail, a client that waits gets an answer or an error, or
\* its connection is closed, unless reqMu was left locked.
ClientReleased == (Waiting /\ ~Unwatched /\ ~Leaked) ~> (~Waiting \/ Unwatched \/ Leaked \/ panicked)

\* The executor keeps the HTTP implementation "for websocket upgrade failures"
\* (codex_websockets_executor.go:45): so a rejected handshake does not cost the
\* session its later turns either.
UpgradeFailuresSurvived == (Waiting /\ ~Unwatched) ~> (~Waiting \/ Unwatched \/ panicked)

\* When the handler has gone, no upstream connection stays open: not even one
\* dialled for a session that had left the store by then.
NothingStaysOpen ==
  (client.at = "gone") ~> (panicked \/ Leaked \/ \A c \in Conns : conns[c].state \in {"none", "shut"})
=============================================================================
