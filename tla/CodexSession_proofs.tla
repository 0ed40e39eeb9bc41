------------------------- MODULE CodexSession_proofs -------------------------
(***************************************************************************)
(* The safety invariants of CodexSession hold of every specification, for  *)
(* any number of credentials, sessions, attempts and connections and any   *)
(* capacity of the channels.                                               *)
(*                                                                         *)
(* IInv says where an attempt, a connection, its reader and a channel       *)
(* stand to each other.  reqMu gives a session one attempt at a time, and   *)
(* as long as the session has not lost a connection it has one connection,  *)
(* hence one reader: what that reader holds, owes and has handed on is the   *)
(* business of the running attempt, until a turn is given up amid its        *)
(* answer.                                                                  *)
(***************************************************************************)
EXTENDS CodexSession, SequenceTheorems, TLAPS

\* Where an attempt has no use for its channel yet, where readers may fill it,
\* where it holds reqMu, and where it has a connection.
Early == {"none", "lock", "connect", "http", "activate"}
Active == {"send", "redial", "resend", "stream"}
Holding == {"connect", "http", "activate", "finish"} \cup Active
Connected == {"activate"} \cup Active

AnswerKinds == {"delta", "completed", "error"}
Event == [conn: Conns, kind: AnswerKinds \cup {"fail"}, of: Attempts \cup {None}]
Answer == [of: Attempts, kind: AnswerKinds]
Fresh == [msgs |-> <<>>, closed |-> FALSE, done |-> FALSE]

SessionRec == [lock: Attempts \cup {None}, conn: Conns \cup {None}, auth: Auths \cup {None},
               active: Attempts \cup {None}, told: BOOLEAN]
AttemptRec == [at: Places, sess: Sessions \cup {None}, auth: Auths \cup {None},
               conn: Conns \cup {None}, res: {None, "ok", "failed"}]
ChanRec == [msgs: Seq(Event), closed: BOOLEAN, done: BOOLEAN]
ConnRec == [state: {"none", "up", "down", "shut"}, auth: Auths \cup {None},
            sess: Sessions \cup {None}, owes: Seq(Answer)]
ReaderRec == [at: {"none", "read", "deliver", "tell", "close", "invalidate", "gone"},
              ch: Attempts \cup {None}]
ClientRec == [at: {"listen", "turn", "leave", "close", "gone"}, cur: Attempts \cup Sessions \cup {None},
              pin: Auths \cup {None}, turnPin: Auths \cup {None}, sent: BOOLEAN]
RemovalRec == [at: {"idle", "delete", "close", "done"}, sess: Sessions \cup {None}]

Types ==
  /\ store \in Sessions \cup {None}
  /\ sess \in [Sessions -> SessionRec]
  /\ att \in [Attempts -> AttemptRec]
  /\ chan \in [Attempts -> ChanRec] /\ \A a \in Attempts : Len(chan[a].msgs) <= Cap
  /\ conns \in [Conns -> ConnRec]
  /\ reader \in [Conns -> ReaderRec]
  /\ client \in ClientRec
  /\ removal \in RemovalRec
  /\ mixed \subseteq Sessions /\ deserted \subseteq Sessions /\ open \in BOOLEAN /\ panicked \in BOOLEAN

------------------------------------------------------------------------------
(* The inductive invariant.                                                 *)

\* An attempt in progress has a session; past its dial it has a connection,
\* which is its session's until the reader has let go of it.
AttemptsLinked ==
  \A a \in Attempts :
    /\ att[a].at \notin {"none", "gone"} => att[a].sess \in Sessions
    /\ att[a].at \in Connected => /\ att[a].conn \in Conns /\ conns[att[a].conn].state # "none"
                                  /\ conns[att[a].conn].sess \in {att[a].sess, None}
    /\ att[a].res # None => att[a].at \in {"finish", "gone"}

\* reqMu is held by the attempts that have taken it.
Locked == \A a \in Attempts : att[a].at \in Holding => sess[att[a].sess].lock = a

\* The handler is on its way out.
Leaving == client.at \in {"leave", "close", "gone"}

\* Beside the attempt of the client's turn only cancelled streams still run.
Turns ==
  /\ client.at = "turn" => client.cur \in Attempts
  /\ client.at = "close" => client.cur \in Sessions \cup {None}
  /\ removal.at # "idle" => removal.sess \in Sessions
  /\ \A a \in Attempts : att[a].at \notin {"none", "finish", "gone"} =>
       \/ client.at = "turn" /\ client.cur = a
       \/ att[a].at = "stream" /\ (Leaving \/ att[a].sess \in deserted)

\* A session's connection was dialled for it.
ConnOwned == \A s \in Sessions : sess[s].conn # None => conns[sess[s].conn].sess = s

\* Where the reader of a connection stands.
ReadersLinked ==
  \A c \in Conns :
    /\ conns[c].sess # None <=> reader[c].at \notin {"none", "gone"}
    /\ conns[c].state = "none" <=> reader[c].at = "none"
    /\ reader[c].at \in {"deliver", "tell", "close"} => reader[c].ch # None
    /\ reader[c].at \in {"none", "read", "gone"} => reader[c].ch = None
    /\ reader[c].at = "deliver" => conns[c].owes # <<>>
    /\ reader[c].at \notin {"read", "deliver"} => conns[c].owes = <<>> /\ conns[c].state # "up"

\* An attempt that has not come to send: nobody knows its channel.
Unused ==
  \A a \in Attempts : att[a].at \in Early =>
    chan[a] = Fresh /\ (\A s \in Sessions : sess[s].active # a) /\ (\A c \in Conns : reader[c].ch # a)

\* A channel is known to one session, and to readers of that session only.
OneSession ==
  /\ \A s, t \in Sessions : sess[s].active = sess[t].active /\ sess[s].active # None => s = t
  /\ \A s \in Sessions, c \in Conns : reader[c].ch = sess[s].active /\ reader[c].ch # None => conns[c].sess = s
  /\ \A c, d \in Conns : reader[c].ch = reader[d].ch /\ reader[c].ch # None => conns[c].sess = conns[d].sess
  /\ \A a \in Attempts, s \in Sessions : att[a].at \in Active /\ sess[s].active = a => att[a].sess = s
  /\ \A a \in Attempts, c \in Conns : att[a].at \in Active /\ reader[c].ch = a => att[a].sess = conns[c].sess

\* ... and what it holds came over connections of that session.
EventsLinked ==
  \A a \in Attempts : att[a].at \in Active =>
    \A i \in 1..Len(chan[a].msgs) :
      /\ conns[chan[a].msgs[i].conn].sess \in {att[a].sess, None}
      /\ conns[chan[a].msgs[i].conn].state # "none"

\* A session that has lost nothing keeps its connection, until the handler has
\* gone, ...
Kept(s) == ~Lost(s) /\ client.at # "gone"
ConnKept ==
  /\ \A c \in Conns : conns[c].sess # None /\ Kept(conns[c].sess) => sess[conns[c].sess].conn = c
  /\ \A a \in Attempts : att[a].at \in Connected /\ Kept(att[a].sess) => sess[att[a].sess].conn = att[a].conn
  /\ \A a \in Attempts : att[a].at = "redial" => Lost(att[a].sess)

\* ... has never had a second one,
OneConn ==
  \A c, d \in Conns : conns[c].sess # None /\ conns[c].sess = conns[d].sess /\ ~Lost(conns[c].sess) => c = d

\* ... whose reader holds no closed channel
OpenActive == \A s \in Sessions : sess[s].active # None /\ ~Lost(s) => ~chan[sess[s].active].closed
OpenRead ==
  \A c \in Conns : reader[c].at \in {"deliver", "tell", "close"} /\ ~Lost(conns[c].sess) => ~chan[reader[c].ch].closed

\* ... and gives the connection up once it has closed one,
ClosedLast ==
  \A a \in Attempts, c \in Conns :
    att[a].at \in Active /\ chan[a].closed /\ ~Lost(att[a].sess) /\ conns[c].sess = att[a].sess => reader[c].at = "invalidate"

\* ... and which owes, while a client waits and none of its turns was given up
\* before, the answer to the running attempt and no other.
Watched(s) == ~Lost(s) /\ ~Leaving /\ s \notin deserted
OwesCurrent ==
  \A c \in Conns : conns[c].sess # None /\ Watched(conns[c].sess) =>
    \A i \in 1..Len(conns[c].owes) :
      /\ att[conns[c].owes[i].of].at = "stream" /\ att[conns[c].owes[i].of].sess = conns[c].sess
      /\ conns[c].owes[i].kind = "delta" <=> i < Len(conns[c].owes)

\* What that attempt finds in its channel is its own answer, or the failure of
\* a connection; after the last event of an answer nothing more is owed.
EventsCurrent ==
  \A a \in Attempts : att[a].at \in Active /\ Watched(att[a].sess) =>
    \A i \in 1..Len(chan[a].msgs) :
      /\ chan[a].msgs[i].kind # "fail" => chan[a].msgs[i].of = a /\ att[a].at = "stream"
      /\ chan[a].msgs[i].kind # "delta" => conns[chan[a].msgs[i].conn].owes = <<>>
      /\ chan[a].msgs[i].kind = "fail" => conns[chan[a].msgs[i].conn].state # "up"

IInv ==
  /\ Types /\ AttemptsLinked /\ Locked /\ Turns /\ ConnOwned /\ ReadersLinked
  /\ Unused /\ OneSession /\ EventsLinked
  /\ ConnKept /\ OneConn /\ OpenActive /\ OpenRead /\ ClosedLast
  /\ OwesCurrent /\ EventsCurrent

------------------------------------------------------------------------------
(* What the actions write, field by field.                                  *)

AttSet(a, at, s, c, res) ==
  /\ att' \in [Attempts -> AttemptRec] /\ \A b \in Attempts : b # a => att'[b] = att[b]
  /\ att'[a].at = at /\ att'[a].sess = s /\ att'[a].conn = c /\ att'[a].res = res

SessSet(s, lock, conn, active, told) ==
  /\ sess' \in [Sessions -> SessionRec] /\ \A t \in Sessions : t # s => sess'[t] = sess[t]
  /\ sess'[s].lock = lock /\ sess'[s].conn = conn /\ sess'[s].active = active /\ sess'[s].told = told

ChanSet(a, msgs, closed) ==
  /\ chan' \in [Attempts -> ChanRec] /\ \A b \in Attempts : b # a => chan'[b] = chan[b]
  /\ chan'[a].msgs = msgs /\ chan'[a].closed = closed

ConnSet(c, state, s, owes) ==
  /\ conns' \in [Conns -> ConnRec] /\ \A d \in Conns : d # c => conns'[d] = conns[d]
  /\ conns'[c].state = state /\ conns'[c].sess = s /\ conns'[c].owes = owes

ReaderSet(c, at, ch) ==
  /\ reader' \in [Conns -> ReaderRec] /\ \A d \in Conns : d # c => reader'[d] = reader[d]
  /\ reader'[c].at = at /\ reader'[c].ch = ch

\* The fields' types.
SessFields ==
  \A s \in Sessions : /\ sess[s].lock \in Attempts \cup {None} /\ sess[s].conn \in Conns \cup {None}
                      /\ sess[s].active \in Attempts \cup {None} /\ sess[s].told \in BOOLEAN
AttFields ==
  \A a \in Attempts : /\ att[a].at \in Places /\ att[a].sess \in Sessions \cup {None}
                      /\ att[a].auth \in Auths \cup {None} /\ att[a].conn \in Conns \cup {None}
                      /\ att[a].res \in {None, "ok", "failed"}
ChanFields == \A a \in Attempts : chan[a].msgs \in Seq(Event) /\ chan[a].closed \in BOOLEAN
EventFields ==
  \A a \in Attempts : \A i \in 1..Len(chan[a].msgs) :
    /\ chan[a].msgs[i].conn \in Conns /\ chan[a].msgs[i].kind \in AnswerKinds \cup {"fail"} /\ chan[a].msgs[i].of \in Attempts \cup {None}
ConnFields ==
  \A c \in Conns : /\ conns[c].state \in {"none", "up", "down", "shut"} /\ conns[c].sess \in Sessions \cup {None}
                   /\ conns[c].owes \in Seq(Answer)
OwesFields ==
  \A c \in Conns : \A i \in 1..Len(conns[c].owes) : conns[c].owes[i].of \in Attempts /\ conns[c].owes[i].kind \in AnswerKinds
ReaderFields == \A c \in Conns : reader[c].ch \in Attempts \cup {None}
Fields == SessFields /\ AttFields /\ ChanFields /\ EventFields /\ ConnFields /\ OwesFields /\ ReaderFields

\* The fields of typed records are typed.
LEMMA FieldsTyped == ASSUME Types PROVE Fields
<1>1. SessFields BY DEF Types, SessFields, SessionRec
<1>2. AttFields BY DEF Types, AttFields, AttemptRec
<1>3. ChanFields BY DEF Types, ChanFields, ChanRec
<1>4. ConnFields BY DEF Types, ConnFields, ConnRec
<1>5. ReaderFields BY DEF Types, ReaderFields, ReaderRec
<1>6. EventFields
  <2> SUFFICES ASSUME NEW a \in Attempts, NEW i \in 1..Len(chan[a].msgs)
               PROVE  /\ chan[a].msgs[i].conn \in Conns /\ chan[a].msgs[i].kind \in AnswerKinds \cup {"fail"}
                      /\ chan[a].msgs[i].of \in Attempts \cup {None}
    BY DEF EventFields
  <2>1. chan[a].msgs[i] \in Event
    BY <1>3 DEF ChanFields
  <2> QED
    BY <2>1 DEF Event
<1>7. OwesFields
  <2> SUFFICES ASSUME NEW c \in Conns, NEW i \in 1..Len(conns[c].owes)
               PROVE  conns[c].owes[i].of \in Attempts /\ conns[c].owes[i].kind \in AnswerKinds
    BY DEF OwesFields
  <2>1. conns[c].owes[i] \in Answer
    BY <1>4 DEF ConnFields
  <2> QED
    BY <2>1 DEF Answer
<1> QED BY <1>1, <1>2, <1>3, <1>4, <1>5, <1>6, <1>7 DEF Fields

\* The null value is no attempt, connection, session or result.
LEMMA NoneApart == None \notin Attempts /\ None \notin Conns /\ None \notin Sessions /\ None \notin {"ok", "failed"}
BY SessionAssumption DEF Attempts, Conns

\* An attempt that goes on changes its place only.
LEMMA Goings ==
  ASSUME Types, NEW a \in Attempts, NEW at \in Places, Goes(a, at)
  PROVE  AttSet(a, at, att[a].sess, att[a].conn, att[a].res)
BY DEF Types, AttemptRec, Goes, AttSet

\* One that meets its result changes that as well.
LEMMA Results ==
  ASSUME Types, NEW a \in Attempts, NEW at \in Places, NEW res \in {None, "ok", "failed"},
         att' = [att EXCEPT ![a].at = at, ![a].res = res]
  PROVE  AttSet(a, at, att[a].sess, att[a].conn, res)
BY DEF Types, AttemptRec, AttSet

\* ensureUpstreamConn gives it a connection.
LEMMA Connectings ==
  ASSUME Types, NEW a \in Attempts, NEW at \in Places, NEW c \in Conns,
         att' = [att EXCEPT ![a].at = at, ![a].conn = c]
  PROVE  AttSet(a, at, att[a].sess, c, att[a].res)
BY DEF Types, AttemptRec, AttSet

\* The result of one that fails is failed.
LEMMA Failings ==
  ASSUME Types, NEW a \in Attempts, NEW at \in Places, Fails(a, at)
  PROVE  AttSet(a, at, att[a].sess, att[a].conn, "failed")
BY Results DEF Fails

\* What an attempt that has not begun holds.
LEMMA NoAttFields ==
  NoAtt \in AttemptRec /\ NoAtt.at = "none" /\ NoAtt.sess = None /\ NoAtt.conn = None /\ NoAtt.res = None
BY DEF NoAtt, AttemptRec, Places

\* An attempt that returns lets go of its session and connection.
LEMMA Returnings ==
  ASSUME Types, NEW a \in Attempts, NEW res \in {None, "ok", "failed"}, Returns(a, res)
  PROVE  AttSet(a, "gone", None, None, res)
<1> DEFINE r == [NoAtt EXCEPT !.at = "gone", !.res = res]
<1>1. r \in AttemptRec
  BY NoAttFields DEF AttemptRec, Places
<1>2. r.at = "gone" /\ r.sess = None /\ r.conn = None /\ r.res = res
  BY NoAttFields DEF AttemptRec, Places
<1>3. att' = [att EXCEPT ![a] = r]
  BY DEF Returns
<1> HIDE DEF r
<1> QED
  BY <1>1, <1>2, <1>3 DEF Types, AttSet

\* invalidateUpstreamConn
LEMMA Forgettings ==
  ASSUME Types, NEW s \in Sessions, NEW c \in Conns, sess' = Forget(sess, s, c)
  PROVE  SessSet(s, sess[s].lock, IF sess[s].conn = c THEN None ELSE sess[s].conn, sess[s].active,
                 sess[s].told \/ sess[s].conn = c)
<1>1. CASE sess[s].conn = c
  BY <1>1 DEF Types, SessionRec, Forget, SessSet
<1>2. CASE sess[s].conn # c
  BY <1>2 DEF Types, SessionRec, Forget, SessSet
<1> QED
  BY <1>1, <1>2

\* A dial gives the session its connection.
LEMMA Dialled ==
  ASSUME Types, NEW s \in Sessions, NEW c \in Conns, NEW x \in Auths \cup {None},
         sess' = [sess EXCEPT ![s].conn = c, ![s].auth = x]
  PROVE  SessSet(s, sess[s].lock, c, sess[s].active, sess[s].told)
<1>1. PICK r : r = [sess[s] EXCEPT !.conn = c, !.auth = x]
  OBVIOUS
<1>2. r \in SessionRec /\ r.lock = sess[s].lock /\ r.conn = c /\ r.active = sess[s].active /\ r.told = sess[s].told
  BY <1>1 DEF Types, SessionRec
<1>3. sess \in [Sessions -> SessionRec] /\ sess' = [sess EXCEPT ![s] = r]
  BY <1>1 DEF Types
<1> QED
  BY <1>2, <1>3 DEF SessSet

\* Shutting a connection changes that one only, and only if it is the session's.
LEMMA Shuttings ==
  ASSUME Types, NEW s \in Sessions, NEW c \in Conns, conns' = Shut(conns, s, c)
  PROVE  ConnSet(c, IF sess[s].conn = c THEN "shut" ELSE conns[c].state, conns[c].sess, conns[c].owes)
BY DEF Types, ConnRec, Shut, ConnSet

\* clearActive and Unlock, of sessions that may have been written before.
LEMMA ReleasedOf ==
  ASSUME NEW ss \in [Sessions -> SessionRec], NEW a \in Attempts, NEW s \in Sessions, s = att[a].sess,
         sess' = Released(ss, a)
  PROVE  /\ sess' \in [Sessions -> SessionRec] /\ \A t \in Sessions : t # s => sess'[t] = ss[t]
         /\ sess'[s].lock = None /\ sess'[s].conn = ss[s].conn /\ sess'[s].told = ss[s].told
         /\ sess'[s].active = IF ss[s].active = a THEN None ELSE ss[s].active
<1>1. CASE ss[s].active = a
  BY <1>1 DEF SessionRec, Released, Cleared
<1>2. CASE ss[s].active # a
  BY <1>2 DEF SessionRec, Released, Cleared
<1> QED
  BY <1>1, <1>2

\* The same of the sessions as they stand.
LEMMA Releasings ==
  ASSUME Types, NEW a \in Attempts, NEW s \in Sessions, s = att[a].sess, sess' = Released(sess, a)
  PROVE  SessSet(s, None, sess[s].conn, IF sess[s].active = a THEN None ELSE sess[s].active, sess[s].told)
<1>0. sess \in [Sessions -> SessionRec]
  BY DEF Types
<1>1. CASE sess[s].active = a
  BY <1>0, <1>1 DEF SessionRec, Released, Cleared, SessSet
<1>2. CASE sess[s].active # a
  BY <1>0, <1>2 DEF SessionRec, Released, Cleared, SessSet
<1> QED
  BY <1>1, <1>2

\* Marking a channel done leaves its messages, and whether it is closed.
LEMMA Doings ==
  ASSUME Types, NEW s \in Sessions, NEW ch \in Attempts, chan' = Done(chan, s, ch)
  PROVE  ChanSet(ch, chan[ch].msgs, chan[ch].closed)
BY DEF Types, ChanRec, Done, ChanSet


------------------------------------------------------------------------------
(* What most actions leave alone.                                           *)

LostStays == \A s \in Sessions : Lost(s) => Lost(s)'
QuitStays == (Leaving => Leaving') /\ deserted \subseteq deserted'
StreamsStay == \A a \in Attempts : att[a].at = "stream" => att'[a].at = "stream" /\ att'[a].sess = att[a].sess
NoneActivated ==
  \A a \in Attempts : att'[a].at \in Active =>
    att[a].at \in Active /\ att'[a].sess = att[a].sess /\ (att[a].at = "stream" => att'[a].at = "stream")
SameDebts ==
  \A c \in Conns : conns'[c].owes = <<>> \/ (conns'[c].owes = conns[c].owes /\ conns'[c].sess = conns[c].sess)
NoneIndebted == \A c \in Conns : conns[c].owes = <<>> => conns'[c].owes = <<>>
NoneRevived == \A c \in Conns : conns[c].state \notin {"none", "up"} => conns'[c].state \notin {"none", "up"}
SameOwners ==
  \A c \in Conns : conns[c].state # "none" => conns'[c].state # "none" /\ conns'[c].sess \in {conns[c].sess, None}
NoneTaken ==
  /\ \A s \in Sessions : sess'[s].active # None => sess'[s].active = sess[s].active
  /\ \A c \in Conns : reader'[c].ch # None => reader'[c].ch = reader[c].ch /\ conns'[c].sess = conns[c].sess
NoneSent ==
  \A a \in Attempts : \A i \in 1..Len(chan'[a].msgs) : \E j \in 1..Len(chan[a].msgs) : chan'[a].msgs[i] = chan[a].msgs[j]

\* If no messages change, none is sent.
LEMMA SameSent ==
  ASSUME ChanFields, \A a \in Attempts : chan'[a].msgs = chan[a].msgs
  PROVE  NoneSent
BY DEF NoneSent

\* A step that changes no stream and no debt keeps OwesCurrent.
LEMMA OwesFrame ==
  ASSUME IInv, LostStays, QuitStays, StreamsStay, SameDebts
  PROVE  OwesCurrent'
<1>0. ConnFields /\ OwesFields
  BY FieldsTyped DEF IInv, Fields
<1> SUFFICES ASSUME NEW c \in Conns, (conns[c].sess # None /\ Watched(conns[c].sess))', NEW i \in 1..Len(conns'[c].owes)
             PROVE  /\ att'[conns'[c].owes[i].of].at = "stream" /\ att'[conns'[c].owes[i].of].sess = conns'[c].sess
                    /\ conns'[c].owes[i].kind = "delta" <=> i < Len(conns'[c].owes)
  BY DEF OwesCurrent
<1>1. conns'[c].sess = conns[c].sess /\ conns'[c].owes = conns[c].owes
  BY DEF SameDebts
<1>2. PICK s \in Sessions : s = conns[c].sess
  BY <1>0, <1>1 DEF ConnFields
<1>3. ~Lost(s)' /\ ~Leaving' /\ s \notin deserted'
  BY <1>1, <1>2 DEF Watched, Lost
<1>4. conns[c].sess # None /\ Watched(conns[c].sess)
  BY <1>1, <1>2, <1>3 DEF Watched, LostStays, QuitStays
<1>5. /\ conns[c].owes[i].of \in Attempts /\ att[conns[c].owes[i].of].at = "stream"
      /\ att[conns[c].owes[i].of].sess = conns[c].sess
      /\ conns[c].owes[i].kind = "delta" <=> i < Len(conns[c].owes)
  BY <1>0, <1>1, <1>4 DEF OwesFields, OwesCurrent, IInv
<1> QED
  BY <1>1, <1>5 DEF StreamsStay

\* An event that lay in the channel before the step still fits its attempt.
LEMMA OldEvent ==
  ASSUME IInv, LostStays, QuitStays, NoneActivated, NoneIndebted, NoneRevived,
         NEW a \in Attempts, (att[a].at \in Active /\ Watched(att[a].sess))', NEW i \in 1..Len(chan'[a].msgs),
         NEW j \in 1..Len(chan[a].msgs), chan'[a].msgs[i] = chan[a].msgs[j]
  PROVE  /\ chan'[a].msgs[i].kind # "fail" => chan'[a].msgs[i].of = a /\ att'[a].at = "stream"
         /\ chan'[a].msgs[i].kind # "delta" => conns'[chan'[a].msgs[i].conn].owes = <<>>
         /\ chan'[a].msgs[i].kind = "fail" => conns'[chan'[a].msgs[i].conn].state # "up"
<1>0. AttemptsLinked /\ EventFields /\ EventsLinked
  BY FieldsTyped DEF IInv, Fields
<1>1. /\ att[a].at \in Active /\ att'[a].sess = att[a].sess
      /\ att[a].at = "stream" => att'[a].at = "stream"
  BY DEF NoneActivated
<1>2. PICK s \in Sessions : s = att[a].sess
  BY <1>0, <1>1 DEF AttemptsLinked, Active
<1>3. ~Lost(s)' /\ ~Leaving' /\ s \notin deserted'
  BY <1>1, <1>2 DEF Watched, Lost
<1>4. Watched(att[a].sess)
  BY <1>1, <1>2, <1>3 DEF Watched, LostStays, QuitStays
<1>5. /\ chan[a].msgs[j].kind # "fail" => chan[a].msgs[j].of = a /\ att[a].at = "stream"
      /\ chan[a].msgs[j].kind # "delta" => conns[chan[a].msgs[j].conn].owes = <<>>
      /\ chan[a].msgs[j].kind = "fail" => conns[chan[a].msgs[j].conn].state # "up"
      /\ chan[a].msgs[j].conn \in Conns /\ conns[chan[a].msgs[j].conn].state # "none"
  BY <1>0, <1>1, <1>4 DEF EventFields, EventsLinked, EventsCurrent, IInv
<1> QED
  BY <1>1, <1>5 DEF NoneIndebted, NoneRevived

\* A step that sends nothing and activates nobody keeps EventsCurrent.
LEMMA EventsFrame ==
  ASSUME IInv, LostStays, QuitStays, NoneActivated, NoneIndebted, NoneRevived, NoneSent
  PROVE  EventsCurrent'
<1> SUFFICES ASSUME NEW a \in Attempts, (att[a].at \in Active /\ Watched(att[a].sess))', NEW i \in 1..Len(chan'[a].msgs)
             PROVE  /\ chan'[a].msgs[i].kind # "fail" => chan'[a].msgs[i].of = a /\ att'[a].at = "stream"
                    /\ chan'[a].msgs[i].kind # "delta" => conns'[chan'[a].msgs[i].conn].owes = <<>>
                    /\ chan'[a].msgs[i].kind = "fail" => conns'[chan'[a].msgs[i].conn].state # "up"
  BY DEF EventsCurrent
<1>1. PICK j \in 1..Len(chan[a].msgs) : chan'[a].msgs[i] = chan[a].msgs[j]
  BY DEF NoneSent
<1> QED
  BY <1>1, OldEvent

\* If owners stay as well, it keeps EventsLinked.
LEMMA LinkedFrame ==
  ASSUME IInv, NoneActivated, SameOwners, NoneSent
  PROVE  EventsLinked'
<1>0. EventFields
  BY FieldsTyped DEF IInv, Fields
<1> SUFFICES ASSUME NEW a \in Attempts, att'[a].at \in Active, NEW i \in 1..Len(chan'[a].msgs)
             PROVE  /\ conns'[chan'[a].msgs[i].conn].sess \in {att'[a].sess, None}
                    /\ conns'[chan'[a].msgs[i].conn].state # "none"
  BY DEF EventsLinked
<1>1. att[a].at \in Active /\ att'[a].sess = att[a].sess
  BY DEF NoneActivated
<1>2. PICK j \in 1..Len(chan[a].msgs) : chan'[a].msgs[i] = chan[a].msgs[j]
  BY DEF NoneSent
<1>3. /\ chan[a].msgs[j].conn \in Conns
      /\ conns[chan[a].msgs[j].conn].sess \in {att[a].sess, None}
      /\ conns[chan[a].msgs[j].conn].state # "none"
  BY <1>0, <1>1 DEF EventFields, EventsLinked, IInv
<1> QED
  BY <1>1, <1>2, <1>3 DEF SameOwners

\* A step that gives nobody a channel keeps OneSession.
LEMMA SessionFrame ==
  ASSUME IInv, NoneActivated, NoneTaken
  PROVE  OneSession'
<1>1. OneSession /\ None \notin Attempts
  BY NoneApart DEF IInv
<1>2. /\ \A s \in Sessions : sess'[s].active # None => sess'[s].active = sess[s].active
      /\ \A c \in Conns : reader'[c].ch # None => reader'[c].ch = reader[c].ch /\ conns'[c].sess = conns[c].sess
  BY DEF NoneTaken
<1>3. \A a \in Attempts : att'[a].at \in Active => att[a].at \in Active /\ att'[a].sess = att[a].sess
  BY DEF NoneActivated
<1>4. \A s, t \in Sessions : sess'[s].active = sess'[t].active /\ sess'[s].active # None => s = t
  BY <1>1, <1>2 DEF OneSession
<1>5. \A s \in Sessions, c \in Conns : reader'[c].ch = sess'[s].active /\ reader'[c].ch # None => conns'[c].sess = s
  BY <1>1, <1>2 DEF OneSession
<1>6. \A c, d \in Conns : reader'[c].ch = reader'[d].ch /\ reader'[c].ch # None => conns'[c].sess = conns'[d].sess
  BY <1>1, <1>2 DEF OneSession
<1>7. \A a \in Attempts, s \in Sessions : att'[a].at \in Active /\ sess'[s].active = a => att'[a].sess = s
  BY <1>1, <1>2, <1>3 DEF OneSession
<1>8. \A a \in Attempts, c \in Conns : att'[a].at \in Active /\ reader'[c].ch = a => att'[a].sess = conns'[c].sess
  BY <1>1, <1>2, <1>3 DEF OneSession
<1> QED
  BY <1>4, <1>5, <1>6, <1>7, <1>8 DEF OneSession

SameClosed == \A a \in Attempts : chan'[a].closed = chan[a].closed
NoneHeld ==
  \A c \in Conns : reader'[c].at \in {"deliver", "tell", "close"} => reader'[c] = reader[c] /\ conns'[c].sess = conns[c].sess
SameReaders == \A c \in Conns : reader'[c] = reader[c] /\ conns'[c].sess = conns[c].sess

\* A step that closes nothing and gives no reader a channel keeps OpenRead.
LEMMA OpenFrame ==
  ASSUME IInv, LostStays, SameClosed, NoneHeld
  PROVE  OpenRead'
<1>0. OpenRead /\ ReadersLinked /\ ConnFields /\ ReaderFields
  BY FieldsTyped DEF IInv, Fields
<1> SUFFICES ASSUME NEW c \in Conns, (reader[c].at \in {"deliver", "tell", "close"} /\ ~Lost(conns[c].sess))'
             PROVE  ~chan'[reader'[c].ch].closed
  BY DEF OpenRead
<1>1. reader'[c] = reader[c] /\ conns'[c].sess = conns[c].sess
  BY DEF NoneHeld
<1>2. PICK s \in Sessions : s = conns[c].sess
  BY <1>0, <1>1 DEF ReadersLinked, ConnFields
<1>3. ~Lost(s)'
  BY <1>1, <1>2 DEF Lost
<1>4. ~Lost(conns[c].sess)
  BY <1>2, <1>3 DEF LostStays
<1>5. reader[c].ch \in Attempts
  BY <1>0, <1>1 DEF ReadersLinked, ReaderFields
<1> QED
  BY <1>0, <1>1, <1>4, <1>5 DEF OpenRead, SameClosed

\* A step that closes nothing and moves no reader keeps ClosedLast.
LEMMA ClosedFrame ==
  ASSUME IInv, LostStays, NoneActivated, SameClosed, SameReaders
  PROVE  ClosedLast'
<1>0. ClosedLast /\ AttemptsLinked
  BY DEF IInv
<1> SUFFICES ASSUME NEW a \in Attempts, NEW c \in Conns,
                    (att[a].at \in Active /\ chan[a].closed /\ ~Lost(att[a].sess) /\ conns[c].sess = att[a].sess)'
             PROVE  reader'[c].at = "invalidate"
  BY DEF ClosedLast
<1>1. att[a].at \in Active /\ att'[a].sess = att[a].sess
  BY DEF NoneActivated
<1>2. PICK s \in Sessions : s = att[a].sess
  BY <1>0, <1>1 DEF AttemptsLinked, Active
<1>3. ~Lost(s)'
  BY <1>1, <1>2 DEF Lost
<1>4. ~Lost(att[a].sess)
  BY <1>2, <1>3 DEF LostStays
<1>5. chan[a].closed /\ conns[c].sess = att[a].sess /\ reader'[c] = reader[c]
  BY <1>1 DEF SameClosed, SameReaders
<1> QED
  BY <1>0, <1>1, <1>4, <1>5 DEF ClosedLast

\* A session keeps its connection, unless it has lost it.
KeptStays == \A s \in Sessions : Kept(s)' => Kept(s) /\ sess'[s].conn = sess[s].conn
NoneDialled == \A c \in Conns : conns'[c].sess \in {conns[c].sess, None}
ConnectedBefore(a) ==
  /\ att[a].at \in Connected /\ att'[a].sess = att[a].sess /\ att'[a].conn = att[a].conn
  /\ att'[a].at = "redial" => att[a].at = "redial"

\* A step that dials nothing, and connects nobody anew, keeps ConnKept.
LEMMA KeptFrame ==
  ASSUME IInv, LostStays, KeptStays, NoneDialled, NEW s \in Sessions,
         \A a \in Attempts : att'[a].at \in Connected => ConnectedBefore(a) \/ (att'[a].sess = s /\ Lost(s)')
  PROVE  ConnKept'
<1>0. ConnFields /\ ConnKept /\ AttemptsLinked
  BY FieldsTyped DEF IInv, Fields
<1>1. ASSUME NEW c \in Conns, conns'[c].sess # None, Kept(conns[c].sess)' PROVE sess'[conns'[c].sess].conn = c
  <2>1. PICK t \in Sessions : t = conns[c].sess /\ conns'[c].sess = t
    BY <1>0, <1>1 DEF ConnFields, NoneDialled
  <2>2. Kept(t)'
    BY <1>1, <2>1 DEF Kept, Lost
  <2> QED
    BY <1>0, <1>1, <2>1, <2>2 DEF ConnKept, KeptStays
<1>2. ASSUME NEW a \in Attempts, att'[a].at \in Connected, Kept(att[a].sess)' PROVE sess'[att'[a].sess].conn = att'[a].conn
  <2>1. ConnectedBefore(a)
    BY <1>2 DEF Kept, Lost
  <2>2. PICK t \in Sessions : t = att[a].sess /\ att'[a].sess = t
    BY <1>0, <2>1 DEF ConnectedBefore, AttemptsLinked, Connected, Active
  <2>3. Kept(t)'
    BY <1>2, <2>2 DEF Kept, Lost
  <2> QED
    BY <1>0, <2>1, <2>2, <2>3 DEF ConnectedBefore, ConnKept, KeptStays
<1>3. ASSUME NEW a \in Attempts, att'[a].at = "redial" PROVE Lost(att[a].sess)'
  <2>1. CASE ConnectedBefore(a)
    <3>1. PICK t \in Sessions : t = att[a].sess /\ att'[a].sess = t
      BY <1>0, <2>1 DEF ConnectedBefore, AttemptsLinked, Connected, Active
    <3>2. Lost(t)'
      BY <1>0, <1>3, <2>1, <3>1 DEF ConnectedBefore, ConnKept, LostStays
    <3> QED
      BY <3>1, <3>2 DEF Lost
  <2>2. CASE att'[a].sess = s /\ Lost(s)'
    BY <2>2 DEF Lost
  <2> QED
    BY <1>3, <2>1, <2>2 DEF Connected, Active
<1> QED
  BY <1>1, <1>2, <1>3 DEF ConnKept

\* Nor does it give a session a second connection.
LEMMA OneConnFrame ==
  ASSUME IInv, LostStays, NoneDialled
  PROVE  OneConn'
<1>0. ConnFields /\ OneConn
  BY FieldsTyped DEF IInv, Fields
<1> SUFFICES ASSUME NEW c \in Conns, NEW d \in Conns, conns'[c].sess # None, conns'[c].sess = conns'[d].sess,
                    ~Lost(conns[c].sess)'
             PROVE  c = d
  BY DEF OneConn
<1>1. PICK s \in Sessions : s = conns[c].sess /\ conns'[c].sess = s /\ conns[d].sess = s
  BY <1>0 DEF ConnFields, NoneDialled
<1>2. ~Lost(s)'
  BY <1>1 DEF Lost
<1>3. ~Lost(s)
  BY <1>2 DEF LostStays
<1> QED
  BY <1>0, <1>1, <1>3, NoneApart DEF OneConn

\* ensureUpstreamConn is called from two places.
From == {<<"connect", "activate">>, <<"redial", "resend">>}

------------------------------------------------------------------------------
(* The handler and the removal.                                             *)

\* The session a new attempt runs in is the stored one, or the last.
LEMMA LastSession ==
  (CHOOSE n \in Sessions : \A m \in Sessions : m <= n) \in Sessions
<1>1. PICK n \in Sessions : Sessions = 1..n
  BY SessionAssumption
<1>2. n \in Nat /\ \A m \in Sessions : m <= n
  BY <1>1, SessionAssumption
<1> QED
  BY <1>2

\* Nobody executes, but for streams of turns that were given up.
Idle ==
  \A a \in Attempts : att[a].at \in {"none", "finish", "gone"} \/ (att[a].at = "stream" /\ att[a].sess \in deserted)

\* Between turns nobody executes for the client.
LEMMA BetweenTurns ==
  ASSUME IInv, client.at = "listen" \/ (client.at = "turn" /\ att[client.cur].at \in {"finish", "gone"})
  PROVE  Idle
BY DEF IInv, Turns, Leaving, Idle

\* Nor does anybody once the attempt of its turn has a result.
LEMMA Answered ==
  ASSUME IInv, client.at = "turn", att[client.cur].res # None
  PROVE  Idle
BY BetweenTurns DEF IInv, Turns, AttemptsLinked

\* A new attempt of a client that waits for none.
LEMMA AttemptStep ==
  ASSUME IInv, NEW x \in Auths, NEW p \in Auths \cup {None}, Attempt(x, p),
         Idle, ~Leaving, UNCHANGED <<sess, chan, conns, reader, open, removal, mixed, deserted, panicked>>
  PROVE  IInv'
<1>0. IInv /\ Types /\ SessFields /\ AttFields /\ ChanFields /\ EventFields /\ ConnFields /\ OwesFields /\ ReaderFields
  BY FieldsTyped DEF IInv, Fields
<1>1. PICK a \in NewAttempt :
        LET s == IF store # None THEN store ELSE CHOOSE n \in Sessions : \A m \in Sessions : m <= n
        IN /\ store' = s
           /\ att' = [att EXCEPT ![a] = [NoAtt EXCEPT !.at = "lock", !.sess = s, !.auth = x]]
           /\ client' = [client EXCEPT !.at = "turn", !.cur = a, !.turnPin = p, !.sent = FALSE,
                                       !.pin = IF p = None THEN x ELSE @]
  BY DEF Attempt
<1>2. PICK s \in Sessions : s = IF store # None THEN store ELSE CHOOSE n \in Sessions : \A m \in Sessions : m <= n
  BY <1>0, LastSession DEF Types
<1>3. a \in Attempts /\ att[a].at = "none"
  BY <1>1 DEF NewAttempt
<1>4. AttSet(a, "lock", s, None, None)
  <2> DEFINE r == [NoAtt EXCEPT !.at = "lock", !.sess = s, !.auth = x]
  <2>1. r \in AttemptRec
    BY NoAttFields DEF AttemptRec, Places
  <2>2. r.at = "lock" /\ r.sess = s /\ r.conn = None /\ r.res = None
    BY NoAttFields DEF AttemptRec, Places
  <2>3. att' = [att EXCEPT ![a] = r]
    BY <1>1, <1>2
  <2> HIDE DEF r
  <2> QED
    BY <1>0, <1>3, <2>1, <2>2, <2>3 DEF Types, AttSet
<1>5. client' \in ClientRec /\ client'.at = "turn" /\ client'.cur = a
  BY <1>0, <1>1, <1>3 DEF Types, ClientRec
<1>6. Types'
  BY <1>0, <1>1, <1>4, <1>5 DEF Types, AttSet
<1>7. ConnOwned' /\ ReadersLinked' /\ OneConn' /\ OpenActive' /\ OpenRead'
  BY DEF IInv, ConnOwned, ReadersLinked, OneConn, OpenActive, OpenRead, Lost
<1>8. AttemptsLinked' /\ Locked'
  BY <1>4 DEF IInv, AttemptsLinked, Locked, Holding, Connected, Active, AttSet
<1>9. Turns'
  BY <1>3, <1>4, <1>5 DEF IInv, Turns, Idle, AttSet
<1>10. Unused'
  BY <1>3, <1>4 DEF IInv, Unused, Early, AttSet
<1>11. NoneActivated /\ StreamsStay
  BY <1>3, <1>4 DEF NoneActivated, StreamsStay, Active, AttSet
<1>12. LostStays /\ QuitStays /\ SameDebts /\ NoneIndebted /\ NoneRevived /\ SameOwners /\ NoneSent /\ NoneTaken
  BY <1>0, SameSent DEF LostStays, Lost, QuitStays, SameDebts, NoneIndebted, NoneRevived, SameOwners, NoneTaken
<1>13. OneSession' /\ EventsLinked' /\ OwesCurrent' /\ EventsCurrent'
  BY <1>11, <1>12, SessionFrame, LinkedFrame, OwesFrame, EventsFrame
<1>14. ConnKept' /\ ClosedLast'
  BY <1>4 DEF IInv, ConnKept, ClosedLast, Kept, Lost, Leaving, Connected, Active, AttSet
<1> QED
  BY <1>6, <1>7, <1>8, <1>9, <1>10, <1>13, <1>14 DEF IInv

\* A turn begins with a fresh attempt while nobody else is active.
LEMMA BeginTurnStep ==
  ASSUME IInv, NEW x \in Auths, BeginTurn(x)
  PROVE  IInv'
<1>1. client.pin \in Auths \cup {None}
  BY DEF IInv, Types, ClientRec
<1>2. Idle /\ ~Leaving
  BY BetweenTurns DEF BeginTurn, Leaving
<1> QED
  BY <1>1, <1>2, AttemptStep DEF BeginTurn, upstream

\* So does a retry, after the attempt before it has failed.
LEMMA RetryStep ==
  ASSUME IInv, NEW x \in Auths, Retry(x)
  PROVE  IInv'
<1>1. client.turnPin \in Auths \cup {None}
  BY DEF IInv, Types, ClientRec
<1>2. Idle /\ ~Leaving
  BY Answered, NoneApart DEF Retry, Failing, Leaving
<1> QED
  BY <1>1, <1>2, AttemptStep DEF Retry, upstream

\* The handler goes on: no attempt runs, or it was leaving before.
LEMMA ClientStep ==
  ASSUME IInv, Idle \/ Leaving, Leaving => Leaving', client.at # "gone",
         client' \in ClientRec, client'.at \in {"listen", "leave", "close"},
         client'.at = "close" => client'.cur \in Sessions \cup {None},
         store' \in Sessions \cup {None}, open' \in BOOLEAN,
         UNCHANGED <<sess, att, chan, conns, reader, removal, mixed, deserted, panicked>>
  PROVE  IInv'
<1>1. Types'
  BY DEF IInv, Types
<1>2. Turns'
  BY DEF IInv, Turns, Idle, Leaving
<1>3. /\ AttemptsLinked' /\ Locked' /\ ConnOwned' /\ ReadersLinked' /\ Unused' /\ OneSession' /\ EventsLinked'
      /\ OneConn' /\ OpenActive' /\ OpenRead' /\ ClosedLast'
  <2>1. AttemptsLinked' /\ Locked'
    BY DEF IInv, AttemptsLinked, Locked
  <2>2. ConnOwned' /\ ReadersLinked'
    BY DEF IInv, ConnOwned, ReadersLinked
  <2>3. Unused' /\ OneSession'
    BY DEF IInv, Unused, OneSession
  <2>4. EventsLinked' /\ OneConn'
    BY DEF IInv, EventsLinked, OneConn, Lost
  <2>5. OpenActive' /\ OpenRead'
    BY DEF IInv, OpenActive, OpenRead, Lost
  <2>6. ClosedLast'
    BY DEF IInv, ClosedLast, Lost
  <2> QED
    BY <2>1, <2>2, <2>3, <2>4, <2>5, <2>6
<1>4. ConnKept'
  BY DEF IInv, ConnKept, Kept, Lost
<1>5. OwesCurrent' /\ EventsCurrent'
  <2>1. LostStays /\ QuitStays /\ StreamsStay /\ NoneActivated /\ SameDebts /\ NoneIndebted /\ NoneRevived
    BY DEF LostStays, Lost, QuitStays, StreamsStay, NoneActivated, SameDebts, NoneIndebted, NoneRevived
  <2>2. NoneSent
    BY FieldsTyped, SameSent DEF IInv, Fields
  <2> QED
    BY <2>1, <2>2, OwesFrame, EventsFrame
<1> QED
  BY <1>1, <1>2, <1>3, <1>4, <1>5 DEF IInv

\* A turn that is over leaves the client listening, with nobody active.
LEMMA TurnOverStep ==
  ASSUME IInv, client.at = "turn", Idle, NEW pin \in Auths \cup {None}, client' = [TurnOver EXCEPT !.pin = pin],
         UNCHANGED <<store, sess, att, chan, conns, reader, open, removal, mixed, deserted, panicked>>
  PROVE  IInv'
<1>1. TurnOver \in ClientRec /\ TurnOver.at \in {"listen", "leave"}
  BY DEF IInv, Types, ClientRec, TurnOver
<1>2. client' \in ClientRec /\ client'.at \in {"listen", "leave"}
  BY <1>1 DEF ClientRec
<1>3. store' \in Sessions \cup {None} /\ open' \in BOOLEAN
  BY DEF IInv, Types
<1> QED
  BY <1>2, <1>3, ClientStep DEF Leaving

\* A turn that fails is over, whether or not it keeps its credential.
LEMMA TurnFailsStep ==
  ASSUME IInv, NEW release \in BOOLEAN, TurnFails(release)
  PROVE  IInv'
<1>1. PICK pin \in Auths \cup {None} : pin = IF release THEN None ELSE TurnOver.pin
  BY DEF IInv, Types, ClientRec, TurnOver
<1>2. client' = [TurnOver EXCEPT !.pin = pin]
  BY <1>1 DEF TurnFails
<1>3. client.at = "turn" /\ Idle
  BY Answered, NoneApart DEF TurnFails, Failing
<1> QED
  BY <1>2, <1>3, TurnOverStep DEF TurnFails, upstream

\* A turn that ends well is over.
LEMMA TurnEndsStep ==
  ASSUME IInv, TurnEnds
  PROVE  IInv'
<1>1. client.at = "turn" /\ Idle
  BY Answered, NoneApart DEF TurnEnds
<1>2. TurnOver \in ClientRec /\ TurnOver.at \in {"listen", "leave"}
  BY DEF IInv, Types, ClientRec, TurnOver
<1>3. store' \in Sessions \cup {None} /\ open' \in BOOLEAN
  BY DEF IInv, Types, TurnEnds
<1> QED
  BY <1>1, <1>2, <1>3, ClientStep DEF TurnEnds, upstream, Leaving

\* A websocket that is closed sends the handler on its way out.
LEMMA HandlerReadFailsStep ==
  ASSUME IInv, HandlerReadFails
  PROVE  IInv'
<1>1. client.at = "listen" /\ Idle
  BY BetweenTurns DEF HandlerReadFails
<1>2. client' \in ClientRec /\ client'.at = "leave"
  BY DEF IInv, Types, ClientRec, HandlerReadFails
<1>3. store' \in Sessions \cup {None} /\ open' \in BOOLEAN
  BY DEF IInv, Types, HandlerReadFails
<1> QED
  BY <1>1, <1>2, <1>3, ClientStep DEF HandlerReadFails, upstream, Leaving

\* The session leaves the store before it is closed.
LEMMA LeaveStep ==
  ASSUME IInv, Leave
  PROVE  IInv'
<1>1. client' \in ClientRec /\ client'.at = "close" /\ client'.cur \in Sessions \cup {None}
  BY DEF IInv, Types, ClientRec, Leave
<1>2. store' \in Sessions \cup {None} /\ open' \in BOOLEAN
  BY DEF Leave
<1>3. Leaving /\ Leaving' /\ client.at # "gone"
  BY <1>1 DEF Leave, Leaving
<1> QED
  BY <1>1, <1>2, <1>3, ClientStep DEF Leave, upstream

\* What the handler's watcher and the client do.
LEMMA OpenStep ==
  ASSUME IInv, Disconnected \/ ClientLeaves
  PROVE  IInv'
<1>1. /\ UNCHANGED <<store, sess, att, chan, conns, reader, client, removal, mixed, deserted, panicked>>
      /\ open' \in BOOLEAN
  BY DEF Disconnected, ClientLeaves, upstream
<1>2. Types' /\ Turns'
  BY <1>1 DEF IInv, Types, Turns, Leaving
<1>3. /\ AttemptsLinked' /\ Locked' /\ ConnOwned' /\ ReadersLinked' /\ Unused' /\ OneSession' /\ EventsLinked'
  <2>1. AttemptsLinked' /\ Locked'
    BY <1>1 DEF IInv, AttemptsLinked, Locked
  <2>2. ConnOwned' /\ ReadersLinked'
    BY <1>1 DEF IInv, ConnOwned, ReadersLinked
  <2>3. Unused' /\ OneSession'
    BY <1>1 DEF IInv, Unused, OneSession
  <2>4. EventsLinked'
    BY <1>1 DEF IInv, EventsLinked
  <2> QED
    BY <2>1, <2>2, <2>3, <2>4
<1>4. ConnKept' /\ OneConn' /\ OpenActive' /\ OpenRead' /\ ClosedLast' /\ OwesCurrent' /\ EventsCurrent'
  <2>1. ConnKept' /\ OneConn'
    BY <1>1 DEF IInv, ConnKept, OneConn, Kept, Lost
  <2>2. OpenActive' /\ OpenRead'
    BY <1>1 DEF IInv, OpenActive, OpenRead, Lost
  <2>3. ClosedLast' /\ OwesCurrent'
    BY <1>1 DEF IInv, ClosedLast, OwesCurrent, Lost, Watched, Leaving
  <2>4. EventsCurrent'
    BY <1>1 DEF IInv, EventsCurrent, Watched, Lost, Leaving
  <2> QED
    BY <2>1, <2>2, <2>3, <2>4
<1> QED
  BY <1>2, <1>3, <1>4 DEF IInv

\* Taking a removed credential's session out of the store touches nothing of it.
LEMMA RemovalStep ==
  ASSUME IInv, (\E x \in Auths : RemoveMatch(x)) \/ RemoveDelete
  PROVE  IInv'
<1>1. UNCHANGED <<sess, att, chan, conns, reader, client, open, mixed, deserted, panicked>>
  BY DEF RemoveMatch, RemoveDelete, upstream, downstream
<1>2. removal' \in RemovalRec /\ removal'.sess \in Sessions /\ store' \in Sessions \cup {None}
  <2>1. CASE \E x \in Auths : RemoveMatch(x)
    BY <2>1 DEF IInv, Types, RemovalRec, RemoveMatch
  <2>2. CASE RemoveDelete
    BY <2>2 DEF IInv, Types, RemovalRec, RemoveDelete, Turns
  <2> QED
    BY <2>1, <2>2
<1>3. LostStays
  <2>1. \A s \in Sessions : ~(removal.sess = s /\ removal.at = "done")
    BY DEF RemoveMatch, RemoveDelete
  <2> QED
    BY <1>1, <2>1 DEF LostStays, Lost
<1>4. Types' /\ Turns'
  BY <1>1, <1>2 DEF IInv, Types, Turns, Leaving
<1>5. /\ AttemptsLinked' /\ Locked' /\ ConnOwned' /\ ReadersLinked' /\ Unused' /\ OneSession' /\ EventsLinked'
  <2>1. AttemptsLinked' /\ Locked'
    BY <1>1 DEF IInv, AttemptsLinked, Locked
  <2>2. ConnOwned' /\ ReadersLinked'
    BY <1>1 DEF IInv, ConnOwned, ReadersLinked
  <2>3. Unused' /\ OneSession'
    BY <1>1 DEF IInv, Unused, OneSession
  <2>4. EventsLinked'
    BY <1>1 DEF IInv, EventsLinked
  <2> QED
    BY <2>1, <2>2, <2>3, <2>4
<1>6. OwesCurrent' /\ EventsCurrent'
  <2>1. QuitStays /\ StreamsStay /\ NoneActivated /\ SameDebts /\ NoneIndebted /\ NoneRevived
    BY <1>1 DEF QuitStays, Leaving, StreamsStay, NoneActivated, SameDebts, NoneIndebted, NoneRevived
  <2>2. NoneSent
    BY <1>1, FieldsTyped, SameSent DEF IInv, Fields
  <2> QED
    BY <1>3, <2>1, <2>2, OwesFrame, EventsFrame
<1>7. \A s \in Sessions : Lost(s) => sess[s].told \/ (removal'.sess = s /\ removal'.at = "done")
  BY <1>1, <1>3 DEF LostStays, Lost
<1>8. ConnFields /\ AttFields
  BY FieldsTyped DEF IInv, Fields
<1>9. ConnKept'
  BY <1>1, <1>7, <1>8 DEF IInv, ConnKept, Kept, Lost, AttemptsLinked, ConnFields, Connected, Active
<1>10. OneConn' /\ OpenActive'
  BY <1>1, <1>7, <1>8 DEF IInv, OneConn, OpenActive, Lost, ConnFields
<1>11. OpenRead'
  BY <1>1, <1>7, <1>8 DEF IInv, OpenRead, Lost, ConnFields, ReadersLinked
<1>12. ClosedLast'
  BY <1>1, <1>7 DEF IInv, ClosedLast, Lost, AttemptsLinked, Active
<1> QED
  BY <1>4, <1>5, <1>6, <1>9, <1>10, <1>11, <1>12 DEF IInv

------------------------------------------------------------------------------
(* ExecuteStream.                                                           *)

\* A write that fails means that the session has lost its connection.
LEMMA SendFailsStep ==
  ASSUME IInv, NEW a \in Attempts, SendFails(a)
  PROVE  IInv'
<1>0. IInv /\ Types /\ SessFields /\ AttFields /\ ChanFields /\ EventFields /\ ConnFields /\ OwesFields /\ ReaderFields
  BY FieldsTyped DEF IInv, Fields
<1>1. PICK s \in Sessions : s = att[a].sess
  BY <1>0 DEF IInv, AttemptsLinked, SendFails, At
<1>2. PICK c \in Conns : c = att[a].conn
  BY DEF IInv, AttemptsLinked, SendFails, At, Connected, Active
<1>3. /\ att[a].at = "send" /\ conns[c].state # "up" /\ conns[c].state # "none"
      /\ conns[c].sess \in {s, None}
      /\ UNCHANGED <<store, chan, reader, client, open, removal, mixed, deserted, panicked>>
  BY <1>1, <1>2 DEF IInv, AttemptsLinked, Connected, Active, SendFails, At, downstream
<1>4. AttSet(a, "redial", s, c, att[a].res)
  BY <1>0, <1>1, <1>2, Goings DEF SendFails, Places
<1>5. SessSet(s, sess[s].lock, IF sess[s].conn = c THEN None ELSE sess[s].conn, sess[s].active,
              sess[s].told \/ sess[s].conn = c)
  BY <1>0, <1>1, <1>2, <1>3, Forgettings DEF SendFails
<1>6. ConnSet(c, IF sess[s].conn = c THEN "shut" ELSE conns[c].state, conns[c].sess, conns[c].owes)
  BY <1>0, <1>1, <1>2, <1>3, Shuttings DEF SendFails
<1>7. Types'
  BY <1>0, <1>3, <1>4, <1>5, <1>6 DEF Types, AttSet, SessSet, ConnSet
<1>8. LostStays
  BY <1>0, <1>3, <1>5 DEF LostStays, Lost, SessSet
<1>9. QuitStays
  BY <1>0, <1>3 DEF QuitStays, Leaving
<1>10. StreamsStay
  BY <1>0, <1>3, <1>4 DEF StreamsStay, AttFields, AttSet
<1>11. NoneActivated
  BY <1>1, <1>3, <1>4 DEF NoneActivated, Active, AttSet
<1>12. SameDebts
  BY <1>0, <1>3, <1>6 DEF SameDebts, ConnSet
<1>13. NoneIndebted
  BY <1>0, <1>3, <1>6 DEF NoneIndebted, ConnSet
<1>14. NoneRevived
  BY <1>0, <1>3, <1>6 DEF NoneRevived, ConnSet
<1>15. SameOwners
  BY <1>0, <1>3, <1>6 DEF SameOwners, ConnSet
<1>16. NoneSent
  BY <1>0, <1>3, SameSent
<1>17. NoneTaken
  BY <1>3, <1>5, <1>6 DEF NoneTaken, SessSet, ConnSet
<1>18. SameClosed
  BY <1>0, <1>3 DEF SameClosed
<1>19. NoneHeld
  BY <1>0, <1>3, <1>6 DEF NoneHeld, ConnSet
<1>20. SameReaders
  BY <1>0, <1>3, <1>6 DEF SameReaders, ConnSet
<1>21. AttemptsLinked'
  BY <1>3, <1>4, <1>6 DEF IInv, AttemptsLinked, AttSet, ConnSet
<1>22. Locked'
  BY <1>1, <1>3, <1>4, <1>5 DEF IInv, Locked, Holding, Active, AttemptsLinked, AttSet, SessSet
<1>23. Turns'
  BY <1>3, <1>4 DEF IInv, Turns, Leaving, AttSet
<1>24. ConnOwned'
  BY <1>0, <1>5, <1>6 DEF IInv, ConnOwned, SessFields, SessSet, ConnSet
<1>25. ReadersLinked'
  BY <1>3, <1>6 DEF IInv, ReadersLinked, ConnSet
<1>26. Unused'
  BY <1>3, <1>4, <1>5 DEF IInv, Unused, Early, AttSet, SessSet
<1>27. OneSession'
  BY <1>0, <1>11, <1>17, SessionFrame
<1>28. EventsLinked'
  BY <1>0, <1>11, <1>15, <1>16, LinkedFrame
<1>29. ConnKept'
  <2>1. ~Lost(s) => sess[s].conn = c
    BY <1>1, <1>2, <1>3 DEF IInv, ConnKept, Kept, Turns, Connected, Active
  <2>2. Lost(s)'
    BY <1>3, <1>5, <2>1 DEF Lost, SessSet
  <2>3. \A t \in Sessions : t # s => (Lost(t) <=> Lost(t)')
    BY <1>3, <1>5 DEF Lost, SessSet
  <2>4. LostStays /\ KeptStays
    BY <1>3, <1>5, <2>2, <2>3 DEF LostStays, KeptStays, Kept, SessSet
  <2>5. NoneDialled
    BY <1>6 DEF NoneDialled, ConnSet
  <2>6. \A b \in Attempts : att'[b].at \in Connected => ConnectedBefore(b) \/ (att'[b].sess = s /\ Lost(s)')
    BY <1>4, <2>2 DEF ConnectedBefore, AttSet
  <2> QED
    BY <1>0, <2>4, <2>5, <2>6, KeptFrame
<1>30. OneConn'
  BY <1>0, <1>3, <1>5, <1>6, NoneApart DEF IInv, OneConn, Lost, ConnFields, SessFields, SessSet, ConnSet
<1>31. OpenActive'
  BY <1>0, <1>3, <1>5 DEF IInv, OpenActive, Lost, SessFields, SessSet
<1>32. OpenRead'
  BY <1>0, <1>8, <1>18, <1>19, OpenFrame
<1>33. ClosedLast'
  BY <1>0, <1>8, <1>11, <1>18, <1>20, ClosedFrame
<1>34. OwesCurrent'
  BY <1>0, <1>8, <1>9, <1>10, <1>12, OwesFrame
<1>35. EventsCurrent'
  BY <1>0, <1>8, <1>9, <1>11, <1>13, <1>14, <1>16, EventsFrame
<1> QED
  BY <1>7, <1>21, <1>22, <1>23, <1>24, <1>25, <1>26, <1>27, <1>28, <1>29, <1>30, <1>31, <1>32, <1>33, <1>34,
         <1>35 DEF IInv

\* reqMu is taken only while nobody has it.
LEMMA LockStep ==
  ASSUME IInv, NEW a \in Attempts, Lock(a)
  PROVE  IInv'
<1>0. IInv /\ Types /\ SessFields /\ AttFields /\ ChanFields /\ EventFields /\ ConnFields /\ OwesFields /\ ReaderFields
  BY FieldsTyped DEF IInv, Fields
<1>1. PICK s \in Sessions : s = att[a].sess
  BY <1>0 DEF IInv, AttemptsLinked, Lock, At
<1>2. /\ att[a].at = "lock" /\ sess[s].lock = None
      /\ UNCHANGED <<store, chan, conns, reader, client, open, removal, mixed, deserted, panicked>>
  BY <1>0, <1>1 DEF Lock, At, upstream, downstream
<1>3. AttSet(a, "connect", s, att[a].conn, att[a].res)
  BY <1>0, <1>1, <1>2, Goings DEF Lock, Places
<1>4. SessSet(s, a, sess[s].conn, sess[s].active, sess[s].told)
  <2>1. sess \in [Sessions -> SessionRec]
    BY <1>0 DEF Types
  <2> QED
    BY <1>0, <1>1, <2>1 DEF Lock, SessSet, SessionRec
<1>5. Types'
  BY <1>0, <1>2, <1>3, <1>4 DEF Types, AttSet, SessSet
<1>6. LostStays
  BY <1>0, <1>2, <1>4 DEF LostStays, Lost, SessSet
<1>7. QuitStays
  BY <1>0, <1>2 DEF QuitStays, Leaving
<1>8. StreamsStay
  BY <1>0, <1>2, <1>3 DEF StreamsStay, AttFields, AttSet
<1>9. NoneActivated
  BY <1>0, <1>2, <1>3 DEF NoneActivated, Active, AttSet
<1>10. SameDebts
  BY <1>0, <1>2 DEF SameDebts
<1>11. NoneIndebted
  BY <1>0, <1>2 DEF NoneIndebted
<1>12. NoneRevived
  BY <1>0, <1>2 DEF NoneRevived
<1>13. SameOwners
  BY <1>0, <1>2 DEF SameOwners
<1>14. NoneSent
  BY <1>0, <1>2, SameSent
<1>15. NoneTaken
  BY <1>0, <1>2, <1>4 DEF NoneTaken, SessSet
<1>16. SameClosed
  BY <1>0, <1>2 DEF SameClosed
<1>17. NoneHeld
  BY <1>0, <1>2 DEF NoneHeld
<1>18. SameReaders
  BY <1>0, <1>2 DEF SameReaders
<1>19. ReadersLinked'
  BY <1>0, <1>2 DEF IInv, ReadersLinked
<1>20. AttemptsLinked'
  BY <1>2, <1>3 DEF IInv, AttemptsLinked, Connected, Active, AttSet
<1>21. Locked'
  BY <1>2, <1>3, <1>4, NoneApart DEF IInv, Locked, Holding, Active, AttemptsLinked, AttSet, SessSet
<1>22. Turns'
  BY <1>2, <1>3 DEF IInv, Turns, Leaving, AttSet
<1>23. ConnOwned'
  BY <1>2, <1>4 DEF IInv, ConnOwned, SessSet
<1>24. Unused'
  BY <1>2, <1>3, <1>4 DEF IInv, Unused, Early, SessFields, AttSet, SessSet
<1>25. OneSession'
  BY <1>0, <1>9, <1>15, SessionFrame
<1>26. EventsLinked'
  BY <1>0, <1>9, <1>13, <1>14, LinkedFrame
<1>27. ConnKept'
  BY <1>0, <1>2, <1>3, <1>4, NoneApart DEF IInv, ConnKept, Kept, Lost, Connected, Active, AttemptsLinked,
         ConnFields, AttSet, SessSet
<1>28. OneConn'
  BY <1>0, <1>2, <1>4 DEF IInv, OneConn, Lost, ConnFields, SessSet
<1>29. OpenActive'
  BY <1>2, <1>4 DEF IInv, OpenActive, Lost, SessSet
<1>30. OpenRead'
  BY <1>0, <1>6, <1>16, <1>17, OpenFrame
<1>31. ClosedLast'
  BY <1>0, <1>6, <1>9, <1>16, <1>18, ClosedFrame
<1>32. OwesCurrent'
  BY <1>0, <1>6, <1>7, <1>8, <1>10, OwesFrame
<1>33. EventsCurrent'
  BY <1>0, <1>6, <1>7, <1>9, <1>11, <1>12, <1>14, EventsFrame
<1> QED
  BY <1>5, <1>19, <1>20, <1>21, <1>22, <1>23, <1>24, <1>25, <1>26, <1>27, <1>28, <1>29, <1>30, <1>31, <1>32,
         <1>33 DEF IInv

\* A connection that is reused is the session's.
LEMMA ReuseStep ==
  ASSUME IInv, NEW a \in Attempts, NEW next, <<att[a].at, next>> \in From, Reuse(a, next)
  PROVE  IInv'
<1>0. IInv /\ Types /\ SessFields /\ AttFields /\ ChanFields /\ EventFields /\ ConnFields /\ OwesFields /\ ReaderFields
  BY FieldsTyped DEF IInv, Fields
<1>1. PICK s \in Sessions : s = att[a].sess
  BY <1>0 DEF IInv, AttemptsLinked, From
<1>2. PICK c \in Conns : c = sess[s].conn
  BY <1>0, <1>1 DEF Reuse, SessFields
<1>3. conns[c].sess = s /\ conns[c].state # "none"
  BY <1>0, <1>2, NoneApart DEF IInv, ConnOwned, ReadersLinked
<1>4. /\ (att[a].at = "connect" /\ next = "activate") \/ (att[a].at = "redial" /\ next = "resend")
      /\ UNCHANGED <<store, sess, chan, conns, reader, client, open, removal, mixed, deserted, panicked>>
  BY <1>2 DEF Reuse, upstream, downstream, From
<1>5. AttSet(a, next, s, c, att[a].res)
  <2>1. att' = [att EXCEPT ![a].at = next, ![a].conn = c] /\ next \in Places
    BY <1>1, <1>2, <1>4 DEF Reuse, Places
  <2> QED
    BY <1>0, <1>1, <2>1, Connectings
<1>6. Types'
  BY <1>0, <1>4, <1>5 DEF Types, AttSet
<1>7. LostStays
  BY <1>0, <1>4 DEF LostStays, Lost
<1>8. QuitStays
  BY <1>0, <1>4 DEF QuitStays, Leaving
<1>9. StreamsStay
  BY <1>0, <1>4, <1>5 DEF StreamsStay, AttFields, AttSet
<1>10. NoneActivated
  BY <1>1, <1>4, <1>5 DEF NoneActivated, Active, AttSet
<1>11. SameDebts
  BY <1>0, <1>4 DEF SameDebts
<1>12. NoneIndebted
  BY <1>0, <1>4 DEF NoneIndebted
<1>13. NoneRevived
  BY <1>0, <1>4 DEF NoneRevived
<1>14. SameOwners
  BY <1>0, <1>4 DEF SameOwners
<1>15. NoneSent
  BY <1>0, <1>4, SameSent
<1>16. NoneTaken
  BY <1>0, <1>4 DEF NoneTaken
<1>17. SameClosed
  BY <1>0, <1>4 DEF SameClosed
<1>18. SameReaders
  BY <1>0, <1>4 DEF SameReaders
<1>19. ConnOwned' /\ ReadersLinked' /\ OneConn' /\ OpenActive' /\ OpenRead'
  BY <1>4 DEF IInv, ConnOwned, ReadersLinked, OneConn, OpenActive, OpenRead, Lost
<1>20. AttemptsLinked'
  BY <1>3, <1>4, <1>5 DEF IInv, AttemptsLinked, AttSet
<1>21. Locked'
  BY <1>1, <1>4, <1>5 DEF IInv, Locked, Holding, Active, AttSet
<1>22. Turns'
  BY <1>4, <1>5 DEF IInv, Turns, Leaving, AttSet
<1>23. Unused'
  BY <1>0, <1>4, <1>5 DEF IInv, Unused, Early, AttSet
<1>24. OneSession'
  BY <1>0, <1>10, <1>16, SessionFrame
<1>25. EventsLinked'
  BY <1>0, <1>10, <1>14, <1>15, LinkedFrame
<1>26. ConnKept'
  BY <1>3, <1>4, <1>5, NoneApart DEF IInv, ConnKept, Kept, Lost, AttSet
<1>27. ClosedLast'
  BY <1>0, <1>7, <1>10, <1>17, <1>18, ClosedFrame
<1>28. OwesCurrent'
  BY <1>0, <1>7, <1>8, <1>9, <1>11, OwesFrame
<1>29. EventsCurrent'
  BY <1>0, <1>7, <1>8, <1>10, <1>12, <1>13, <1>15, EventsFrame
<1> QED
  BY <1>6, <1>19, <1>20, <1>21, <1>22, <1>23, <1>24, <1>25, <1>26, <1>27, <1>28, <1>29 DEF IInv

\* A dial that fails changes the attempt only.
LEMMA DialFailsStep ==
  ASSUME IInv, NEW a \in Attempts, DialFails(a)
  PROVE  IInv'
<1>0. IInv /\ Types /\ SessFields /\ AttFields /\ ChanFields /\ EventFields /\ ConnFields /\ OwesFields /\ ReaderFields
  BY FieldsTyped DEF IInv, Fields
<1>1. PICK s \in Sessions : s = att[a].sess
  BY <1>0 DEF IInv, AttemptsLinked, DialFails, At
<1>2. /\ att[a].at = "connect"
      /\ UNCHANGED <<store, chan, conns, reader, client, open, removal, mixed, deserted, panicked>>
  BY <1>0, <1>1 DEF DialFails, At, upstream, downstream
<1>3. AttSet(a, "gone", None, None, "failed")
  BY <1>0, <1>1, <1>2, Returnings DEF DialFails
<1>4. SessSet(s, None, sess[s].conn, sess[s].active, sess[s].told)
  <2>1. sess \in [Sessions -> SessionRec]
    BY <1>0 DEF Types
  <2> QED
    BY <1>0, <1>1, <1>2, <2>1 DEF DialFails, SessSet, SessionRec
<1>5. Types'
  BY <1>0, <1>2, <1>3, <1>4 DEF Types, AttSet, SessSet
<1>6. LostStays
  BY <1>0, <1>2, <1>4 DEF LostStays, Lost, SessSet
<1>7. QuitStays
  BY <1>0, <1>2 DEF QuitStays, Leaving
<1>8. StreamsStay
  BY <1>0, <1>2, <1>3 DEF StreamsStay, AttFields, AttSet
<1>9. NoneActivated
  BY <1>0, <1>2, <1>3 DEF NoneActivated, Active, AttSet
<1>10. SameDebts
  BY <1>0, <1>2 DEF SameDebts
<1>11. NoneIndebted
  BY <1>0, <1>2 DEF NoneIndebted
<1>12. NoneRevived
  BY <1>0, <1>2 DEF NoneRevived
<1>13. SameOwners
  BY <1>0, <1>2 DEF SameOwners
<1>14. NoneSent
  BY <1>0, <1>2, SameSent
<1>15. NoneTaken
  BY <1>0, <1>2, <1>4 DEF NoneTaken, SessSet
<1>16. SameClosed
  BY <1>0, <1>2 DEF SameClosed
<1>17. NoneHeld
  BY <1>0, <1>2 DEF NoneHeld
<1>18. SameReaders
  BY <1>0, <1>2 DEF SameReaders
<1>19. ReadersLinked'
  BY <1>0, <1>2 DEF IInv, ReadersLinked
<1>20. AttemptsLinked'
  BY <1>2, <1>3 DEF IInv, AttemptsLinked, Connected, Active, AttSet
<1>21. Locked'
  BY <1>1, <1>2, <1>3, <1>4 DEF IInv, Locked, Holding, Active, AttemptsLinked, AttSet, SessSet
<1>22. Turns'
  BY <1>2, <1>3 DEF IInv, Turns, Leaving, AttSet
<1>23. ConnOwned'
  BY <1>2, <1>4 DEF IInv, ConnOwned, SessSet
<1>24. Unused'
  BY <1>2, <1>3, <1>4 DEF IInv, Unused, Early, AttSet, SessSet
<1>25. OneSession'
  BY <1>0, <1>9, <1>15, SessionFrame
<1>26. EventsLinked'
  BY <1>0, <1>9, <1>13, <1>14, LinkedFrame
<1>27. ConnKept'
  BY <1>0, <1>2, <1>3, <1>4, NoneApart DEF IInv, ConnKept, Kept, Lost, Connected, Active, AttemptsLinked,
         ConnFields, AttSet, SessSet
<1>28. OneConn'
  BY <1>0, <1>2, <1>4 DEF IInv, OneConn, Lost, ConnFields, SessSet
<1>29. OpenActive'
  BY <1>2, <1>4 DEF IInv, OpenActive, Lost, SessSet
<1>30. OpenRead'
  BY <1>0, <1>6, <1>16, <1>17, OpenFrame
<1>31. ClosedLast'
  BY <1>0, <1>6, <1>9, <1>16, <1>18, ClosedFrame
<1>32. OwesCurrent'
  BY <1>0, <1>6, <1>7, <1>8, <1>10, OwesFrame
<1>33. EventsCurrent'
  BY <1>0, <1>6, <1>7, <1>9, <1>11, <1>12, <1>14, EventsFrame
<1> QED
  BY <1>5, <1>19, <1>20, <1>21, <1>22, <1>23, <1>24, <1>25, <1>26, <1>27, <1>28, <1>29, <1>30, <1>31, <1>32,
         <1>33 DEF IInv

\* The rejected handshake.
LEMMA FallBackStep ==
  ASSUME IInv, NEW a \in Attempts, att[a].at = "connect", Goes(a, "http"),
         UNCHANGED <<store, sess, chan, conns, reader, client, open, removal, mixed, deserted, panicked>>
  PROVE  IInv'
<1>0. IInv /\ Types /\ SessFields /\ AttFields /\ ChanFields /\ EventFields /\ ConnFields /\ OwesFields /\ ReaderFields
  BY FieldsTyped DEF IInv, Fields
<1>1. PICK s \in Sessions : s = att[a].sess
  BY <1>0 DEF IInv, AttemptsLinked
<1>2. UNCHANGED <<store, sess, chan, conns, reader, client, open, removal, mixed, deserted, panicked>>
  BY <1>0, <1>1 DEF Types
<1>3. AttSet(a, "http", s, att[a].conn, att[a].res)
  BY <1>0, <1>1, <1>2, Goings DEF Places
<1>4. Types'
  BY <1>0, <1>3 DEF Types, AttSet
<1>5. LostStays
  BY <1>0, <1>2 DEF LostStays, Lost
<1>6. QuitStays
  BY <1>0, <1>2 DEF QuitStays, Leaving
<1>7. StreamsStay
  BY <1>0, <1>2, <1>3 DEF StreamsStay, AttFields, AttSet
<1>8. NoneActivated
  BY <1>0, <1>2, <1>3 DEF NoneActivated, Active, AttSet
<1>9. SameDebts
  BY <1>0, <1>2 DEF SameDebts
<1>10. NoneIndebted
  BY <1>0, <1>2 DEF NoneIndebted
<1>11. NoneRevived
  BY <1>0, <1>2 DEF NoneRevived
<1>12. SameOwners
  BY <1>0, <1>2 DEF SameOwners
<1>13. NoneSent
  BY <1>0, <1>2, SameSent
<1>14. NoneTaken
  BY <1>0, <1>2 DEF NoneTaken
<1>15. SameClosed
  BY <1>0, <1>2 DEF SameClosed
<1>16. SameReaders
  BY <1>0, <1>2 DEF SameReaders
<1>17. ConnOwned' /\ ReadersLinked' /\ OneConn' /\ OpenActive' /\ OpenRead'
  BY DEF IInv, ConnOwned, ReadersLinked, OneConn, OpenActive, OpenRead, Lost
<1>18. AttemptsLinked'
  BY <1>3 DEF IInv, AttemptsLinked, Connected, Active, AttSet
<1>19. Locked'
  BY <1>1, <1>3 DEF IInv, Locked, Holding, AttSet
<1>20. Turns'
  BY <1>3 DEF IInv, Turns, Leaving, AttSet
<1>21. Unused'
  BY <1>3 DEF IInv, Unused, Early, AttSet
<1>22. OneSession'
  BY <1>0, <1>8, <1>14, SessionFrame
<1>23. EventsLinked'
  BY <1>0, <1>8, <1>12, <1>13, LinkedFrame
<1>24. ConnKept'
  BY <1>3 DEF IInv, ConnKept, Kept, Lost, Connected, Active, AttSet
<1>25. ClosedLast'
  BY <1>0, <1>5, <1>8, <1>15, <1>16, ClosedFrame
<1>26. OwesCurrent'
  BY <1>0, <1>5, <1>6, <1>7, <1>9, OwesFrame
<1>27. EventsCurrent'
  BY <1>0, <1>5, <1>6, <1>8, <1>10, <1>11, <1>13, EventsFrame
<1> QED
  BY <1>4, <1>17, <1>18, <1>19, <1>20, <1>21, <1>22, <1>23, <1>24, <1>25, <1>26, <1>27 DEF IInv

\* An attempt that returns before it has a connection leaves nothing behind.
LEMMA GiveUpStep ==
  ASSUME IInv, NEW a \in Attempts, att[a].at \in {"connect", "http"}, NEW res \in {"ok", "failed"}, Returns(a, res),
         UNCHANGED <<store, sess, chan, conns, reader, client, open, removal, mixed, deserted, panicked>>
  PROVE  IInv'
<1>0. IInv /\ Types /\ SessFields /\ AttFields /\ ChanFields /\ EventFields /\ ConnFields /\ OwesFields /\ ReaderFields
  BY FieldsTyped DEF IInv, Fields
<1>1. PICK s \in Sessions : s = att[a].sess
  BY <1>0 DEF IInv, AttemptsLinked
<1>2. UNCHANGED <<store, sess, chan, conns, reader, client, open, removal, mixed, deserted, panicked>>
  BY <1>0, <1>1 DEF Types
<1>3. AttSet(a, "gone", None, None, res)
  BY <1>0, <1>1, <1>2, Returnings
<1>4. Types'
  BY <1>0, <1>3 DEF Types, AttSet
<1>5. LostStays
  BY <1>0, <1>2 DEF LostStays, Lost
<1>6. QuitStays
  BY <1>0, <1>2 DEF QuitStays, Leaving
<1>7. StreamsStay
  BY <1>0, <1>2, <1>3 DEF StreamsStay, AttFields, AttSet
<1>8. NoneActivated
  BY <1>0, <1>2, <1>3 DEF NoneActivated, Active, AttSet
<1>9. SameDebts
  BY <1>0, <1>2 DEF SameDebts
<1>10. NoneIndebted
  BY <1>0, <1>2 DEF NoneIndebted
<1>11. NoneRevived
  BY <1>0, <1>2 DEF NoneRevived
<1>12. SameOwners
  BY <1>0, <1>2 DEF SameOwners
<1>13. NoneSent
  BY <1>0, <1>2, SameSent
<1>14. NoneTaken
  BY <1>0, <1>2 DEF NoneTaken
<1>15. SameClosed
  BY <1>0, <1>2 DEF SameClosed
<1>16. SameReaders
  BY <1>0, <1>2 DEF SameReaders
<1>17. ConnOwned' /\ ReadersLinked' /\ OneConn' /\ OpenActive' /\ OpenRead'
  BY DEF IInv, ConnOwned, ReadersLinked, OneConn, OpenActive, OpenRead, Lost
<1>18. AttemptsLinked'
  BY <1>3 DEF IInv, AttemptsLinked, Connected, Active, AttSet
<1>19. Locked'
  BY <1>3 DEF IInv, Locked, Holding, Active, SessFields, AttSet
<1>20. Turns'
  BY <1>3 DEF IInv, Turns, Leaving, AttSet
<1>21. Unused'
  BY <1>3 DEF IInv, Unused, Early, AttSet
<1>22. OneSession'
  BY <1>0, <1>8, <1>14, SessionFrame
<1>23. EventsLinked'
  BY <1>0, <1>8, <1>12, <1>13, LinkedFrame
<1>24. ConnKept'
  BY <1>3 DEF IInv, ConnKept, Kept, Lost, Connected, Active, AttSet
<1>25. ClosedLast'
  BY <1>0, <1>5, <1>8, <1>15, <1>16, ClosedFrame
<1>26. OwesCurrent'
  BY <1>0, <1>5, <1>6, <1>7, <1>9, OwesFrame
<1>27. EventsCurrent'
  BY <1>0, <1>5, <1>6, <1>8, <1>10, <1>11, <1>13, EventsFrame
<1> QED
  BY <1>4, <1>17, <1>18, <1>19, <1>20, <1>21, <1>22, <1>23, <1>24, <1>25, <1>26, <1>27 DEF IInv

\* After a lost connection a dial that fails ends the attempt.
LEMMA RedialFailsStep ==
  ASSUME IInv, NEW a \in Attempts, RedialFails(a)
  PROVE  IInv'
<1>0. IInv /\ Types /\ SessFields /\ AttFields /\ ChanFields /\ EventFields /\ ConnFields /\ OwesFields /\ ReaderFields
  BY FieldsTyped DEF IInv, Fields
<1>1. PICK s \in Sessions : s = att[a].sess
  BY <1>0 DEF IInv, AttemptsLinked, RedialFails, At
<1>2. /\ att[a].at = "redial"
      /\ UNCHANGED <<store, conns, reader, client, open, removal, mixed, deserted, panicked>>
  BY <1>0, <1>1 DEF RedialFails, At, upstream, downstream
<1>3. AttSet(a, "gone", None, None, "failed")
  BY <1>0, <1>1, <1>2, Returnings DEF RedialFails
<1>4. SessSet(s, None, sess[s].conn, IF sess[s].active = a THEN None ELSE sess[s].active, sess[s].told)
  BY <1>0, <1>1, <1>2, Releasings DEF RedialFails
<1>5. ChanSet(a, chan[a].msgs, chan[a].closed)
  BY <1>0, <1>1, <1>2, Doings DEF RedialFails
<1>6. Types'
  BY <1>0, <1>2, <1>3, <1>4, <1>5 DEF Types, AttSet, SessSet, ChanSet
<1>7. LostStays
  BY <1>0, <1>2, <1>4 DEF LostStays, Lost, SessSet
<1>8. QuitStays
  BY <1>0, <1>2 DEF QuitStays, Leaving
<1>9. StreamsStay
  BY <1>0, <1>2, <1>3 DEF StreamsStay, AttFields, AttSet
<1>10. NoneActivated
  BY <1>0, <1>2, <1>3 DEF NoneActivated, Active, AttSet
<1>11. SameDebts
  BY <1>0, <1>2 DEF SameDebts
<1>12. NoneIndebted
  BY <1>0, <1>2 DEF NoneIndebted
<1>13. NoneRevived
  BY <1>0, <1>2 DEF NoneRevived
<1>14. SameOwners
  BY <1>0, <1>2 DEF SameOwners
<1>15. NoneSent
  BY <1>0, <1>2, <1>5, SameSent DEF ChanSet
<1>16. NoneTaken
  BY <1>0, <1>2, <1>4 DEF NoneTaken, SessSet
<1>17. SameClosed
  BY <1>0, <1>2, <1>5 DEF SameClosed, ChanSet
<1>18. NoneHeld
  BY <1>0, <1>2 DEF NoneHeld
<1>19. SameReaders
  BY <1>0, <1>2 DEF SameReaders
<1>20. ReadersLinked'
  BY <1>0, <1>2 DEF IInv, ReadersLinked
<1>21. AttemptsLinked'
  BY <1>2, <1>3 DEF IInv, AttemptsLinked, Connected, Active, AttSet
<1>22. Locked'
  BY <1>1, <1>2, <1>3, <1>4 DEF IInv, Locked, Holding, Active, AttemptsLinked, AttSet, SessSet
<1>23. Turns'
  BY <1>2, <1>3 DEF IInv, Turns, Leaving, AttSet
<1>24. ConnOwned'
  BY <1>2, <1>4 DEF IInv, ConnOwned, SessSet
<1>25. Unused'
  BY <1>2, <1>3, <1>4, <1>5, NoneApart DEF IInv, Unused, Early, AttSet, SessSet, ChanSet
<1>26. OneSession'
  BY <1>0, <1>10, <1>16, SessionFrame
<1>27. EventsLinked'
  BY <1>0, <1>10, <1>14, <1>15, LinkedFrame
<1>28. ConnKept'
  BY <1>0, <1>2, <1>3, <1>4, NoneApart DEF IInv, ConnKept, Kept, Lost, Connected, Active, AttemptsLinked,
         ConnFields, AttFields, AttSet, SessSet
<1>29. OneConn'
  BY <1>0, <1>2, <1>4 DEF IInv, OneConn, Lost, ConnFields, SessSet
<1>30. OpenActive'
  BY <1>0, <1>2, <1>4, <1>5, NoneApart DEF IInv, OpenActive, Lost, SessFields, ChanFields, SessSet, ChanSet
<1>31. OpenRead'
  BY <1>0, <1>7, <1>17, <1>18, OpenFrame
<1>32. ClosedLast'
  BY <1>0, <1>7, <1>10, <1>17, <1>19, ClosedFrame
<1>33. OwesCurrent'
  BY <1>0, <1>7, <1>8, <1>9, <1>11, OwesFrame
<1>34. EventsCurrent'
  BY <1>0, <1>7, <1>8, <1>10, <1>12, <1>13, <1>15, EventsFrame
<1> QED
  BY <1>6, <1>20, <1>21, <1>22, <1>23, <1>24, <1>25, <1>26, <1>27, <1>28, <1>29, <1>30, <1>31, <1>32, <1>33,
         <1>34 DEF IInv

\* The end of an attempt clears its channel and returns reqMu.
LEMMA FinishStep ==
  ASSUME IInv, NEW a \in Attempts, Finish(a)
  PROVE  IInv'
<1>0. IInv /\ Types /\ SessFields /\ AttFields /\ ChanFields /\ EventFields /\ ConnFields /\ OwesFields /\ ReaderFields
  BY FieldsTyped DEF IInv, Fields
<1>1. PICK s \in Sessions : s = att[a].sess
  BY <1>0 DEF IInv, AttemptsLinked, Finish, At
<1>2. /\ att[a].at = "finish"
      /\ UNCHANGED <<store, conns, reader, client, open, removal, mixed, deserted, panicked>>
  BY <1>0, <1>1 DEF Finish, At, upstream, downstream
<1>3. AttSet(a, "gone", None, None, att[a].res)
  BY <1>0, <1>1, <1>2, Returnings DEF Finish, AttFields
<1>4. SessSet(s, None, sess[s].conn, IF sess[s].active = a THEN None ELSE sess[s].active, sess[s].told)
  BY <1>0, <1>1, <1>2, Releasings DEF Finish
<1>5. ChanSet(a, chan[a].msgs, chan[a].closed)
  BY <1>0, <1>1, <1>2, Doings DEF Finish
<1>6. Types'
  BY <1>0, <1>2, <1>3, <1>4, <1>5, NoneApart DEF Types, AttSet, SessSet, ChanSet
<1>7. LostStays
  BY <1>0, <1>2, <1>4 DEF LostStays, Lost, SessSet
<1>8. QuitStays
  BY <1>0, <1>2 DEF QuitStays, Leaving
<1>9. StreamsStay
  BY <1>0, <1>2, <1>3 DEF StreamsStay, AttFields, AttSet
<1>10. NoneActivated
  BY <1>0, <1>2, <1>3 DEF NoneActivated, Active, AttSet
<1>11. SameDebts
  BY <1>0, <1>2 DEF SameDebts
<1>12. NoneIndebted
  BY <1>0, <1>2 DEF NoneIndebted
<1>13. NoneRevived
  BY <1>0, <1>2 DEF NoneRevived
<1>14. SameOwners
  BY <1>0, <1>2 DEF SameOwners
<1>15. NoneSent
  BY <1>0, <1>2, <1>5, SameSent DEF ChanSet
<1>16. NoneTaken
  BY <1>0, <1>2, <1>4 DEF NoneTaken, SessSet
<1>17. SameClosed
  BY <1>0, <1>2, <1>5 DEF SameClosed, ChanSet
<1>18. NoneHeld
  BY <1>0, <1>2 DEF NoneHeld
<1>19. SameReaders
  BY <1>0, <1>2 DEF SameReaders
<1>20. ReadersLinked'
  BY <1>0, <1>2 DEF IInv, ReadersLinked
<1>21. AttemptsLinked'
  BY <1>2, <1>3 DEF IInv, AttemptsLinked, Connected, Active, AttSet
<1>22. Locked'
  BY <1>1, <1>2, <1>3, <1>4 DEF IInv, Locked, Holding, Active, AttemptsLinked, AttSet, SessSet
<1>23. Turns'
  BY <1>2, <1>3 DEF IInv, Turns, Leaving, AttSet
<1>24. ConnOwned'
  BY <1>2, <1>4 DEF IInv, ConnOwned, SessSet
<1>25. Unused'
  BY <1>2, <1>3, <1>4, <1>5, NoneApart DEF IInv, Unused, Early, AttSet, SessSet, ChanSet
<1>26. OneSession'
  BY <1>0, <1>10, <1>16, SessionFrame
<1>27. EventsLinked'
  BY <1>0, <1>10, <1>14, <1>15, LinkedFrame
<1>28. ConnKept'
  BY <1>0, <1>2, <1>3, <1>4, SMTT(60) DEF IInv, ConnKept, Kept, Lost, Connected, Active, AttemptsLinked, ConnFields,
         AttSet, SessSet
<1>29. OneConn'
  BY <1>0, <1>2, <1>4 DEF IInv, OneConn, Lost, ConnFields, SessSet
<1>30. OpenActive'
  BY <1>0, <1>2, <1>4, <1>5 DEF IInv, OpenActive, Lost, SessFields, SessSet, ChanSet
<1>31. OpenRead'
  BY <1>0, <1>7, <1>17, <1>18, OpenFrame
<1>32. ClosedLast'
  BY <1>0, <1>7, <1>10, <1>17, <1>19, ClosedFrame
<1>33. OwesCurrent'
  BY <1>0, <1>7, <1>8, <1>9, <1>11, OwesFrame
<1>34. EventsCurrent'
  BY <1>0, <1>7, <1>8, <1>10, <1>12, <1>13, <1>15, EventsFrame
<1> QED
  BY <1>6, <1>20, <1>21, <1>22, <1>23, <1>24, <1>25, <1>26, <1>27, <1>28, <1>29, <1>30, <1>31, <1>32, <1>33,
         <1>34 DEF IInv

\* A second write that fails ends the attempt as the first would.
LEMMA ResendFailsStep ==
  ASSUME IInv, NEW a \in Attempts, ResendFails(a)
  PROVE  IInv'
<1>0. IInv /\ Types /\ SessFields /\ AttFields /\ ChanFields /\ EventFields /\ ConnFields /\ OwesFields /\ ReaderFields
  BY FieldsTyped DEF IInv, Fields
<1>1. PICK s \in Sessions : s = att[a].sess
  BY <1>0 DEF IInv, AttemptsLinked, ResendFails, At
<1>2. PICK c \in Conns : c = att[a].conn
  BY DEF IInv, AttemptsLinked, ResendFails, At, Connected, Active
<1>3. /\ att[a].at = "resend" /\ conns[c].state # "up" /\ conns[c].state # "none"
      /\ conns[c].sess \in {s, None}
      /\ UNCHANGED <<store, reader, client, open, removal, mixed, deserted, panicked>>
  BY <1>1, <1>2 DEF IInv, AttemptsLinked, Connected, Active, ResendFails, At, downstream
<1>4. AttSet(a, "gone", None, None, "failed")
  BY <1>0, <1>1, <1>2, <1>3, Returnings DEF ResendFails
<1>5. SessSet(s, None, IF sess[s].conn = c THEN None ELSE sess[s].conn,
              IF sess[s].active = a THEN None ELSE sess[s].active, sess[s].told \/ sess[s].conn = c)
  <2> DEFINE ss == Forget(sess, s, c)
  <2>1. /\ ss \in [Sessions -> SessionRec] /\ \A t \in Sessions : t # s => ss[t] = sess[t]
        /\ ss[s].active = sess[s].active /\ ss[s].conn = (IF sess[s].conn = c THEN None ELSE sess[s].conn)
        /\ ss[s].told = (sess[s].told \/ sess[s].conn = c)
    <3>1. CASE sess[s].conn = c
      BY <1>0, <3>1 DEF Types, SessionRec, Forget
    <3>2. CASE sess[s].conn # c
      BY <1>0, <3>2 DEF Types, SessionRec, Forget, SessFields
    <3> QED
      BY <3>1, <3>2
  <2>2. sess' = Released(ss, a)
    BY <1>0, <1>1, <1>2, <1>3 DEF ResendFails
  <2> HIDE DEF ss
  <2>3. /\ sess' \in [Sessions -> SessionRec] /\ \A t \in Sessions : t # s => sess'[t] = ss[t]
        /\ sess'[s].lock = None /\ sess'[s].conn = ss[s].conn /\ sess'[s].told = ss[s].told
        /\ sess'[s].active = IF ss[s].active = a THEN None ELSE ss[s].active
    BY <1>1, <2>1, <2>2, ReleasedOf
  <2> QED
    BY <2>1, <2>3 DEF SessSet
<1>6. ConnSet(c, IF sess[s].conn = c THEN "shut" ELSE conns[c].state, conns[c].sess, conns[c].owes)
  BY <1>0, <1>1, <1>2, <1>3, Shuttings DEF ResendFails
<1>7. ChanSet(a, chan[a].msgs, chan[a].closed)
  BY <1>0, <1>1, <1>2, <1>3, Doings DEF ResendFails
<1>8. Types'
  BY <1>0, <1>3, <1>4, <1>5, <1>6, <1>7 DEF Types, AttSet, SessSet, ConnSet, ChanSet
<1>9. LostStays
  BY <1>0, <1>3, <1>5 DEF LostStays, Lost, SessSet
<1>10. QuitStays
  BY <1>0, <1>3 DEF QuitStays, Leaving
<1>11. StreamsStay
  BY <1>0, <1>3, <1>4 DEF StreamsStay, AttFields, AttSet
<1>12. NoneActivated
  BY <1>0, <1>3, <1>4 DEF NoneActivated, Active, AttSet
<1>13. SameDebts
  BY <1>0, <1>3, <1>6 DEF SameDebts, ConnSet
<1>14. NoneIndebted
  BY <1>0, <1>3, <1>6 DEF NoneIndebted, ConnSet
<1>15. NoneRevived
  BY <1>0, <1>3, <1>6 DEF NoneRevived, ConnSet
<1>16. SameOwners
  BY <1>0, <1>3, <1>6 DEF SameOwners, ConnSet
<1>17. NoneSent
  BY <1>0, <1>3, <1>7, SameSent DEF ChanSet
<1>18. NoneTaken
  BY <1>3, <1>5, <1>6 DEF NoneTaken, SessSet, ConnSet
<1>19. SameClosed
  BY <1>0, <1>3, <1>7 DEF SameClosed, ChanSet
<1>20. NoneHeld
  BY <1>0, <1>3, <1>6 DEF NoneHeld, ConnSet
<1>21. SameReaders
  BY <1>0, <1>3, <1>6 DEF SameReaders, ConnSet
<1>22. AttemptsLinked'
  BY <1>4, <1>6 DEF IInv, AttemptsLinked, Connected, Active, AttSet, ConnSet
<1>23. Locked'
  BY <1>1, <1>3, <1>4, <1>5 DEF IInv, Locked, Holding, Active, AttemptsLinked, AttSet, SessSet
<1>24. Turns'
  BY <1>3, <1>4 DEF IInv, Turns, Leaving, AttSet
<1>25. ConnOwned'
  BY <1>0, <1>5, <1>6 DEF IInv, ConnOwned, SessFields, SessSet, ConnSet
<1>26. ReadersLinked'
  BY <1>3, <1>6 DEF IInv, ReadersLinked, ConnSet
<1>27. Unused'
  BY <1>3, <1>4, <1>5, <1>7, NoneApart DEF IInv, Unused, Early, AttSet, SessSet, ChanSet
<1>28. OneSession'
  BY <1>0, <1>12, <1>18, SessionFrame
<1>29. EventsLinked'
  BY <1>0, <1>12, <1>16, <1>17, LinkedFrame
<1>30. ConnKept'
  <2>1. ~Lost(s) => sess[s].conn = c
    BY <1>1, <1>2, <1>3 DEF IInv, ConnKept, Kept, Turns, Connected, Active
  <2>2. Lost(s)'
    BY <1>3, <1>5, <2>1 DEF Lost, SessSet
  <2>3. \A t \in Sessions : t # s => (Lost(t) <=> Lost(t)')
    BY <1>3, <1>5 DEF Lost, SessSet
  <2>4. LostStays /\ KeptStays
    BY <1>3, <1>5, <2>2, <2>3 DEF LostStays, KeptStays, Kept, SessSet
  <2>5. NoneDialled
    BY <1>6 DEF NoneDialled, ConnSet
  <2>6. \A b \in Attempts : att'[b].at \in Connected => ConnectedBefore(b) \/ (att'[b].sess = s /\ Lost(s)')
    BY <1>4 DEF ConnectedBefore, AttSet, Connected, Active
  <2> QED
    BY <1>0, <2>4, <2>5, <2>6, KeptFrame
<1>31. OneConn'
  <2>1. LostStays
    BY <1>0, <1>3, <1>5 DEF LostStays, Lost, SessSet, SessFields
  <2>2. NoneDialled
    BY <1>6 DEF NoneDialled, ConnSet
  <2> QED
    BY <1>0, <2>1, <2>2, OneConnFrame
<1>32. OpenActive'
  BY <1>0, <1>3, <1>5, <1>7 DEF IInv, OpenActive, Lost, SessFields, SessSet, ChanSet
<1>33. OpenRead'
  BY <1>0, <1>9, <1>19, <1>20, OpenFrame
<1>34. ClosedLast'
  BY <1>0, <1>9, <1>12, <1>19, <1>21, ClosedFrame
<1>35. OwesCurrent'
  BY <1>0, <1>9, <1>10, <1>11, <1>13, OwesFrame
<1>36. EventsCurrent'
  BY <1>0, <1>9, <1>10, <1>12, <1>14, <1>15, <1>17, EventsFrame
<1> QED
  BY <1>8, <1>22, <1>23, <1>24, <1>25, <1>26, <1>27, <1>28, <1>29, <1>30, <1>31, <1>32, <1>33, <1>34, <1>35,
         <1>36 DEF IInv

\* The channel of an attempt is its own and empty when it is made active.
LEMMA ActivateStep ==
  ASSUME IInv, NEW a \in Attempts, Activate(a)
  PROVE  IInv'
<1>0. IInv /\ Types /\ SessFields /\ AttFields /\ ChanFields /\ EventFields /\ ConnFields /\ OwesFields /\ ReaderFields
  BY FieldsTyped DEF IInv, Fields
<1>1. PICK s \in Sessions : s = att[a].sess
  BY <1>0 DEF IInv, AttemptsLinked, Activate, At
<1>2. chan[a] = Fresh /\ (\A t \in Sessions : sess[t].active # a) /\ (\A c \in Conns : reader[c].ch # a)
  BY <1>0 DEF IInv, Unused, Early, Activate, At
<1>3. /\ att[a].at = "activate"
      /\ UNCHANGED <<store, conns, reader, client, open, removal, mixed, deserted, panicked>>
  BY DEF Activate, At, upstream, downstream
<1>4. AttSet(a, "send", s, att[a].conn, att[a].res)
  BY <1>0, <1>1, Goings DEF Activate, Places
<1>5. SessSet(s, sess[s].lock, sess[s].conn, a, sess[s].told)
  BY <1>0, <1>1 DEF Activate, SessSet, Types, SessionRec
<1>6. /\ chan' \in [Attempts -> ChanRec]
      /\ \A b \in Attempts : /\ chan'[b].msgs = chan[b].msgs /\ chan'[b].closed = chan[b].closed
                             /\ b # sess[s].active => chan'[b] = chan[b]
  <2>1. CASE sess[s].active = None
    BY <1>0, <1>1, <2>1 DEF Activate, Types
  <2>2. CASE sess[s].active # None
    BY <1>0, <1>1 DEF Activate, Types, ChanRec
  <2> QED
    BY <2>1, <2>2
<1>7. Types'
  BY <1>0, <1>3, <1>4, <1>5, <1>6 DEF Types, AttSet, SessSet
<1>8. LostStays
  BY <1>0, <1>3, <1>5 DEF LostStays, Lost, SessSet
<1>9. QuitStays
  BY <1>0, <1>3 DEF QuitStays, Leaving
<1>10. StreamsStay
  BY <1>0, <1>3, <1>4 DEF StreamsStay, AttFields, AttSet
<1>11. SameDebts
  BY <1>0, <1>3 DEF SameDebts
<1>12. SameClosed
  BY <1>0, <1>3, <1>6 DEF SameClosed, ChanSet
<1>13. NoneHeld
  BY <1>0, <1>3 DEF NoneHeld
<1>14. ReadersLinked'
  BY <1>0, <1>3 DEF IInv, ReadersLinked
<1>15. AttemptsLinked'
  BY <1>1, <1>3, <1>4 DEF IInv, AttemptsLinked, Connected, AttSet
<1>16. Locked'
  BY <1>1, <1>3, <1>4, <1>5 DEF IInv, Locked, Holding, Active, AttemptsLinked, AttSet, SessSet
<1>17. Turns'
  BY <1>3, <1>4 DEF IInv, Turns, Leaving, AttSet
<1>18. ConnOwned'
  BY <1>3, <1>5 DEF IInv, ConnOwned, SessSet
<1>19. Unused'
  BY <1>3, <1>4, <1>5, <1>6, NoneApart DEF IInv, Unused, Early, ChanFields, ReaderFields, AttSet, SessSet
<1>20. OneSession'
  BY <1>2, <1>3, <1>4, <1>5 DEF IInv, OneSession, AttSet, SessSet
<1>21. EventsLinked'
  <2>1. chan'[a].msgs = <<>>
    BY <1>0, <1>1, <1>2, <1>3, <1>6 DEF Fresh
  <2>2. \A b \in Attempts : b # a => att'[b] = att[b] /\ chan'[b].msgs = chan[b].msgs
    BY <1>4, <1>6 DEF AttSet
  <2> QED
    BY <1>3, <2>1, <2>2, SMTT(60) DEF IInv, EventsLinked
<1>22. ConnKept'
  <2>1. KeptStays /\ NoneDialled
    BY <1>3, <1>5 DEF KeptStays, Kept, Lost, NoneDialled, SessSet
  <2>2. \A b \in Attempts : att'[b].at \in Connected => ConnectedBefore(b)
    BY <1>1, <1>3, <1>4 DEF ConnectedBefore, AttSet, Connected
  <2> QED
    BY <1>0, <1>8, <2>1, <2>2, KeptFrame
<1>23. OneConn'
  BY <1>0, <1>3, <1>5 DEF IInv, OneConn, Lost, ConnFields, SessSet
<1>24. OpenActive'
  <2> SUFFICES ASSUME NEW t \in Sessions, (sess[t].active # None /\ ~Lost(t))' PROVE ~chan'[sess'[t].active].closed
    BY DEF OpenActive
  <2>1. CASE t = s
    BY <1>2, <1>5, <1>6, <2>1 DEF SessSet, Fresh
  <2>2. CASE t # s
    BY <1>0, <1>3, <1>5, <1>6, <2>2 DEF IInv, OpenActive, SessSet, Lost, SessFields
  <2> QED
    BY <2>1, <2>2
<1>25. OpenRead'
  BY <1>0, <1>8, <1>12, <1>13, OpenFrame
<1>26. ClosedLast'
  <2> SUFFICES ASSUME NEW b \in Attempts, NEW d \in Conns,
                      (att[b].at \in Active /\ chan[b].closed /\ ~Lost(att[b].sess) /\ conns[d].sess = att[b].sess)'
               PROVE  reader'[d].at = "invalidate"
    BY DEF ClosedLast
  <2>1. b # a
    BY <1>0, <1>1, <1>2, <1>3, <1>6 DEF Fresh
  <2>2. att'[b] = att[b] /\ chan[b].closed
    BY <1>4, <1>6, <2>1 DEF AttSet
  <2>3. PICK t \in Sessions : t = att[b].sess
    BY <1>0, <2>2 DEF IInv, AttemptsLinked, Active
  <2>4. ~Lost(t)
    BY <1>3, <1>5, <2>2, <2>3 DEF Lost, SessSet
  <2> QED
    BY <1>3, <2>2, <2>3, <2>4 DEF IInv, ClosedLast
<1>27. OwesCurrent'
  BY <1>0, <1>8, <1>9, <1>10, <1>11, OwesFrame
<1>28. EventsCurrent'
  <2> SUFFICES ASSUME NEW b \in Attempts, (att[b].at \in Active /\ Watched(att[b].sess))', NEW i \in 1..Len(chan'[b].msgs)
               PROVE  /\ chan'[b].msgs[i].kind # "fail" => chan'[b].msgs[i].of = b /\ att'[b].at = "stream"
                      /\ chan'[b].msgs[i].kind # "delta" => conns'[chan'[b].msgs[i].conn].owes = <<>>
                      /\ chan'[b].msgs[i].kind = "fail" => conns'[chan'[b].msgs[i].conn].state # "up"
    BY DEF EventsCurrent
  <2>1. b # a
    BY <1>0, <1>1, <1>2, <1>3, <1>6 DEF Fresh
  <2>2. att'[b] = att[b] /\ chan'[b].msgs = chan[b].msgs
    BY <1>4, <1>6, <2>1 DEF AttSet
  <2>3. PICK t \in Sessions : t = att[b].sess
    BY <1>0, <2>2 DEF IInv, AttemptsLinked, Active
  <2>4. Watched(t)
    BY <1>3, <1>5, <2>2, <2>3 DEF Watched, Leaving, Lost, SessSet
  <2> QED
    BY <1>3, <2>2, <2>3, <2>4 DEF IInv, EventsCurrent
<1> QED
  BY <1>7, <1>14, <1>15, <1>16, <1>17, <1>18, <1>19, <1>20, <1>21, <1>22, <1>23, <1>24, <1>25, <1>26, <1>27,
         <1>28 DEF IInv

\* A session that dials has no connection.
LEMMA DialStep ==
  ASSUME IInv, NEW a \in Attempts, NEW next, <<att[a].at, next>> \in From, Dial(a, next)
  PROVE  IInv'
<1>0. IInv /\ Types /\ SessFields /\ AttFields /\ ChanFields /\ EventFields /\ ConnFields /\ OwesFields /\ ReaderFields
  BY FieldsTyped DEF IInv, Fields
<1>1. PICK s \in Sessions : s = att[a].sess
  BY <1>0 DEF IInv, AttemptsLinked, From
<1>2. PICK c \in FreeConns : /\ att' = [att EXCEPT ![a].at = next, ![a].conn = c]
                             /\ conns' = [conns EXCEPT ![c] = [state |-> "up", auth |-> att[a].auth, sess |-> s, owes |-> <<>>]]
                             /\ sess' = [sess EXCEPT ![s].conn = c, ![s].auth = att[a].auth]
                             /\ reader' = [reader EXCEPT ![c].at = "read"]
  BY <1>1 DEF Dial
<1>3. /\ c \in Conns /\ conns[c].state = "none" /\ reader[c].at = "none" /\ reader[c].ch = None
      /\ conns[c].sess = None
  BY <1>0 DEF FreeConns, IInv, ReadersLinked
<1>4. (att[a].at = "connect" /\ next = "activate") \/ (att[a].at = "redial" /\ next = "resend")
  BY DEF From
<1>5. /\ sess[s].conn = None
      /\ UNCHANGED <<store, chan, client, open, removal, mixed, deserted, panicked>>
  BY <1>1 DEF Dial, downstream
<1>6. AttSet(a, next, s, c, att[a].res)
  <2>1. next \in Places
    BY <1>4 DEF Places
  <2> QED
    BY <1>0, <1>1, <1>2, <1>3, <2>1, Connectings
<1>7. ConnSet(c, "up", s, <<>>)
  <2>1. [state |-> "up", auth |-> att[a].auth, sess |-> s, owes |-> <<>>] \in ConnRec
    BY <1>0 DEF ConnRec, AttFields
  <2> QED
    BY <1>0, <1>2, <1>3, <2>1 DEF Types, ConnSet
<1>8. SessSet(s, sess[s].lock, c, sess[s].active, sess[s].told)
  <2>1. att[a].auth \in Auths \cup {None}
    BY <1>0 DEF AttFields
  <2> QED
    BY <1>0, <1>2, <1>3, <2>1, Dialled
<1>9. ReaderSet(c, "read", None)
  BY <1>0, <1>2, <1>3 DEF ReaderSet, Types, ReaderRec
<1>10. Types'
  BY <1>0, <1>5, <1>6, <1>7, <1>8, <1>9 DEF Types, AttSet, ConnSet, SessSet, ReaderSet
<1>11. LostStays
  BY <1>0, <1>5, <1>8 DEF LostStays, Lost, SessSet
<1>12. QuitStays
  BY <1>0, <1>5 DEF QuitStays, Leaving
<1>13. StreamsStay
  BY <1>4, <1>6 DEF StreamsStay, AttSet
<1>14. NoneActivated
  BY <1>2, <1>4, <1>6 DEF NoneActivated, Active, AttSet
<1>15. SameDebts
  BY <1>0, <1>5, <1>7 DEF SameDebts, ConnSet
<1>16. NoneIndebted
  BY <1>0, <1>5, <1>7 DEF NoneIndebted, ConnSet
<1>17. NoneRevived
  BY <1>2, <1>3 DEF NoneRevived
<1>18. SameOwners
  BY <1>2, <1>3 DEF SameOwners
<1>19. NoneSent
  BY <1>0, <1>5, SameSent
<1>20. NoneTaken
  BY <1>7, <1>8, <1>9 DEF NoneTaken, ConnSet, SessSet, ReaderSet
<1>21. SameClosed
  BY <1>0, <1>5 DEF SameClosed
<1>22. NoneHeld
  BY <1>7, <1>9 DEF NoneHeld, ConnSet, ReaderSet
<1>23. AttemptsLinked'
  BY <1>3, <1>4, <1>6, <1>7 DEF IInv, AttemptsLinked, AttSet, ConnSet
<1>24. Locked'
  BY <1>2, <1>4, <1>6, <1>8 DEF IInv, Locked, Holding, Active, AttemptsLinked, AttSet, SessSet
<1>25. Turns'
  BY <1>4, <1>5, <1>6 DEF IInv, Turns, Leaving, AttSet
<1>26. ConnOwned'
  BY <1>2, <1>3, <1>7, <1>8, NoneApart DEF IInv, ConnOwned, ConnSet, SessSet
<1>27. ReadersLinked'
  BY <1>7, <1>9, NoneApart DEF IInv, ReadersLinked, ConnSet, ReaderSet
<1>28. Unused'
  BY <1>2, <1>4, <1>5, <1>6, <1>8 DEF IInv, Unused, Early, AttSet, SessSet
<1>29. OneSession'
  BY <1>0, <1>14, <1>20, SessionFrame
<1>30. EventsLinked'
  BY <1>0, <1>14, <1>18, <1>19, LinkedFrame
<1>31. ConnKept'
  <2>1. sess[s].lock = a
    BY <1>1, <1>4 DEF IInv, Locked, Holding, Active
  <2>2. \A b \in Attempts : b # a => att'[b] = att[b] /\ (att[b].at \in Connected => att[b].sess # s)
    BY <1>6, <2>1 DEF IInv, Locked, Holding, Connected, AttSet
  <2>3. \A d \in Conns : d # c => conns'[d] = conns[d] /\ (conns[d].sess = s => ~Kept(s))
    BY <1>2, <1>5, NoneApart DEF IInv, ConnKept
  <2>4. \A t \in Sessions : (Kept(t)' => Kept(t)) /\ (Lost(t) => Lost(t)') /\ (t # s => sess'[t] = sess[t])
    BY <1>0, <1>5, <1>8 DEF Kept, Lost, SessSet
  <2>5. ASSUME NEW d \in Conns, conns'[d].sess # None, Kept(conns[d].sess)' PROVE sess'[conns'[d].sess].conn = d
    <3>1. CASE d = c
      BY <1>7, <1>8, <3>1 DEF ConnSet, SessSet
    <3>2. CASE d # c
      <4>1. PICK t \in Sessions : t = conns[d].sess
        BY <1>0, <2>3, <2>5, <3>2 DEF ConnFields
      <4>2. Kept(t)'
        BY <2>3, <2>5, <3>2, <4>1 DEF Kept, Lost
      <4>3. Kept(t) /\ t # s
        BY <2>3, <2>4, <3>2, <4>1, <4>2
      <4> QED
        BY <2>3, <2>4, <2>5, <3>2, <4>1 DEF IInv, ConnKept
    <3> QED
      BY <3>1, <3>2
  <2>6. ASSUME NEW b \in Attempts, att'[b].at \in Connected, Kept(att[b].sess)' PROVE sess'[att'[b].sess].conn = att'[b].conn
    <3>1. CASE b = a
      BY <1>6, <1>8, <3>1 DEF AttSet, SessSet
    <3>2. CASE b # a
      <4>1. PICK t \in Sessions : t = att[b].sess
        BY <2>2, <2>6, <3>2 DEF IInv, AttemptsLinked, Connected, Active
      <4>2. Kept(t)'
        BY <2>2, <2>6, <3>2, <4>1 DEF Kept, Lost
      <4>3. Kept(t) /\ t # s
        BY <2>2, <2>4, <2>6, <3>2, <4>1, <4>2
      <4> QED
        BY <2>2, <2>4, <2>6, <3>2, <4>1 DEF IInv, ConnKept
    <3> QED
      BY <3>1, <3>2
  <2>7. ASSUME NEW b \in Attempts, att'[b].at = "redial" PROVE Lost(att[b].sess)'
    <3>1. b # a /\ att'[b] = att[b]
      BY <1>4, <1>6, <2>7 DEF AttSet
    <3>2. PICK t \in Sessions : t = att[b].sess
      BY <1>0, <2>7, <3>1 DEF IInv, AttemptsLinked
    <3>3. Lost(t)'
      BY <2>4, <2>7, <3>1, <3>2 DEF IInv, ConnKept
    <3> QED
      BY <3>1, <3>2, <3>3 DEF Lost
  <2> QED
    BY <2>5, <2>6, <2>7 DEF ConnKept
<1>32. OneConn'
  <2>1. client.at # "gone"
    BY <1>4 DEF IInv, Turns
  <2>2. \A d \in Conns : d # c => conns'[d] = conns[d] /\ (conns[d].sess = s => Lost(s))
    BY <1>2, <1>5, <2>1, NoneApart DEF IInv, ConnKept, Kept
  <2>3. \A t \in Sessions : Lost(t) => Lost(t)'
    BY <1>5, <1>8 DEF Lost, SessSet
  <2> SUFFICES ASSUME NEW d \in Conns, NEW e \in Conns,
                      (conns[d].sess # None /\ conns[d].sess = conns[e].sess /\ ~Lost(conns[d].sess))'
               PROVE  d = e
    BY DEF OneConn
  <2>4. PICK t \in Sessions : t = conns'[d].sess
    BY <1>0, <1>7, <2>2 DEF ConnFields, ConnSet
  <2>5. ~Lost(t)
    BY <2>3, <2>4 DEF Lost
  <2>6. CASE d # c /\ e # c
    BY <2>2, <2>4, <2>5, <2>6 DEF IInv, OneConn
  <2>7. CASE d = c \/ e = c
    BY <1>7, <2>2, <2>4, <2>5, <2>7 DEF ConnSet
  <2> QED
    BY <2>6, <2>7
<1>33. OpenActive'
  BY <1>5, <1>8 DEF IInv, OpenActive, Lost, SessSet
<1>34. OpenRead'
  BY <1>0, <1>11, <1>21, <1>22, OpenFrame
<1>35. ClosedLast'
  <2> SUFFICES ASSUME NEW b \in Attempts, NEW d \in Conns,
                      (att[b].at \in Active /\ chan[b].closed /\ ~Lost(att[b].sess) /\ conns[d].sess = att[b].sess)'
               PROVE  reader'[d].at = "invalidate"
    BY DEF ClosedLast
  <2>1. att[b].at \in Active /\ att'[b].sess = att[b].sess
    BY <1>2, <1>4, <1>6 DEF AttSet, Active
  <2>2. PICK t \in Sessions : t = att[b].sess
    BY <1>0, <2>1 DEF IInv, AttemptsLinked, Active
  <2>3. ~Lost(t)
    BY <1>5, <1>8, <2>1, <2>2 DEF Lost, SessSet
  <2>4. b # a
    BY <1>4, <2>1, <2>2, <2>3 DEF IInv, ConnKept, Active
  <2>5. t # s
    BY <1>1, <1>4, <2>1, <2>2, <2>4 DEF IInv, Locked, Holding, Active
  <2>6. d # c
    BY <1>7, <2>1, <2>2, <2>5 DEF ConnSet
  <2> QED
    BY <1>2, <1>5, <2>1, <2>2, <2>3, <2>6 DEF IInv, ClosedLast
<1>36. OwesCurrent'
  BY <1>0, <1>11, <1>12, <1>13, <1>15, OwesFrame
<1>37. EventsCurrent'
  BY <1>0, <1>11, <1>12, <1>14, <1>16, <1>17, <1>19, EventsFrame
<1> QED
  BY <1>10, <1>23, <1>24, <1>25, <1>26, <1>27, <1>28, <1>29, <1>30, <1>31, <1>32, <1>33, <1>34, <1>35, <1>36,
         <1>37 DEF IInv

\* An answer is deltas and one last event.
LEMMA AnswersEnd ==
  ASSUME NEW a \in Attempts, NEW ans \in Answers(a)
  PROVE  /\ ans \in Seq(Answer)
         /\ \A i \in 1..Len(ans) : ans[i].of = a /\ (ans[i].kind = "delta" <=> i < Len(ans))
<1>1. PICK d, m, e \in Answer : /\ d = [of |-> a, kind |-> "delta"] /\ m = [of |-> a, kind |-> "completed"]
                                /\ e = [of |-> a, kind |-> "error"]
  BY DEF Answer, AnswerKinds
<1>2. d.of = a /\ m.of = a /\ e.of = a /\ d.kind = "delta" /\ m.kind = "completed" /\ e.kind = "error"
  BY <1>1
<1>3. ans = <<d, m>> \/ ans = <<e>>
  BY <1>1 DEF Answers
<1>4. CASE ans = <<d, m>>
  <2>1. <<d, m>> \in Seq(Answer) /\ Len(<<d, m>>) = 2 /\ <<d, m>>[1] = d /\ <<d, m>>[2] = m
    OBVIOUS
  <2> QED
    BY <1>2, <1>4, <2>1
<1>5. CASE ans = <<e>>
  <2>1. <<e>> \in Seq(Answer) /\ Len(<<e>>) = 1 /\ <<e>>[1] = e
    OBVIOUS
  <2> QED
    BY <1>2, <1>5, <2>1
<1> QED
  BY <1>3, <1>4, <1>5

\* The answer to what is sent is owed to the attempt that sent it.
LEMMA SendStep ==
  ASSUME IInv, NEW a \in Attempts, Send(a)
  PROVE  IInv'
<1>0. IInv /\ Types /\ SessFields /\ AttFields /\ ChanFields /\ EventFields /\ ConnFields /\ OwesFields /\ ReaderFields
  BY FieldsTyped DEF IInv, Fields
<1>1. PICK s \in Sessions : s = att[a].sess
  BY <1>0 DEF IInv, AttemptsLinked, Send, At
<1>2. PICK c \in Conns : c = att[a].conn
  BY DEF IInv, AttemptsLinked, Send, At, Connected, Active
<1>3. PICK ans, new \in Seq(Answer) :
        /\ ConnSet(c, conns[c].state, conns[c].sess, new)
        /\ (conns[c].state = "up" /\ ans \in Answers(a) /\ new = conns[c].owes \o ans) \/ (new = conns[c].owes /\ conns[c].state # "up")
  <2>1. CASE conns[c].state = "up"
    <3>1. PICK ans \in Answers(a) : conns' = [conns EXCEPT ![c].owes = conns[c].owes \o ans]
      BY <1>2, <2>1 DEF Send, Sent
    <3>2. ans \in Seq(Answer) /\ conns[c].owes \in Seq(Answer)
      BY <1>0, AnswersEnd DEF ConnFields
    <3>3. PICK new \in Seq(Answer) : new = conns[c].owes \o ans
      BY <3>2, ConcatProperties
    <3>4. conns' = [conns EXCEPT ![c].owes = new]
      BY <3>1, <3>3
    <3>5. ConnSet(c, conns[c].state, conns[c].sess, new)
      BY <1>0, <3>4 DEF ConnSet, Types, ConnRec
    <3> QED
      BY <2>1, <3>1, <3>2, <3>3, <3>5
  <2>2. CASE conns[c].state # "up"
    <3>1. conns' = conns /\ conns[c].owes \in Seq(Answer)
      BY <1>0, <1>2, <2>2 DEF Send, Sent, ConnFields
    <3>2. ConnSet(c, conns[c].state, conns[c].sess, conns[c].owes)
      BY <1>0, <3>1 DEF ConnSet, Types
    <3> QED
      BY <2>2, <3>1, <3>2
  <2> QED
    BY <2>1, <2>2
<1>4. /\ conns[c].state # "up" => new = conns[c].owes
      /\ conns[c].owes # <<>> => new # <<>>
      /\ conns[c].owes = <<>> => new = ans \/ conns[c].state # "up"
  <2>1. CASE conns[c].state # "up"
    BY <1>3, <2>1
  <2>2. CASE conns[c].state = "up"
    <3>1. ans \in Answers(a) /\ new = conns[c].owes \o ans /\ conns[c].owes \in Seq(Answer) /\ ans \in Seq(Answer)
      BY <1>0, <1>3, <2>2, AnswersEnd DEF ConnFields
    <3>2. new = <<>> <=> conns[c].owes = <<>> /\ ans = <<>>
      BY <3>1, ConcatEqualIffEmpty
    <3>3. conns[c].owes = <<>> => new = ans
      BY <3>1, ConcatEmptySeq
    <3>4. conns[c].owes # <<>> => new # <<>>
      BY <3>2
    <3> QED
      BY <2>2, <3>3, <3>4
  <2> QED
    BY <2>1, <2>2
<1>5. sess[s].lock = a /\ conns[c].sess \in {s, None} /\ conns[c].state # "none"
  BY <1>1, <1>2 DEF IInv, Send, At, Locked, Holding, AttemptsLinked, Connected, Active
<1>6. /\ att[a].at \in {"send", "resend"}
      /\ UNCHANGED <<store, sess, chan, reader, client, open, removal, mixed, deserted, panicked>>
  BY DEF Send, Sent, At, downstream
<1>7. AttSet(a, "stream", s, c, att[a].res)
  BY <1>0, <1>1, <1>2, Goings DEF Send, Sent, Places
<1>8. ConnSet(c, conns[c].state, conns[c].sess, new)
  BY <1>3
<1>9. Types'
  BY <1>0, <1>1, <1>5, <1>6, <1>7, <1>8 DEF Types, AttSet, ConnSet
<1>10. LostStays
  BY <1>0, <1>6 DEF LostStays, Lost
<1>11. NoneActivated
  BY <1>1, <1>5, <1>6, <1>7 DEF NoneActivated, Active, AttSet
<1>12. SameOwners
  BY <1>0, <1>6, <1>8 DEF SameOwners, ConnSet
<1>13. NoneSent
  BY <1>0, <1>6, SameSent
<1>14. NoneTaken
  BY <1>0, <1>6, <1>8 DEF NoneTaken, ConnSet
<1>15. SameClosed
  BY <1>0, <1>6 DEF SameClosed
<1>16. NoneHeld
  BY <1>0, <1>6, <1>8 DEF NoneHeld, ConnSet
<1>17. SameReaders
  BY <1>0, <1>6, <1>8 DEF SameReaders, ConnSet
<1>18. OpenActive'
  BY <1>0, <1>6 DEF IInv, OpenActive, Lost
<1>19. AttemptsLinked'
  <2>1. \A d \in Conns : conns'[d].sess = conns[d].sess /\ conns'[d].state = conns[d].state
    BY <1>8 DEF ConnSet
  <2>2. \A b \in Attempts : b # a => att'[b] = att[b]
    BY <1>7 DEF AttSet
  <2>3. att'[a].at = "stream" /\ att'[a].sess = s /\ att'[a].conn = c /\ att'[a].res = None
    BY <1>6, <1>7 DEF IInv, AttemptsLinked, AttSet
  <2> QED
    BY <1>5, <2>1, <2>2, <2>3 DEF IInv, AttemptsLinked
<1>20. Locked'
  BY <1>5, <1>6, <1>7 DEF IInv, Locked, AttSet
<1>21. Turns'
  BY <1>6, <1>7 DEF IInv, Turns, Leaving, AttSet
<1>22. ConnOwned'
  BY <1>0, <1>6, <1>8, NoneApart DEF IInv, ConnOwned, SessFields, ConnSet
<1>23. ReadersLinked'
  BY <1>3, <1>6 DEF IInv, ReadersLinked, ConnSet
<1>24. Unused'
  BY <1>6, <1>7 DEF IInv, Unused, Early, ChanFields, AttFields, AttSet
<1>25. OneSession'
  BY <1>0, <1>11, <1>14, SessionFrame
<1>26. EventsLinked'
  BY <1>0, <1>11, <1>12, <1>13, LinkedFrame
<1>27. ConnKept'
  <2>1. /\ \A b \in Attempts : b # a => att'[b] = att[b]
        /\ \A d \in Conns : conns'[d].sess = conns[d].sess
    BY <1>3, <1>7 DEF AttSet, ConnSet
  <2> QED
    BY <1>1, <1>2, <1>6, <1>7, <2>1 DEF IInv, ConnKept, Kept, Lost, Connected, Active, AttSet
<1>28. OneConn'
  BY <1>0, <1>6, <1>8 DEF IInv, OneConn, Lost, ConnFields, ConnSet
<1>29. OpenRead'
  BY <1>0, <1>10, <1>15, <1>16, OpenFrame
<1>30. ClosedLast'
  BY <1>0, <1>10, <1>11, <1>15, <1>17, ClosedFrame
<1>31. OwesCurrent'
  <2> SUFFICES ASSUME NEW d \in Conns, (conns[d].sess # None /\ Watched(conns[d].sess))', NEW i \in 1..Len(conns'[d].owes)
               PROVE  /\ att'[conns'[d].owes[i].of].at = "stream" /\ att'[conns'[d].owes[i].of].sess = conns'[d].sess
                      /\ conns'[d].owes[i].kind = "delta" <=> i < Len(conns'[d].owes)
    BY DEF OwesCurrent
  <2>1. conns'[d].sess = conns[d].sess
    BY <1>3 DEF ConnSet
  <2>2. PICK t \in Sessions : t = conns[d].sess
    BY <1>0, <2>1 DEF ConnFields
  <2>3. Watched(t)
    BY <1>6, <2>1, <2>2 DEF Watched, Lost, Leaving
  <2>4. \A b \in Attempts : att[b].at = "stream" => att'[b] = att[b]
    BY <1>6, <1>7 DEF AttSet
  <2>5. CASE d = c
    <3>1. t = s
      BY <1>5, <2>1, <2>2, <2>5, NoneApart
    <3>2. \A j \in 1..Len(conns[c].owes) : FALSE
      <4> SUFFICES ASSUME NEW j \in 1..Len(conns[c].owes) PROVE FALSE
        OBVIOUS
      <4>1. PICK b \in Attempts : b = conns[c].owes[j].of
        BY <1>0 DEF OwesFields
      <4>2. att[b].at = "stream" /\ att[b].sess = s
        BY <2>2, <2>3, <2>5, <3>1, <4>1, NoneApart DEF IInv, OwesCurrent
      <4> QED
        BY <1>5, <1>6, <4>2 DEF IInv, Locked, Holding, Active
    <3>3. conns'[c].owes = ans /\ ans \in Answers(a)
      <4>1. conns[c].owes = <<>>
        BY <1>0, <3>2 DEF ConnFields
      <4>2. conns'[c].owes = new
        BY <1>3 DEF ConnSet
      <4> QED
        BY <1>3, <1>4, <2>5, <4>1, <4>2
    <3>4. ans[i].of = a /\ (ans[i].kind = "delta" <=> i < Len(ans))
      BY <2>5, <3>3, AnswersEnd
    <3>5. att'[a].at = "stream" /\ att'[a].sess = s
      BY <1>7 DEF AttSet
    <3> QED
      BY <2>1, <2>2, <2>5, <3>1, <3>3, <3>4, <3>5
  <2>6. CASE d # c
    <3>1. conns'[d].owes = conns[d].owes
      BY <1>3, <2>6 DEF ConnSet
    <3>2. /\ conns[d].owes[i].of \in Attempts /\ att[conns[d].owes[i].of].at = "stream"
          /\ att[conns[d].owes[i].of].sess = conns[d].sess
          /\ conns[d].owes[i].kind = "delta" <=> i < Len(conns[d].owes)
      BY <1>0, <2>1, <2>2, <2>3, <3>1 DEF OwesFields, OwesCurrent, IInv
    <3> QED
      BY <2>1, <2>4, <3>1, <3>2
  <2> QED
    BY <2>5, <2>6
<1>32. EventsCurrent'
  <2> SUFFICES ASSUME NEW b \in Attempts, (att[b].at \in Active /\ Watched(att[b].sess))', NEW i \in 1..Len(chan'[b].msgs)
               PROVE  /\ chan'[b].msgs[i].kind # "fail" => chan'[b].msgs[i].of = b /\ att'[b].at = "stream"
                      /\ chan'[b].msgs[i].kind # "delta" => conns'[chan'[b].msgs[i].conn].owes = <<>>
                      /\ chan'[b].msgs[i].kind = "fail" => conns'[chan'[b].msgs[i].conn].state # "up"
    BY DEF EventsCurrent
  <2>1. att[b].at \in Active /\ att'[b].sess = att[b].sess /\ (b # a => att'[b].at = att[b].at)
    BY <1>1, <1>6, <1>7 DEF AttSet, Active
  <2>2. PICK t \in Sessions : t = att[b].sess
    BY <1>0, <2>1 DEF IInv, AttemptsLinked, Active
  <2>3. Watched(t)
    BY <1>6, <2>1, <2>2 DEF Watched, Lost, Leaving
  <2>4. PICK e \in Conns : e = chan[b].msgs[i].conn
    BY <1>0, <1>6 DEF EventFields
  <2>50. i \in 1..Len(chan[b].msgs) /\ EventsCurrent /\ EventsLinked
    BY <1>6 DEF IInv
  <2>51. conns[e].sess \in {t, None} /\ conns[e].state # "none"
    BY <2>1, <2>2, <2>4, <2>50 DEF EventsLinked
  <2>52. /\ chan[b].msgs[i].kind # "fail" => chan[b].msgs[i].of = b /\ att[b].at = "stream"
         /\ chan[b].msgs[i].kind # "delta" => conns[e].owes = <<>>
         /\ chan[b].msgs[i].kind = "fail" => conns[e].state # "up"
    BY <2>1, <2>2, <2>3, <2>4, <2>50 DEF EventsCurrent
  <2>5. /\ chan[b].msgs[i].kind # "fail" => chan[b].msgs[i].of = b /\ att[b].at = "stream"
        /\ chan[b].msgs[i].kind # "delta" => conns[e].owes = <<>>
        /\ chan[b].msgs[i].kind = "fail" => conns[e].state # "up"
        /\ conns[e].sess \in {t, None} /\ conns[e].state # "none"
    BY <2>51, <2>52, Zenon
  <2>6. conns'[e].state = conns[e].state
    BY <1>3 DEF ConnSet
  <2>7. chan[b].msgs[i].kind # "delta" => conns'[e].owes = <<>>
    <3>1. CASE e # c
      BY <1>3, <2>5, <3>1 DEF ConnSet
    <3>2. CASE e = c /\ b = a
      BY <1>3, <1>4, <1>6, <2>5, <3>2 DEF ConnSet
    <3>3. CASE e = c /\ b # a
      <4>1. t # s
        BY <1>5, <2>1, <2>2, <3>3 DEF IInv, Locked, Holding
      <4>2. conns[c].sess = None
        BY <1>5, <2>5, <3>3, <4>1
      <4> QED
        BY <1>0, <1>3, <2>5, <3>3, <4>2 DEF IInv, ReadersLinked, ConnSet
    <3> QED
      BY <3>1, <3>2, <3>3
  <2> QED
    BY <1>0, <1>1, <1>2, <1>3, <1>4, <1>5, <1>6, <2>1, <2>4, <2>5, <2>6, <2>7
<1> QED
  BY <1>9, <1>18, <1>19, <1>20, <1>21, <1>22, <1>23, <1>24, <1>25, <1>26, <1>27, <1>28, <1>29, <1>30, <1>31,
         <1>32 DEF IInv

\* An event leaves the channel of a stream.
Takes(a) ==
  /\ att[a].at = "stream" /\ chan[a].msgs # <<>>
  /\ chan' = [chan EXCEPT ![a].msgs = Tail(@)]
  /\ UNCHANGED <<store, reader, open, removal, panicked>>

\* Taking a message takes the first.
LEMMA Taken ==
  ASSUME IInv, NEW a \in Attempts, Takes(a)
  PROVE  /\ ChanSet(a, Tail(chan[a].msgs), chan[a].closed) /\ Len(Tail(chan[a].msgs)) <= Cap /\ NoneSent
         /\ Len(chan[a].msgs) > 0 /\ Head(chan[a].msgs) = chan[a].msgs[1] /\ chan[a].msgs[1] \in Event
<1>1. Types /\ chan[a].msgs \in Seq(Event) /\ Len(chan[a].msgs) <= Cap
  BY FieldsTyped DEF IInv, Types, Fields, ChanFields
<1>2. PICK tail \in Seq(Event) : /\ tail = Tail(chan[a].msgs) /\ Len(tail) = Len(chan[a].msgs) - 1
                                 /\ \A i \in 1..Len(tail) : tail[i] = chan[a].msgs[i + 1]
  <2>1. PICK m \in Seq(Event) : m = chan[a].msgs /\ m # <<>>
    BY <1>1 DEF Takes
  <2> QED
    BY <2>1, HeadTailProperties
<1>3. Len(chan[a].msgs) \in Nat \ {0}
  BY <1>1, EmptySeq DEF Takes
<1>4. Head(chan[a].msgs) = chan[a].msgs[1] /\ chan[a].msgs[1] \in Event
  BY <1>1, <1>3
<1>5. ChanSet(a, tail, chan[a].closed)
  BY <1>1, <1>2 DEF Types, ChanRec, ChanSet, Takes
<1>6. Len(tail) <= Cap
  BY <1>1, <1>2, <1>3, SessionAssumption
<1>7. NoneSent
  <2> SUFFICES ASSUME NEW b \in Attempts, NEW i \in 1..Len(chan'[b].msgs)
               PROVE  \E j \in 1..Len(chan[b].msgs) : chan'[b].msgs[i] = chan[b].msgs[j]
    BY DEF NoneSent
  <2>1. CASE b = a
    <3>1. i \in 1..Len(tail) /\ chan'[a].msgs[i] = tail[i]
      BY <1>5, <2>1 DEF ChanSet
    <3>2. i + 1 \in 1..Len(chan[a].msgs)
      BY <1>2, <1>3, <3>1
    <3> QED
      BY <1>2, <2>1, <3>1, <3>2
  <2>2. CASE b # a
    BY <1>5, <2>2 DEF ChanSet
  <2> QED
    BY <2>1, <2>2
<1> QED
  BY <1>2, <1>3, <1>4, <1>5, <1>6, <1>7

\* A stream ends: then nobody owed it anything more, or nobody watches.
LEMMA OwesEnds ==
  ASSUME IInv, LostStays, QuitStays, SameDebts, NEW a \in Attempts, att[a].at = "stream",
         NEW s \in Sessions, s = att[a].sess,
         \A b \in Attempts : b # a => att'[b] = att[b],
         \A c \in Conns : conns[c].sess = s /\ conns[c].owes # <<>> => Lost(s)' \/ Leaving' \/ s \in deserted'
  PROVE  OwesCurrent'
<1>0. ConnFields /\ OwesFields
  BY FieldsTyped DEF IInv, Fields
<1> SUFFICES ASSUME NEW c \in Conns, (conns[c].sess # None /\ Watched(conns[c].sess))', NEW i \in 1..Len(conns'[c].owes)
             PROVE  /\ att'[conns'[c].owes[i].of].at = "stream" /\ att'[conns'[c].owes[i].of].sess = conns'[c].sess
                    /\ conns'[c].owes[i].kind = "delta" <=> i < Len(conns'[c].owes)
  BY DEF OwesCurrent
<1>1. conns'[c].sess = conns[c].sess /\ conns'[c].owes = conns[c].owes /\ conns[c].owes # <<>>
  BY <1>0 DEF SameDebts, ConnFields
<1>2. PICK t \in Sessions : t = conns[c].sess
  BY <1>0, <1>1 DEF ConnFields
<1>3. ~Lost(t)' /\ ~Leaving' /\ t \notin deserted'
  BY <1>1, <1>2 DEF Watched, Lost
<1>4. conns[c].sess # None /\ Watched(conns[c].sess)
  BY <1>1, <1>2, <1>3 DEF Watched, LostStays, QuitStays
<1>5. t # s
  BY <1>1, <1>2, <1>3
<1>6. /\ conns[c].owes[i].of \in Attempts /\ att[conns[c].owes[i].of].at = "stream"
      /\ att[conns[c].owes[i].of].sess = conns[c].sess
      /\ conns[c].owes[i].kind = "delta" <=> i < Len(conns[c].owes)
  BY <1>0, <1>1, <1>4 DEF OwesFields, OwesCurrent, IInv
<1>7. conns[c].owes[i].of # a
  BY <1>2, <1>5, <1>6
<1> QED
  BY <1>1, <1>6, <1>7

\* The session of a watched stream has one connection, the stream's.
LEMMA StreamsConn ==
  ASSUME IInv, NEW a \in Attempts, att[a].at = "stream", ~Leaving, NEW s \in Sessions, s = att[a].sess, ~Lost(s),
         NEW c \in Conns, conns[c].sess = s
  PROVE  c = att[a].conn
BY NoneApart DEF IInv, ConnKept, Kept, Leaving, Connected, Active

\* Past the last event of an answer nothing is owed.
LEMMA LastEvent ==
  ASSUME IInv, NEW a \in Attempts, Takes(a), NEW s \in Sessions, s = att[a].sess, NEW c \in Conns, c = att[a].conn,
         Head(chan[a].msgs).conn = c, Head(chan[a].msgs).kind # "delta"
  PROVE  \A d \in Conns : conns[d].sess = s /\ conns[d].owes # <<>> => Lost(s) \/ Leaving \/ s \in deserted
<1> SUFFICES ASSUME NEW d \in Conns, conns[d].sess = s, Watched(s) PROVE conns[d].owes = <<>>
  BY DEF Watched
<1>1. d = c
  BY StreamsConn DEF Takes, Watched
<1>2. 1 \in 1..Len(chan[a].msgs) /\ Head(chan[a].msgs) = chan[a].msgs[1]
  BY Taken, FieldsTyped DEF IInv, Fields, ChanFields
<1>3. Watched(att[a].sess) /\ att[a].at \in Active
  BY DEF Takes, Active
<1> QED
  BY <1>1, <1>2, <1>3 DEF IInv, EventsCurrent

\* The call of a stream is cancelled when its handler leaves, or gave it up.
LEMMA CancelledStream ==
  ASSUME IInv, NEW a \in Attempts, att[a].at = "stream", Cancelled(a)
  PROVE  Leaving \/ att[a].sess \in deserted
BY DEF IInv, Turns, Cancelled

\* An attempt that reads in vain fails.
LEMMA ReceiveFailsStep ==
  ASSUME IInv, NEW a \in Attempts, ReceiveFails(a)
  PROVE  IInv'
<1>0. IInv /\ Types /\ SessFields /\ AttFields /\ ChanFields /\ EventFields /\ ConnFields /\ OwesFields /\ ReaderFields
  BY FieldsTyped DEF IInv, Fields
<1>1. PICK s \in Sessions : s = att[a].sess
  BY <1>0 DEF IInv, AttemptsLinked, ReceiveFails, At
<1>2. /\ att[a].at = "stream" /\ (Cancelled(a) \/ (chan[a].closed /\ chan[a].msgs = <<>>))
      /\ UNCHANGED <<store, sess, chan, conns, reader, client, open, removal, mixed, deserted, panicked>>
  BY <1>0, <1>1 DEF ReceiveFails, At, upstream, downstream
<1>3. AttSet(a, "finish", s, att[a].conn, "failed")
  BY <1>0, <1>1, <1>2, Failings DEF ReceiveFails, Places
<1>4. Types'
  BY <1>0, <1>2, <1>3 DEF Types, AttSet
<1>5. LostStays
  BY <1>0, <1>2 DEF LostStays, Lost
<1>6. QuitStays
  BY <1>0, <1>2 DEF QuitStays, Leaving
<1>7. NoneActivated
  BY <1>0, <1>2, <1>3 DEF NoneActivated, Active, AttSet
<1>8. NoneIndebted
  BY <1>0, <1>2 DEF NoneIndebted
<1>9. NoneRevived
  BY <1>0, <1>2 DEF NoneRevived
<1>10. SameOwners
  BY <1>0, <1>2 DEF SameOwners
<1>11. NoneSent
  BY <1>0, <1>2, SameSent
<1>12. NoneTaken
  BY <1>0, <1>2 DEF NoneTaken
<1>13. SameClosed
  BY <1>0, <1>2 DEF SameClosed
<1>14. SameReaders
  BY <1>0, <1>2 DEF SameReaders
<1>15. ConnOwned' /\ ReadersLinked' /\ OneConn' /\ OpenActive' /\ OpenRead'
  BY <1>2 DEF IInv, ConnOwned, ReadersLinked, OneConn, OpenActive, OpenRead, Lost
<1>16. AttemptsLinked'
  BY <1>2, <1>3 DEF IInv, AttemptsLinked, Connected, Active, AttSet
<1>17. Locked'
  BY <1>1, <1>2, <1>3 DEF IInv, Locked, Holding, Active, AttSet
<1>18. Turns'
  BY <1>2, <1>3 DEF IInv, Turns, Leaving, AttSet
<1>19. Unused'
  BY <1>2, <1>3 DEF IInv, Unused, Early, AttSet
<1>20. OneSession'
  BY <1>0, <1>7, <1>12, SessionFrame
<1>21. EventsLinked'
  BY <1>0, <1>7, <1>10, <1>11, LinkedFrame
<1>22. ConnKept'
  BY <1>2, <1>3 DEF IInv, ConnKept, Kept, Lost, Connected, Active, AttSet
<1>23. ClosedLast'
  BY <1>0, <1>5, <1>7, <1>13, <1>14, ClosedFrame
<1>24. OwesCurrent'
  <2>1. LostStays /\ QuitStays
    BY <1>2 DEF LostStays, QuitStays, Lost, Leaving
  <2>2. \A b \in Attempts : b # a => att'[b] = att[b]
    BY <1>3 DEF AttSet
  <2>3. SameDebts
    BY <1>0, <1>1, <1>2 DEF SameDebts
  <2>4. \A d \in Conns : conns[d].sess = s /\ conns[d].owes # <<>> => Lost(s)' \/ Leaving' \/ s \in deserted'
    <3>1. Leaving' = Leaving /\ deserted' = deserted /\ (Lost(s)' <=> Lost(s))
      BY <1>2 DEF Leaving, Lost
    <3>2. CASE Cancelled(a)
      BY <1>0, <1>1, <1>2, <3>1, <3>2, CancelledStream
    <3>3. CASE chan[a].closed /\ chan[a].msgs = <<>>
      BY <1>1, <1>2, <3>1, <3>3 DEF IInv, ClosedLast, ReadersLinked, Active
    <3> QED
      BY <1>2, <3>2, <3>3
  <2> QED
    BY <1>0, <1>1, <1>2, <2>1, <2>2, <2>3, <2>4, OwesEnds
<1>25. EventsCurrent'
  BY <1>0, <1>5, <1>6, <1>7, <1>8, <1>9, <1>11, EventsFrame
<1> QED
  BY <1>4, <1>15, <1>16, <1>17, <1>18, <1>19, <1>20, <1>21, <1>22, <1>23, <1>24, <1>25 DEF IInv

\* A message of another connection is skipped.
LEMMA SkipStep ==
  ASSUME IInv, NEW a \in Attempts, Takes(a), UNCHANGED <<sess, att, conns, client, mixed, deserted>>
  PROVE  IInv'
<1>0. IInv /\ Types /\ SessFields /\ AttFields /\ ChanFields /\ EventFields /\ ConnFields /\ OwesFields /\ ReaderFields
  BY FieldsTyped DEF IInv, Fields
<1>1. PICK s \in Sessions : s = att[a].sess
  BY <1>0 DEF IInv, AttemptsLinked, Takes
<1>2. /\ att[a].at = "stream" /\ UNCHANGED <<store, sess, att, conns, reader, client, open, removal, mixed, deserted, panicked>>
  BY <1>0, <1>1 DEF Takes
<1>3. ChanSet(a, Tail(chan[a].msgs), chan[a].closed)
  BY <1>0, <1>1, <1>2, Taken
<1>4. Types'
  BY <1>0, <1>2, <1>3, Taken DEF Types, ChanSet
<1>5. LostStays
  BY <1>0, <1>2 DEF LostStays, Lost
<1>6. QuitStays
  BY <1>0, <1>2 DEF QuitStays, Leaving
<1>7. NoneActivated
  BY <1>0, <1>2 DEF NoneActivated, Active
<1>8. NoneIndebted
  BY <1>0, <1>2 DEF NoneIndebted
<1>9. NoneRevived
  BY <1>0, <1>2 DEF NoneRevived
<1>10. SameOwners
  BY <1>0, <1>2 DEF SameOwners
<1>11. NoneSent
  BY <1>0, Taken
<1>12. SameClosed
  BY <1>0, <1>2, <1>3 DEF SameClosed, ChanSet
<1>13. NoneHeld
  BY <1>0, <1>2 DEF NoneHeld
<1>14. SameReaders
  BY <1>0, <1>2 DEF SameReaders
<1>15. AttemptsLinked' /\ Locked' /\ Turns' /\ ConnOwned' /\ ReadersLinked' /\ OneSession' /\ ConnKept' /\ OneConn' /\ OwesCurrent'
  <2>1. AttemptsLinked' /\ Locked'
    BY <1>2 DEF IInv, AttemptsLinked, Locked
  <2>2. Turns' /\ ConnOwned'
    BY <1>2 DEF IInv, Turns, ConnOwned, Leaving
  <2>3. ReadersLinked' /\ OneSession'
    BY <1>2 DEF IInv, ReadersLinked, OneSession
  <2>4. ConnKept' /\ OneConn'
    BY <1>2 DEF IInv, ConnKept, OneConn, Kept, Lost
  <2>5. OwesCurrent'
    BY <1>2 DEF IInv, OwesCurrent, Watched, Lost, Leaving
  <2> QED
    BY <2>1, <2>2, <2>3, <2>4, <2>5
<1>16. Unused'
  BY <1>2, <1>3 DEF IInv, Unused, Early, ChanSet
<1>17. EventsLinked'
  BY <1>0, <1>7, <1>10, <1>11, LinkedFrame
<1>18. OpenActive'
  BY <1>0, <1>2, <1>3 DEF IInv, OpenActive, Lost, SessFields, ChanSet
<1>19. OpenRead'
  BY <1>0, <1>5, <1>12, <1>13, OpenFrame
<1>20. ClosedLast'
  BY <1>0, <1>5, <1>7, <1>12, <1>14, ClosedFrame
<1>21. EventsCurrent'
  BY <1>0, <1>5, <1>6, <1>7, <1>8, <1>9, <1>11, EventsFrame
<1> QED
  BY <1>4, <1>15, <1>16, <1>17, <1>18, <1>19, <1>20, <1>21 DEF IInv

\* A terminal message of its own connection ends the attempt, as any message
\* does once it is cancelled.
LEMMA StreamEndsStep ==
  ASSUME IInv, NEW a \in Attempts, Takes(a), NEW res \in {"ok", "failed"}, att' = [att EXCEPT ![a].at = "finish", ![a].res = res],
         Head(chan[a].msgs).conn = att[a].conn, Head(chan[a].msgs).kind # "delta" \/ Cancelled(a),
         UNCHANGED <<sess, conns, client, mixed, deserted>>
  PROVE  IInv'
<1>0. IInv /\ Types /\ SessFields /\ AttFields /\ ChanFields /\ EventFields /\ ConnFields /\ OwesFields /\ ReaderFields
  BY FieldsTyped DEF IInv, Fields
<1>1. PICK s \in Sessions : s = att[a].sess
  BY <1>0 DEF IInv, AttemptsLinked, Takes
<1>2. PICK c \in Conns : c = att[a].conn
  BY <1>0 DEF IInv, AttemptsLinked, Connected, Active, Takes
<1>3. /\ att[a].at = "stream" /\ UNCHANGED <<store, sess, conns, reader, client, open, removal, mixed, deserted, panicked>>
  BY <1>0, <1>1, <1>2 DEF Takes
<1>4. ChanSet(a, Tail(chan[a].msgs), chan[a].closed)
  BY <1>0, <1>1, <1>2, <1>3, Taken
<1>5. AttSet(a, "finish", s, c, res)
  BY <1>0, <1>1, <1>2, <1>3, Results DEF Places
<1>6. Types'
  BY <1>0, <1>3, <1>5, Taken DEF Types, ChanSet, AttSet
<1>7. LostStays
  BY <1>0, <1>3 DEF LostStays, Lost
<1>8. QuitStays
  BY <1>0, <1>3 DEF QuitStays, Leaving
<1>9. NoneActivated
  BY <1>0, <1>3, <1>5 DEF NoneActivated, Active, AttSet
<1>10. NoneIndebted
  BY <1>0, <1>3 DEF NoneIndebted
<1>11. NoneRevived
  BY <1>0, <1>3 DEF NoneRevived
<1>12. SameOwners
  BY <1>0, <1>3 DEF SameOwners
<1>13. NoneSent
  BY <1>0, Taken
<1>14. NoneTaken
  BY <1>0, <1>3 DEF NoneTaken
<1>15. SameClosed
  BY <1>0, <1>3, <1>4 DEF SameClosed, ChanSet
<1>16. NoneHeld
  BY <1>0, <1>3 DEF NoneHeld
<1>17. SameReaders
  BY <1>0, <1>3 DEF SameReaders
<1>18. ConnOwned' /\ ReadersLinked' /\ OneConn'
  BY <1>3 DEF IInv, ConnOwned, ReadersLinked, OneConn, Lost
<1>19. AttemptsLinked'
  BY <1>5 DEF IInv, AttemptsLinked, Connected, Active, AttSet
<1>20. Locked'
  BY <1>1, <1>3, <1>5 DEF IInv, Locked, Holding, Active, AttSet
<1>21. Turns'
  BY <1>3, <1>5 DEF IInv, Turns, Leaving, AttSet
<1>22. Unused'
  BY <1>3, <1>4, <1>5 DEF IInv, Unused, Early, ChanSet, AttSet
<1>23. OneSession'
  BY <1>0, <1>9, <1>14, SessionFrame
<1>24. EventsLinked'
  BY <1>0, <1>9, <1>12, <1>13, LinkedFrame
<1>25. ConnKept'
  <2>1. \A q \in Sessions : Kept(q)' <=> Kept(q)
    BY <1>3 DEF Kept, Lost
  <2>2. \A b \in Attempts : b # a => att'[b] = att[b]
    BY <1>5 DEF AttSet
  <2>3. att'[a].at = "finish" /\ att'[a].sess = s /\ att'[a].conn = c /\ att[a].at \in Connected
    BY <1>3, <1>5 DEF Connected, Active, AttSet
  <2>4. \A d \in Conns : conns'[d].sess # None /\ Kept(conns[d].sess)' => sess'[conns'[d].sess].conn = d
    BY <1>0, <1>3, <2>1 DEF IInv, ConnKept, ConnFields, Kept, Lost
  <2>5. \A b \in Attempts : att'[b].at \in Connected /\ Kept(att[b].sess)' => sess'[att'[b].sess].conn = att'[b].conn
    <3> SUFFICES ASSUME NEW b \in Attempts, att'[b].at \in Connected, Kept(att[b].sess)'
                 PROVE  sess'[att'[b].sess].conn = att'[b].conn
      OBVIOUS
    <3>1. att'[b].sess = att[b].sess /\ att'[b].conn = att[b].conn /\ att[b].at \in Connected
      BY <1>1, <1>2, <2>2, <2>3
    <3>2. Kept(att[b].sess)
      BY <1>3, <3>1 DEF Kept, Lost
    <3> QED
      BY <1>3, <3>1, <3>2 DEF IInv, ConnKept
  <2>6. \A b \in Attempts : att'[b].at = "redial" => Lost(att[b].sess)'
    BY <1>1, <1>3, <2>2, <2>3 DEF IInv, ConnKept, Lost
  <2> QED
    BY <2>4, <2>5, <2>6 DEF ConnKept, Kept, Lost
<1>26. OpenActive'
  BY <1>0, <1>3, <1>4 DEF IInv, OpenActive, Lost, SessFields, ChanSet
<1>27. OpenRead'
  BY <1>0, <1>7, <1>15, <1>16, OpenFrame
<1>28. ClosedLast'
  BY <1>0, <1>7, <1>9, <1>15, <1>17, ClosedFrame
<1>29. OwesCurrent'
  <2>1. LostStays /\ QuitStays
    BY <1>3 DEF LostStays, QuitStays, Lost, Leaving
  <2>2. \A b \in Attempts : b # a => att'[b] = att[b]
    BY <1>5 DEF AttSet
  <2>3. SameDebts
    BY <1>0, <1>1, <1>2, <1>3 DEF SameDebts
  <2>4. \A d \in Conns : conns[d].sess = s /\ conns[d].owes # <<>> => Lost(s)' \/ Leaving' \/ s \in deserted'
    <3>1. Leaving' = Leaving /\ deserted' = deserted /\ (Lost(s)' <=> Lost(s))
      BY <1>3 DEF Leaving, Lost
    <3>2. CASE Cancelled(a)
      BY <1>0, <1>1, <1>3, <3>1, <3>2, CancelledStream
    <3>3. CASE Head(chan[a].msgs).kind # "delta"
      BY <1>0, <1>1, <1>2, <3>1, <3>3, LastEvent
    <3> QED
      BY <3>2, <3>3
  <2> QED
    BY <1>0, <1>1, <1>2, <1>3, <2>1, <2>2, <2>3, <2>4, OwesEnds
<1>30. EventsCurrent'
  BY <1>0, <1>7, <1>8, <1>9, <1>10, <1>11, <1>13, EventsFrame
<1> QED
  BY <1>6, <1>18, <1>19, <1>20, <1>21, <1>22, <1>23, <1>24, <1>25, <1>26, <1>27, <1>28, <1>29, <1>30 DEF IInv

\* A message that is taken for an error fails it, and costs the session its connection.
LEMMA StreamErrsStep ==
  ASSUME IInv, NEW a \in Attempts, Takes(a), Fails(a, "finish"),
         sess' = Forget(sess, att[a].sess, att[a].conn), conns' = Shut(conns, att[a].sess, att[a].conn), UNCHANGED <<client, mixed, deserted>>
  PROVE  IInv'
<1>0. IInv /\ Types /\ SessFields /\ AttFields /\ ChanFields /\ EventFields /\ ConnFields /\ OwesFields /\ ReaderFields
  BY FieldsTyped DEF IInv, Fields
<1>1. PICK s \in Sessions : s = att[a].sess
  BY <1>0 DEF IInv, AttemptsLinked, Takes
<1>2. PICK c \in Conns : c = att[a].conn
  BY <1>0 DEF IInv, AttemptsLinked, Connected, Active, Takes
<1>3. /\ att[a].at = "stream"
      /\ conns[c].state # "none" /\ conns[c].sess \in {s, None}
      /\ UNCHANGED <<store, reader, client, open, removal, mixed, deserted, panicked>>
  BY <1>1, <1>2 DEF Takes, IInv, AttemptsLinked, Connected, Active
<1>4. AttSet(a, "finish", s, c, "failed")
  BY <1>0, <1>1, <1>2, <1>3, Failings DEF Places
<1>5. SessSet(s, sess[s].lock, IF sess[s].conn = c THEN None ELSE sess[s].conn, sess[s].active,
              sess[s].told \/ sess[s].conn = c)
  BY <1>0, <1>1, <1>2, <1>3, Forgettings
<1>6. ConnSet(c, IF sess[s].conn = c THEN "shut" ELSE conns[c].state, conns[c].sess, conns[c].owes)
  BY <1>0, <1>1, <1>2, <1>3, Shuttings
<1>7. ChanSet(a, Tail(chan[a].msgs), chan[a].closed)
  BY <1>0, <1>1, <1>2, <1>3, Taken
<1>8. Types'
  BY <1>0, <1>3, <1>4, <1>5, <1>6, Taken DEF Types, ChanSet, AttSet, ConnSet, SessSet
<1>9. LostStays
  BY <1>0, <1>3, <1>5 DEF LostStays, Lost, SessSet
<1>10. QuitStays
  BY <1>0, <1>3 DEF QuitStays, Leaving
<1>11. NoneActivated
  BY <1>0, <1>3, <1>4 DEF NoneActivated, Active, AttSet
<1>12. NoneIndebted
  BY <1>0, <1>3, <1>6 DEF NoneIndebted, ConnSet
<1>13. NoneRevived
  BY <1>0, <1>3, <1>6 DEF NoneRevived, ConnSet
<1>14. SameOwners
  BY <1>0, <1>3, <1>6 DEF SameOwners, ConnSet
<1>15. NoneSent
  BY <1>0, Taken
<1>16. NoneTaken
  BY <1>3, <1>5, <1>6 DEF NoneTaken, SessSet, ConnSet
<1>17. SameClosed
  BY <1>0, <1>3, <1>7 DEF SameClosed, ChanSet
<1>18. NoneHeld
  BY <1>0, <1>3, <1>6 DEF NoneHeld, ConnSet
<1>19. SameReaders
  BY <1>0, <1>3, <1>6 DEF SameReaders, ConnSet
<1>20. AttemptsLinked'
  BY <1>3, <1>4, <1>6 DEF IInv, AttemptsLinked, AttSet, ConnSet
<1>21. Locked'
  <2>1. \A b \in Attempts : att'[b].at \in Holding => att[b].at \in Holding /\ att'[b].sess = att[b].sess
    BY <1>1, <1>3, <1>4 DEF Holding, Active, AttSet
  <2>2. \A t \in Sessions : sess'[t].lock = sess[t].lock
    BY <1>5 DEF SessSet
  <2>3. \A b \in Attempts : att[b].at \in Holding => att[b].sess \in Sessions
    BY DEF IInv, AttemptsLinked, Holding, Active
  <2> QED
    BY <2>1, <2>2, <2>3 DEF IInv, Locked
<1>22. Turns'
  BY <1>3, <1>4 DEF IInv, Turns, Leaving, AttSet
<1>23. ConnOwned'
  BY <1>0, <1>5, <1>6 DEF IInv, ConnOwned, SessFields, SessSet, ConnSet
<1>24. ReadersLinked'
  BY <1>3, <1>6 DEF IInv, ReadersLinked, ConnSet
<1>25. Unused'
  BY <1>3, <1>4, <1>5, <1>7 DEF IInv, Unused, Early, AttSet, SessSet, ChanSet
<1>26. OneSession'
  BY <1>0, <1>11, <1>16, SessionFrame
<1>27. EventsLinked'
  BY <1>0, <1>11, <1>14, <1>15, LinkedFrame
<1>28. ConnKept'
  <2>1. Kept(s) => sess[s].conn = c
    BY <1>1, <1>2, <1>3 DEF IInv, ConnKept, Connected, Active
  <2>2. Lost(s)' \/ client.at = "gone"
    BY <1>3, <1>5, <2>1 DEF Kept, Lost, SessSet
  <2>3. \A t \in Sessions : t # s => (Lost(t) <=> Lost(t)')
    BY <1>3, <1>5 DEF Lost, SessSet
  <2>4. LostStays /\ KeptStays
    BY <1>3, <1>5, <1>9, <2>2, <2>3 DEF KeptStays, Kept, SessSet
  <2>5. NoneDialled
    BY <1>6 DEF NoneDialled, ConnSet
  <2>6. \A b \in Attempts : att'[b].at \in Connected => ConnectedBefore(b)
    BY <1>4 DEF ConnectedBefore, Connected, Active, AttSet
  <2> QED
    BY <1>0, <2>4, <2>5, <2>6, KeptFrame
<1>29. OneConn'
  <2>1. LostStays
    BY <1>0, <1>3, <1>5 DEF LostStays, Lost, SessSet, SessFields
  <2>2. NoneDialled
    BY <1>6 DEF NoneDialled, ConnSet
  <2> QED
    BY <1>0, <2>1, <2>2, OneConnFrame
<1>30. OpenActive'
  BY <1>0, <1>3, <1>5, <1>7 DEF IInv, OpenActive, Lost, SessFields, SessSet, ChanSet
<1>31. OpenRead'
  BY <1>0, <1>9, <1>17, <1>18, OpenFrame
<1>32. ClosedLast'
  BY <1>0, <1>9, <1>11, <1>17, <1>19, ClosedFrame
<1>33. OwesCurrent'
  <2>1. LostStays /\ QuitStays
    BY <1>3, <1>5 DEF LostStays, QuitStays, Leaving, Lost, SessSet
  <2>2. \A b \in Attempts : b # a => att'[b] = att[b]
    BY <1>4 DEF AttSet
  <2>3. SameDebts
    BY <1>6 DEF SameDebts, ConnSet
  <2>4. Kept(s) => sess[s].conn = c
    BY <1>1, <1>2, <1>3 DEF IInv, ConnKept, Connected, Active
  <2>5. Lost(s)' \/ Leaving'
    BY <1>3, <1>5, <2>4 DEF Kept, Leaving, Lost, SessSet
  <2> QED
    BY <1>0, <1>1, <1>2, <1>3, <2>1, <2>2, <2>3, <2>5, OwesEnds
<1>34. EventsCurrent'
  BY <1>0, <1>9, <1>10, <1>11, <1>12, <1>13, <1>15, EventsFrame
<1> QED
  BY <1>8, <1>20, <1>21, <1>22, <1>23, <1>24, <1>25, <1>26, <1>27, <1>28, <1>29, <1>30, <1>31, <1>32, <1>33,
         <1>34 DEF IInv

\* After a message that is passed on, or refused, the stream goes on; a turn
\* that is over leaves a deserted session.
LEMMA PassStep ==
  ASSUME IInv, NEW a \in Attempts, Takes(a), ~Cancelled(a),
         client' \in ClientRec, client'.at \in {"turn", "listen", "leave"}, client'.at = "turn" => client'.cur = client.cur,
         client'.at = "listen" => att[a].sess \in deserted',
         mixed' \subseteq Sessions, deserted' \subseteq Sessions, deserted \subseteq deserted', UNCHANGED <<sess, att, conns>>
  PROVE  IInv'
<1>0. IInv /\ Types /\ SessFields /\ AttFields /\ ChanFields /\ EventFields /\ ConnFields /\ OwesFields /\ ReaderFields
  BY FieldsTyped DEF IInv, Fields
<1>1. PICK s \in Sessions : s = att[a].sess
  BY <1>0 DEF IInv, AttemptsLinked, Takes
<1>2. /\ att[a].at = "stream" /\ ~Leaving
      /\ client.at = "turn" /\ client.cur = a
      /\ UNCHANGED <<store, sess, att, conns, reader, open, removal, panicked>>
  BY <1>0, <1>1 DEF Takes, Cancelled, Leaving
<1>3. client' \in ClientRec
  OBVIOUS
<1>4. mixed' \subseteq Sessions /\ deserted' \subseteq Sessions
  OBVIOUS
<1>5. ChanSet(a, Tail(chan[a].msgs), chan[a].closed)
  BY <1>0, <1>1, <1>2, Taken
<1>6. Types'
  BY <1>0, <1>2, <1>3, Taken DEF Types, ChanSet
<1>7. LostStays
  BY <1>0, <1>2 DEF LostStays, Lost
<1>8. QuitStays
  BY <1>2 DEF QuitStays
<1>9. StreamsStay
  BY <1>0, <1>2 DEF StreamsStay, AttFields
<1>10. NoneActivated
  BY <1>0, <1>2 DEF NoneActivated, Active
<1>11. SameDebts
  BY <1>0, <1>2 DEF SameDebts
<1>12. NoneIndebted
  BY <1>0, <1>2 DEF NoneIndebted
<1>13. NoneRevived
  BY <1>0, <1>2 DEF NoneRevived
<1>14. SameOwners
  BY <1>0, <1>2 DEF SameOwners
<1>15. NoneSent
  BY <1>0, Taken
<1>16. SameClosed
  BY <1>0, <1>2, <1>5 DEF SameClosed, ChanSet
<1>17. NoneHeld
  BY <1>0, <1>2 DEF NoneHeld
<1>18. SameReaders
  BY <1>0, <1>2 DEF SameReaders
<1>19. AttemptsLinked' /\ Locked' /\ ConnOwned' /\ ReadersLinked' /\ OneSession' /\ OneConn'
  BY <1>2 DEF IInv, AttemptsLinked, Locked, ConnOwned, ReadersLinked, OneSession, OneConn, Lost
<1>20. Turns'
  BY <1>2 DEF IInv, Turns, Leaving
<1>21. Unused'
  BY <1>2, <1>5 DEF IInv, Unused, Early, ChanSet
<1>22. EventsLinked'
  BY <1>0, <1>10, <1>14, <1>15, LinkedFrame
<1>23. ConnKept'
  BY <1>2 DEF IInv, ConnKept, Kept, Lost
<1>24. OpenActive'
  BY <1>0, <1>2, <1>5 DEF IInv, OpenActive, Lost, SessFields, ChanSet
<1>25. OpenRead'
  BY <1>0, <1>7, <1>16, <1>17, OpenFrame
<1>26. ClosedLast'
  BY <1>0, <1>7, <1>10, <1>16, <1>18, ClosedFrame
<1>27. OwesCurrent'
  BY <1>0, <1>7, <1>8, <1>9, <1>11, OwesFrame
<1>28. EventsCurrent'
  BY <1>0, <1>7, <1>8, <1>10, <1>12, <1>13, <1>15, EventsFrame
<1> QED
  BY <1>6, <1>19, <1>20, <1>21, <1>22, <1>23, <1>24, <1>25, <1>26, <1>27, <1>28 DEF IInv

\* After the last one nothing is owed, so that the next attempt finds nothing.
LEMMA PassLastStep ==
  ASSUME IInv, NEW a \in Attempts, Takes(a), ~Cancelled(a), att' = [att EXCEPT ![a].at = "finish", ![a].res = "ok"],
         Head(chan[a].msgs).conn = att[a].conn, Head(chan[a].msgs).kind # "delta",
         client' \in ClientRec, client'.at \in {"turn", "listen", "leave"}, client'.at = "turn" => client'.cur = client.cur,
         mixed' \subseteq Sessions, UNCHANGED <<deserted, sess, conns>>
  PROVE  IInv'
<1>0. IInv /\ Types /\ SessFields /\ AttFields /\ ChanFields /\ EventFields /\ ConnFields /\ OwesFields /\ ReaderFields
  BY FieldsTyped DEF IInv, Fields
<1>1. PICK s \in Sessions : s = att[a].sess
  BY <1>0 DEF IInv, AttemptsLinked, Takes
<1>2. PICK c \in Conns : c = att[a].conn
  BY <1>0 DEF IInv, AttemptsLinked, Connected, Active, Takes
<1>3. /\ att[a].at = "stream" /\ ~Leaving
      /\ client.at = "turn" /\ client.cur = a
      /\ UNCHANGED <<store, sess, conns, reader, open, removal, deserted, panicked>>
  BY DEF Takes, Cancelled, Leaving
<1>4. AttSet(a, "finish", s, c, "ok")
  BY <1>0, <1>1, <1>2, <1>3, Results DEF Places
<1>5. client' \in ClientRec
  OBVIOUS
<1>6. mixed' \subseteq Sessions
  OBVIOUS
<1>7. ChanSet(a, Tail(chan[a].msgs), chan[a].closed)
  BY <1>0, <1>1, <1>2, <1>3, Taken
<1>8. Types'
  <2>1. sess' \in [Sessions -> SessionRec] /\ conns' \in [Conns -> ConnRec] /\ reader' \in [Conns -> ReaderRec]
    BY <1>0, <1>3 DEF Types
  <2>2. chan' \in [Attempts -> ChanRec] /\ att' \in [Attempts -> AttemptRec]
    BY <1>4, <1>7 DEF ChanSet, AttSet
  <2>3. \A b \in Attempts : Len(chan'[b].msgs) <= Cap
    BY <1>0, <1>7, Taken DEF Types, ChanSet
  <2>4. store' \in Sessions \cup {None} /\ removal' \in RemovalRec /\ open' \in BOOLEAN /\ panicked' \in BOOLEAN /\ deserted' \subseteq Sessions
    BY <1>0, <1>3 DEF Types
  <2> QED
    BY <1>5, <2>1, <2>2, <2>3, <2>4 DEF Types
<1>9. LostStays
  BY <1>0, <1>3 DEF LostStays, Lost
<1>10. QuitStays
  BY <1>3 DEF QuitStays
<1>11. NoneActivated
  BY <1>0, <1>3, <1>4 DEF NoneActivated, Active, AttSet
<1>12. NoneIndebted
  BY <1>0, <1>3 DEF NoneIndebted
<1>13. NoneRevived
  BY <1>0, <1>3 DEF NoneRevived
<1>14. SameOwners
  BY <1>0, <1>3 DEF SameOwners
<1>15. NoneSent
  BY <1>0, Taken
<1>16. NoneTaken
  BY <1>0, <1>3 DEF NoneTaken
<1>17. SameClosed
  BY <1>0, <1>3, <1>7 DEF SameClosed, ChanSet
<1>18. NoneHeld
  BY <1>0, <1>3 DEF NoneHeld
<1>19. SameReaders
  BY <1>0, <1>3 DEF SameReaders
<1>20. ConnOwned' /\ ReadersLinked' /\ OneConn'
  BY <1>3 DEF IInv, ConnOwned, ReadersLinked, OneConn, Lost
<1>21. AttemptsLinked'
  BY <1>4 DEF IInv, AttemptsLinked, Connected, Active, AttSet
<1>22. Locked'
  BY <1>3, <1>4 DEF IInv, Locked, Holding, Active, AttSet
<1>23. Turns'
  BY <1>3, <1>4 DEF IInv, Turns, Leaving, AttSet
<1>24. Unused'
  BY <1>3, <1>4, <1>7 DEF IInv, Unused, Early, AttSet, ChanSet
<1>25. OneSession'
  BY <1>0, <1>11, <1>16, SessionFrame
<1>26. EventsLinked'
  BY <1>0, <1>11, <1>14, <1>15, LinkedFrame
<1>27. ConnKept'
  BY <1>3, <1>4 DEF IInv, ConnKept, Kept, Lost, Connected, Active, AttSet
<1>28. OpenActive'
  BY <1>0, <1>3, <1>7 DEF IInv, OpenActive, Lost, SessFields, ChanSet
<1>29. OpenRead'
  BY <1>0, <1>9, <1>17, <1>18, OpenFrame
<1>30. ClosedLast'
  BY <1>0, <1>9, <1>11, <1>17, <1>19, ClosedFrame
<1>31. OwesCurrent'
  <2>1. LostStays /\ QuitStays
    BY <1>3 DEF LostStays, QuitStays, Lost
  <2>2. \A b \in Attempts : b # a => att'[b] = att[b]
    BY <1>4 DEF AttSet
  <2>3. SameDebts
    BY <1>0, <1>1, <1>2, <1>3 DEF SameDebts
  <2>4. \A d \in Conns : conns[d].sess = s /\ conns[d].owes # <<>> => Lost(s)' \/ Leaving' \/ s \in deserted'
    BY <1>0, <1>1, <1>2, <1>3, LastEvent DEF Lost, Leaving
  <2> QED
    BY <1>0, <1>1, <1>2, <1>3, <2>1, <2>2, <2>3, <2>4, OwesEnds
<1>32. EventsCurrent'
  BY <1>0, <1>9, <1>10, <1>11, <1>12, <1>13, <1>15, EventsFrame
<1> QED
  BY <1>8, <1>20, <1>21, <1>22, <1>23, <1>24, <1>25, <1>26, <1>27, <1>28, <1>29, <1>30, <1>31, <1>32 DEF IInv

\* What the client gets, or is refused.
LEMMA TurnGoes ==
  ASSUME IInv, NEW a \in Attempts, att[a].at = "stream", ~Cancelled(a), NEW ev, ev.kind \in {"delta", "completed"},
         Passed(a, ev) \/ Refused(a, ev)
  PROVE  /\ client' \in ClientRec /\ client'.at \in {"turn", "listen", "leave"} /\ (client'.at = "turn" => client'.cur = client.cur)
         /\ mixed' \subseteq Sessions /\ deserted' \subseteq Sessions /\ deserted \subseteq deserted'
         /\ ev.kind = "delta" /\ client'.at = "listen" => att[a].sess \in deserted'
         /\ ev.kind = "completed" => deserted' = deserted
<1>1. client \in ClientRec /\ client.at = "turn" /\ mixed \subseteq Sessions /\ deserted \subseteq Sessions
  BY DEF IInv, Types, Cancelled
<1>2. att[a].sess \in Sessions
  BY DEF IInv, AttemptsLinked
<1>3. CASE Passed(a, ev)
  <2>1. PICK at \in {"turn", "leave"} : client' = [client EXCEPT !.sent = TRUE, !.at = at]
    <3>1. CASE open
      BY <1>1, <1>3, <3>1 DEF Passed
    <3>2. CASE ~open
      BY <1>1, <1>3, <3>2 DEF Passed
    <3> QED
      BY <3>1, <3>2
  <2>2. client' \in ClientRec /\ client'.at = at /\ client'.cur = client.cur
    BY <1>1, <2>1 DEF ClientRec
  <2>3. mixed' \subseteq Sessions /\ deserted' = deserted
    BY <1>1, <1>2, <1>3 DEF Passed
  <2> QED
    BY <1>1, <2>2, <2>3
<1>4. CASE Refused(a, ev)
  <2>1. client' \in ClientRec /\ client'.at \in {"listen", "leave"}
    BY <1>1, <1>4 DEF ClientRec, TurnOver, Refused
  <2>2. mixed' = mixed /\ deserted' = IF ev.kind = "completed" THEN deserted ELSE deserted \cup {att[a].sess}
    BY <1>4 DEF Refused, Ending
  <2> QED
    BY <1>1, <1>2, <2>1, <2>2
<1> QED
  BY <1>3, <1>4

\* Whatever is received.
LEMMA ReceiveStep ==
  ASSUME IInv, NEW a \in Attempts, Receive(a)
  PROVE  IInv'
<1> DEFINE ev == Head(chan[a].msgs)  s == att[a].sess  c == att[a].conn
<1>1. CASE UNCHANGED <<sess, att, conns, downstream>>
  <2>1. Takes(a) /\ UNCHANGED <<sess, att, conns, client, mixed, deserted>>
    BY <1>1 DEF Receive, At, Takes, downstream
  <2> QED
    BY <2>1, SkipStep
<1>2. CASE ev.conn = c /\ ev.kind = "fail" /\ Fails(a, "finish") /\ UNCHANGED <<sess, conns, downstream>>
  <2>1. Takes(a) /\ UNCHANGED <<sess, conns, client, mixed, deserted>>
    BY <1>2 DEF Receive, At, Takes, downstream
  <2> QED
    BY <1>2, <2>1, StreamEndsStep DEF Fails
<1>3. CASE sess' = Forget(sess, s, c) /\ conns' = Shut(conns, s, c) /\ Fails(a, "finish") /\ UNCHANGED downstream
  <2>1. Takes(a) /\ UNCHANGED <<client, mixed, deserted>>
    BY <1>3 DEF Receive, At, Takes, downstream
  <2> QED
    BY <1>3, <2>1, StreamErrsStep
<1>4. CASE /\ ev.conn = c /\ ev.kind \in {"delta", "completed"}
           /\ \/ ev.kind \in Ending /\ att' = [att EXCEPT ![a].at = "finish", ![a].res = "ok"]
              \/ ev.kind \notin Ending /\ Cancelled(a) /\ Fails(a, "finish")
              \/ ev.kind \notin Ending /\ ~Cancelled(a) /\ UNCHANGED att
           /\ IF Cancelled(a) THEN UNCHANGED downstream ELSE (Passed(a, ev) \/ Refused(a, ev)) /\ UNCHANGED open
           /\ UNCHANGED <<sess, conns>>
  <2>1. CASE Cancelled(a)
    <3>1. Takes(a) /\ UNCHANGED <<sess, conns, client, mixed, deserted>>
      BY <1>4, <2>1 DEF Receive, At, Takes, downstream
    <3>2. PICK res \in {"ok", "failed"} : att' = [att EXCEPT ![a].at = "finish", ![a].res = res]
      BY <1>4, <2>1 DEF Fails
    <3> QED
      BY <1>4, <2>1, <3>1, <3>2, StreamEndsStep
  <2>2. CASE ~Cancelled(a)
    <3>1. Takes(a) /\ (Passed(a, ev) \/ Refused(a, ev))
      BY <1>4, <2>2 DEF Receive, At, Takes
    <3>2. CASE ev.kind = "completed"
      <4>1. /\ client' \in ClientRec /\ client'.at \in {"turn", "listen", "leave"} /\ (client'.at = "turn" => client'.cur = client.cur)
            /\ mixed' \subseteq Sessions /\ deserted' = deserted
        BY <1>4, <2>2, <3>1, <3>2, TurnGoes DEF Takes
      <4> QED
        BY <1>4, <2>2, <3>1, <3>2, <4>1, PassLastStep DEF Ending
    <3>3. CASE ev.kind = "delta"
      <4>1. /\ client' \in ClientRec /\ client'.at \in {"turn", "listen", "leave"} /\ (client'.at = "turn" => client'.cur = client.cur)
            /\ mixed' \subseteq Sessions /\ deserted' \subseteq Sessions /\ deserted \subseteq deserted'
            /\ client'.at = "listen" => s \in deserted'
        BY <1>4, <2>2, <3>1, <3>3, TurnGoes DEF Takes
      <4> QED
        BY <1>4, <2>2, <3>1, <3>3, <4>1, PassStep DEF Ending
    <3> QED
      BY <1>4, <3>2, <3>3
  <2> QED
    BY <2>1, <2>2
<1> QED
  BY <1>1, <1>2, <1>3, <1>4 DEF Receive

------------------------------------------------------------------------------
(* readUpstreamLoop.                                                        *)

\* A connection that breaks is still the session's; its reader is to find out.
LEMMA BreakStep ==
  ASSUME IInv, NEW c \in Conns, Break(c)
  PROVE  IInv'
<1>0. IInv /\ Types /\ SessFields /\ AttFields /\ ChanFields /\ EventFields /\ ConnFields /\ OwesFields /\ ReaderFields
  BY FieldsTyped DEF IInv, Fields
<1>1. /\ conns[c].state = "up" /\ UNCHANGED <<store, sess, att, chan, reader, client, open, removal, mixed, deserted, panicked>>
  BY <1>0 DEF Break, downstream
<1>2. ConnSet(c, "down", conns[c].sess, conns[c].owes)
  BY <1>0, <1>1 DEF Break, ConnSet, Types, ConnRec
<1>3. Types'
  BY <1>0, <1>1, <1>2, NoneApart DEF Types, ConnSet
<1>4. LostStays
  BY <1>0, <1>1 DEF LostStays, Lost
<1>5. QuitStays
  BY <1>0, <1>1 DEF QuitStays, Leaving
<1>6. StreamsStay
  BY <1>0, <1>1 DEF StreamsStay, AttFields
<1>7. NoneActivated
  BY <1>0, <1>1 DEF NoneActivated, Active
<1>8. SameDebts
  BY <1>0, <1>1, <1>2 DEF SameDebts, ConnSet
<1>9. NoneIndebted
  BY <1>0, <1>1, <1>2 DEF NoneIndebted, ConnSet
<1>10. NoneRevived
  BY <1>0, <1>1, <1>2 DEF NoneRevived, ConnSet
<1>11. SameOwners
  BY <1>0, <1>1, <1>2 DEF SameOwners, ConnSet
<1>12. NoneSent
  BY <1>0, <1>1, SameSent
<1>13. NoneTaken
  BY <1>0, <1>1, <1>2 DEF NoneTaken, ConnSet
<1>14. SameClosed
  BY <1>0, <1>1 DEF SameClosed
<1>15. NoneHeld
  BY <1>0, <1>1, <1>2 DEF NoneHeld, ConnSet
<1>16. SameReaders
  BY <1>0, <1>1, <1>2 DEF SameReaders, ConnSet
<1>17. Locked' /\ Turns' /\ Unused' /\ OpenActive'
  BY <1>1 DEF IInv, Locked, Turns, Unused, OpenActive, Leaving, Lost
<1>18. AttemptsLinked'
  BY <1>1, <1>2 DEF IInv, AttemptsLinked, ConnSet
<1>19. ConnOwned'
  BY <1>0, <1>1, <1>2 DEF IInv, ConnOwned, SessFields, ConnSet
<1>20. ReadersLinked'
  BY <1>1, <1>2 DEF IInv, ReadersLinked, ConnSet
<1>21. OneSession'
  BY <1>0, <1>7, <1>13, SessionFrame
<1>22. EventsLinked'
  BY <1>0, <1>7, <1>11, <1>12, LinkedFrame
<1>23. ConnKept'
  BY <1>1, <1>2 DEF IInv, ConnKept, Kept, Lost, ConnSet
<1>24. OneConn'
  BY <1>1, <1>2 DEF IInv, OneConn, Lost, ConnSet
<1>25. OpenRead'
  BY <1>0, <1>4, <1>14, <1>15, OpenFrame
<1>26. ClosedLast'
  BY <1>0, <1>4, <1>7, <1>14, <1>16, ClosedFrame
<1>27. OwesCurrent'
  BY <1>0, <1>4, <1>5, <1>6, <1>8, OwesFrame
<1>28. EventsCurrent'
  BY <1>0, <1>4, <1>5, <1>7, <1>9, <1>10, <1>12, EventsFrame
<1> QED
  BY <1>3, <1>17, <1>18, <1>19, <1>20, <1>21, <1>22, <1>23, <1>24, <1>25, <1>26, <1>27, <1>28 DEF IInv

\* The reader has taken what it owed first.
LEMMA OwesTail ==
  ASSUME IInv, LostStays, QuitStays, UNCHANGED att, NEW c \in Conns, conns[c].owes # <<>>,
         NEW state, ConnSet(c, state, conns[c].sess, Tail(conns[c].owes))
  PROVE  OwesCurrent'
<1>0. ConnFields /\ OwesFields
  BY FieldsTyped DEF IInv, Fields
<1>1. PICK owes, tail \in Seq(Answer) :
        /\ owes = conns[c].owes /\ tail = Tail(conns[c].owes) /\ Len(tail) = Len(owes) - 1 /\ Len(owes) \in Nat \ {0}
        /\ \A i \in 1..Len(tail) : tail[i] = owes[i + 1]
  <2>1. PICK owes \in Seq(Answer) : owes = conns[c].owes
    BY <1>0 DEF ConnFields
  <2>2. Len(owes) \in Nat \ {0}
    BY <2>1, EmptySeq
  <2>3. PICK tail \in Seq(Answer) : tail = Tail(owes) /\ Len(tail) = Len(owes) - 1
    BY <2>1, <2>2, HeadTailProperties
  <2>4. \A i \in 1..Len(tail) : tail[i] = owes[i + 1]
    BY <2>1, <2>2, <2>3, HeadTailProperties
  <2> QED
    BY <2>1, <2>2, <2>3, <2>4, Zenon
<1> SUFFICES ASSUME NEW d \in Conns, (conns[d].sess # None /\ Watched(conns[d].sess))', NEW i \in 1..Len(conns'[d].owes)
             PROVE  /\ att'[conns'[d].owes[i].of].at = "stream" /\ att'[conns'[d].owes[i].of].sess = conns'[d].sess
                    /\ conns'[d].owes[i].kind = "delta" <=> i < Len(conns'[d].owes)
  BY DEF OwesCurrent
<1>2. conns'[d].sess = conns[d].sess
  BY DEF ConnSet
<1>3. PICK s \in Sessions : s = conns[d].sess
  BY <1>0, <1>2 DEF ConnFields
<1>4. ~Lost(s)' /\ ~Leaving' /\ s \notin deserted'
  BY <1>2, <1>3 DEF Watched, Lost
<1>5. conns[d].sess # None /\ Watched(conns[d].sess)
  BY <1>2, <1>3, <1>4 DEF Watched, LostStays, QuitStays
<1>6. CASE d # c
  <2>1. conns'[d] = conns[d]
    BY <1>6 DEF ConnSet
  <2> QED
    BY <1>5, <2>1 DEF IInv, OwesCurrent
<1>7. CASE d = c
  <2>1. conns'[c].owes = tail
    BY <1>1 DEF ConnSet
  <2>2. i \in 1..Len(tail) /\ i + 1 \in 1..Len(owes) /\ tail[i] = owes[i + 1] /\ (i < Len(tail) <=> i + 1 < Len(owes))
    BY <1>1, <1>7, <2>1
  <2>3. PICK j \in 1..Len(owes) : j = i + 1
    BY <2>2
  <2>4. /\ att[owes[j].of].at = "stream" /\ att[owes[j].of].sess = conns[c].sess
        /\ owes[j].kind = "delta" <=> j < Len(owes)
    BY <1>1, <1>5, <1>7 DEF IInv, OwesCurrent
  <2> QED
    BY <1>2, <1>7, <2>1, <2>2, <2>3, <2>4
<1> QED
  BY <1>6, <1>7

\* A reader takes the channel that is active in its session.
LEMMA TakesUp ==
  ASSUME IInv, NEW c \in Conns, NEW s \in Sessions, s = conns[c].sess, NEW at, ReaderSet(c, at, sess[s].active),
         UNCHANGED <<sess, att>>, \A d \in Conns : conns'[d].sess = conns[d].sess
  PROVE  OneSession'
<1>1. OneSession /\ (\A t \in Sessions : sess'[t].active = sess[t].active) /\ (\A a \in Attempts : att'[a] = att[a])
  BY DEF IInv
<1>2. \A d \in Conns : d # c => reader'[d] = reader[d]
  BY DEF ReaderSet
<1>3. reader'[c].ch = sess[s].active /\ conns'[c].sess = s
  BY DEF ReaderSet
<1>4. \A t, u \in Sessions : sess'[t].active = sess'[u].active /\ sess'[t].active # None => t = u
  BY <1>1 DEF OneSession
<1>5. \A t \in Sessions, d \in Conns : reader'[d].ch = sess'[t].active /\ reader'[d].ch # None => conns'[d].sess = t
  BY <1>1, <1>2, <1>3 DEF OneSession
<1>6. \A d, e \in Conns : reader'[d].ch = reader'[e].ch /\ reader'[d].ch # None => conns'[d].sess = conns'[e].sess
  BY <1>1, <1>2, <1>3 DEF OneSession
<1>7. \A a \in Attempts, t \in Sessions : att'[a].at \in Active /\ sess'[t].active = a => att'[a].sess = t
  BY <1>1 DEF OneSession
<1>8. \A a \in Attempts, d \in Conns : att'[a].at \in Active /\ reader'[d].ch = a => att'[a].sess = conns'[d].sess
  BY <1>1, <1>2, <1>3 DEF OneSession
<1> QED
  BY <1>4, <1>5, <1>6, <1>7, <1>8 DEF OneSession

\* A message nobody waits for is dropped.
LEMMA DropStep ==
  ASSUME IInv, NEW c \in Conns, Read(c), sess[conns[c].sess].active = None
  PROVE  IInv'
<1>0. IInv /\ Types /\ SessFields /\ AttFields /\ ChanFields /\ EventFields /\ ConnFields /\ OwesFields /\ ReaderFields
  BY FieldsTyped DEF IInv, Fields
<1>1. reader[c].at = "read" /\ conns[c].state = "up" /\ conns[c].owes # <<>> /\ reader[c].ch = None
  BY <1>0 DEF IInv, ReadersLinked, Read
<1>2. PICK s \in Sessions : s = conns[c].sess
  BY <1>0, <1>1 DEF IInv, ReadersLinked, ConnFields
<1>3. UNCHANGED <<store, sess, att, chan, client, open, removal, mixed, deserted, panicked>>
  BY <1>0, <1>1, <1>2 DEF Read, downstream
<1>4. ConnSet(c, "up", s, Tail(conns[c].owes))
  <2>1. Tail(conns[c].owes) \in Seq(Answer)
    BY <1>0, <1>1, HeadTailProperties DEF ConnFields
  <2>2. conns' = [conns EXCEPT ![c].owes = Tail(conns[c].owes)]
    BY DEF Read
  <2> QED
    BY <1>0, <1>1, <1>2, <2>1, <2>2 DEF ConnSet, Types, ConnRec
<1>5. UNCHANGED reader
  BY DEF Read
<1>6. Types'
  BY <1>0, <1>3, <1>4, <1>5 DEF Types, ConnSet, ReaderSet
<1>7. LostStays
  BY <1>0, <1>3 DEF LostStays, Lost
<1>8. QuitStays
  BY <1>0, <1>3 DEF QuitStays, Leaving
<1>9. NoneActivated
  BY <1>0, <1>3 DEF NoneActivated, Active
<1>10. NoneIndebted
  BY <1>1, <1>4 DEF NoneIndebted, ConnSet
<1>11. NoneRevived
  BY <1>1, <1>4 DEF NoneRevived, ConnSet
<1>12. SameOwners
  BY <1>2, <1>4 DEF SameOwners, ConnSet
<1>13. NoneSent
  BY <1>0, <1>3, SameSent
<1>14. NoneTaken
  BY <1>2, <1>3, <1>4, <1>5 DEF NoneTaken, ConnSet
<1>15. SameClosed
  BY <1>0, <1>3 DEF SameClosed
<1>16. NoneHeld
  BY <1>2, <1>4, <1>5 DEF NoneHeld, ConnSet
<1>17. SameReaders
  BY <1>2, <1>4, <1>5 DEF SameReaders, ConnSet
<1>18. Locked' /\ Turns' /\ OpenActive'
  BY <1>3 DEF IInv, Locked, Turns, OpenActive, Leaving, Lost
<1>19. AttemptsLinked'
  BY <1>2, <1>3, <1>4 DEF IInv, AttemptsLinked, ConnSet
<1>20. ConnOwned'
  BY <1>0, <1>2, <1>3, <1>4 DEF IInv, ConnOwned, SessFields, ConnSet
<1>21. ReadersLinked'
  BY <1>1, <1>4, <1>5, NoneApart DEF IInv, ReadersLinked, ConnSet
<1>22. Unused'
  BY <1>3, <1>5 DEF IInv, Unused, Early
<1>23. OneSession'
  BY <1>0, <1>9, <1>14, SessionFrame
<1>24. EventsLinked'
  BY <1>0, <1>9, <1>12, <1>13, LinkedFrame
<1>25. ConnKept'
  BY <1>2, <1>3, <1>4 DEF IInv, ConnKept, Kept, Lost, ConnSet
<1>26. OneConn'
  BY <1>2, <1>3, <1>4 DEF IInv, OneConn, Lost, ConnSet
<1>27. OpenRead'
  BY <1>0, <1>7, <1>15, <1>16, OpenFrame
<1>28. ClosedLast'
  BY <1>0, <1>7, <1>9, <1>15, <1>17, ClosedFrame
<1>29. OwesCurrent'
  <2>1. LostStays /\ QuitStays
    BY <1>3 DEF LostStays, QuitStays, Lost, Leaving
  <2> QED
    BY <1>0, <1>1, <1>2, <1>3, <1>4, <2>1, OwesTail
<1>30. EventsCurrent'
  BY <1>0, <1>7, <1>8, <1>9, <1>10, <1>11, <1>13, EventsFrame
<1> QED
  BY <1>6, <1>18, <1>19, <1>20, <1>21, <1>22, <1>23, <1>24, <1>25, <1>26, <1>27, <1>28, <1>29, <1>30 DEF IInv

\* A reader that has a message takes the channel that is active.
LEMMA FetchStep ==
  ASSUME IInv, NEW c \in Conns, Read(c), sess[conns[c].sess].active # None
  PROVE  IInv'
<1>0. IInv /\ Types /\ SessFields /\ AttFields /\ ChanFields /\ EventFields /\ ConnFields /\ OwesFields /\ ReaderFields
  BY FieldsTyped DEF IInv, Fields
<1>1. reader[c].at = "read" /\ conns[c].state = "up" /\ conns[c].owes # <<>> /\ reader[c].ch = None
  BY <1>0 DEF IInv, ReadersLinked, Read
<1>2. PICK s \in Sessions : s = conns[c].sess
  BY <1>0, <1>1 DEF IInv, ReadersLinked, ConnFields
<1>3. UNCHANGED <<store, sess, att, chan, client, open, removal, mixed, deserted, panicked>>
  BY <1>0, <1>1, <1>2 DEF Read, downstream
<1>4. ReaderSet(c, "deliver", sess[s].active)
  BY <1>0, <1>2 DEF Read, ReaderSet, Types, ReaderRec, SessFields
<1>5. UNCHANGED conns
  BY DEF Read
<1>6. Types'
  BY <1>0, <1>3, <1>4, <1>5 DEF Types, ReaderSet
<1>7. LostStays
  BY <1>0, <1>3 DEF LostStays, Lost
<1>8. QuitStays
  BY <1>0, <1>3 DEF QuitStays, Leaving
<1>9. StreamsStay
  BY <1>0, <1>3 DEF StreamsStay, AttFields
<1>10. NoneActivated
  BY <1>0, <1>3 DEF NoneActivated, Active
<1>11. SameDebts
  BY <1>0, <1>3, <1>5 DEF SameDebts, ConnSet
<1>12. NoneIndebted
  BY <1>0, <1>3, <1>5 DEF NoneIndebted, ConnSet
<1>13. NoneRevived
  BY <1>0, <1>3, <1>5 DEF NoneRevived, ConnSet
<1>14. SameOwners
  BY <1>0, <1>3, <1>5 DEF SameOwners, ConnSet
<1>15. NoneSent
  BY <1>0, <1>3, SameSent
<1>16. Locked' /\ Turns' /\ OpenActive'
  BY <1>3 DEF IInv, Locked, Turns, OpenActive, Leaving, Lost
<1>17. AttemptsLinked'
  BY <1>3, <1>5 DEF IInv, AttemptsLinked
<1>18. ConnOwned'
  BY <1>3, <1>5 DEF IInv, ConnOwned
<1>19. ReadersLinked'
  BY <1>1, <1>2, <1>4, <1>5 DEF IInv, ReadersLinked, ReaderSet
<1>20. Unused'
  BY <1>3, <1>4 DEF IInv, Unused, ReaderSet
<1>21. OneSession'
  <2>1. \A d \in Conns : conns'[d].sess = conns[d].sess
    BY <1>5
  <2> QED
    BY <1>0, <1>1, <1>2, <1>3, <1>4, <2>1, TakesUp
<1>22. EventsLinked'
  BY <1>0, <1>10, <1>14, <1>15, LinkedFrame
<1>23. ConnKept'
  BY <1>3, <1>5 DEF IInv, ConnKept, Kept, Lost
<1>24. OneConn'
  BY <1>3, <1>5 DEF IInv, OneConn, Lost
<1>25. OpenRead'
  BY <1>2, <1>3, <1>4, <1>5 DEF IInv, OpenRead, Lost, ReaderSet, OpenActive
<1>26. ClosedLast'
  BY <1>1, <1>3, <1>4, <1>5 DEF IInv, ClosedLast, Lost, ReaderSet
<1>27. OwesCurrent'
  BY <1>0, <1>7, <1>8, <1>9, <1>11, OwesFrame
<1>28. EventsCurrent'
  BY <1>0, <1>7, <1>8, <1>10, <1>12, <1>13, <1>15, EventsFrame
<1> QED
  BY <1>6, <1>16, <1>17, <1>18, <1>19, <1>20, <1>21, <1>22, <1>23, <1>24, <1>25, <1>26, <1>27, <1>28 DEF IInv

\* A reader that fails forgets what its connection owed.
LEMMA ReadFailsStep ==
  ASSUME IInv, NEW c \in Conns, ReadFails(c)
  PROVE  IInv'
<1>0. IInv /\ Types /\ SessFields /\ AttFields /\ ChanFields /\ EventFields /\ ConnFields /\ OwesFields /\ ReaderFields
  BY FieldsTyped DEF IInv, Fields
<1>1. reader[c].at = "read" /\ conns[c].state # "up" /\ reader[c].ch = None
  BY <1>0 DEF IInv, ReadersLinked, ReadFails
<1>2. PICK s \in Sessions : s = conns[c].sess
  BY <1>0, <1>1 DEF IInv, ReadersLinked, ConnFields
<1>3. PICK at \in {"invalidate", "tell"} : at = IF sess[s].active = None THEN "invalidate" ELSE "tell"
  OBVIOUS
<1>4. UNCHANGED <<store, sess, att, chan, client, open, removal, mixed, deserted, panicked>>
  BY <1>0, <1>1, <1>2, <1>3 DEF ReadFails, downstream
<1>5. ReaderSet(c, at, sess[s].active)
  BY <1>0, <1>2, <1>3 DEF ReadFails, ReaderSet, Types, ReaderRec, SessFields
<1>6. ConnSet(c, conns[c].state, s, <<>>)
  <2>1. <<>> \in Seq(Answer)
    OBVIOUS
  <2> QED
    BY <1>0, <1>2, <2>1, ZenonT(60) DEF ReadFails, ConnSet, Types, ConnRec
<1>7. Types'
  BY <1>0, <1>4, <1>5, <1>6 DEF Types, ReaderSet, ConnSet
<1>8. LostStays
  BY <1>0, <1>4 DEF LostStays, Lost
<1>9. QuitStays
  BY <1>0, <1>4 DEF QuitStays, Leaving
<1>10. StreamsStay
  BY <1>0, <1>4 DEF StreamsStay, AttFields
<1>11. NoneActivated
  BY <1>0, <1>4 DEF NoneActivated, Active
<1>12. SameDebts
  BY <1>0, <1>4, <1>6 DEF SameDebts, ConnSet
<1>13. NoneIndebted
  BY <1>0, <1>4, <1>6 DEF NoneIndebted, ConnSet
<1>14. NoneRevived
  BY <1>0, <1>4, <1>6 DEF NoneRevived, ConnSet
<1>15. SameOwners
  BY <1>2, <1>6 DEF SameOwners, ConnSet
<1>16. NoneSent
  BY <1>0, <1>4, SameSent
<1>17. Locked' /\ Turns' /\ OpenActive'
  BY <1>4 DEF IInv, Locked, Turns, OpenActive, Leaving, Lost
<1>18. AttemptsLinked'
  BY <1>2, <1>4, <1>6 DEF IInv, AttemptsLinked, ConnSet
<1>19. ConnOwned'
  BY <1>0, <1>2, <1>4, <1>6 DEF IInv, ConnOwned, SessFields, ConnSet
<1>20. ReadersLinked'
  BY <1>1, <1>3, <1>5, <1>6, NoneApart DEF IInv, ReadersLinked, ReaderSet, ConnSet
<1>21. Unused'
  BY <1>4, <1>5 DEF IInv, Unused, ReaderSet
<1>22. OneSession'
  <2>1. \A d \in Conns : conns'[d].sess = conns[d].sess
    BY <1>2, <1>6 DEF ConnSet
  <2> QED
    BY <1>0, <1>1, <1>2, <1>3, <1>4, <1>5, <2>1, TakesUp
<1>23. EventsLinked'
  BY <1>0, <1>11, <1>15, <1>16, LinkedFrame
<1>24. ConnKept'
  BY <1>2, <1>4, <1>6 DEF IInv, ConnKept, Kept, Lost, ConnSet
<1>25. OneConn'
  BY <1>1, <1>2, <1>4, <1>6 DEF IInv, OneConn, Lost, ConnSet
<1>26. OpenRead'
  BY <1>3, <1>4, <1>5, <1>6 DEF IInv, OpenRead, Lost, ReaderSet, ConnSet, OpenActive
<1>27. ClosedLast'
  BY <1>1, <1>2, <1>4, <1>5, <1>6 DEF IInv, ClosedLast, Lost, ReaderSet, ConnSet
<1>28. OwesCurrent'
  BY <1>0, <1>8, <1>9, <1>10, <1>12, OwesFrame
<1>29. EventsCurrent'
  BY <1>0, <1>8, <1>9, <1>11, <1>13, <1>14, <1>16, EventsFrame
<1> QED
  BY <1>7, <1>17, <1>18, <1>19, <1>20, <1>21, <1>22, <1>23, <1>24, <1>25, <1>26, <1>27, <1>28, <1>29 DEF IInv

\* The reader of a failed connection takes it from its session, and is gone.
LEMMA InvalidateStep ==
  ASSUME IInv, NEW c \in Conns, Invalidate(c)
  PROVE  IInv'
<1>0. IInv /\ Types /\ SessFields /\ AttFields /\ ChanFields /\ EventFields /\ ConnFields /\ OwesFields /\ ReaderFields
  BY FieldsTyped DEF IInv, Fields
<1>1. reader[c].at = "invalidate" /\ conns[c].owes = <<>> /\ conns[c].state \notin {"none", "up"}
  BY <1>0 DEF IInv, ReadersLinked, Invalidate
<1>2. PICK s \in Sessions : s = conns[c].sess
  BY <1>0, <1>1 DEF IInv, ReadersLinked, ConnFields
<1>3. UNCHANGED <<store, att, chan, client, open, removal, mixed, deserted, panicked>>
  BY <1>0, <1>1, <1>2 DEF Invalidate, downstream
<1>4. SessSet(s, sess[s].lock, IF sess[s].conn = c THEN None ELSE sess[s].conn, sess[s].active,
              sess[s].told \/ sess[s].conn = c)
  BY <1>0, <1>1, <1>2, <1>3, Forgettings DEF Invalidate
<1>5. ConnSet(c, IF sess[s].conn = c THEN "shut" ELSE conns[c].state, None, <<>>)
  <2> DEFINE cs == Shut(conns, s, c)  new == [NoConn EXCEPT !.state = cs[c].state]
  <2>1. /\ cs \in [Conns -> ConnRec] /\ \A d \in Conns : d # c => cs[d] = conns[d]
        /\ cs[c].state = (IF sess[s].conn = c THEN "shut" ELSE conns[c].state)
    BY <1>0 DEF Types, ConnRec, Shut
  <2>2. conns' = [cs EXCEPT ![c] = new]
    BY <1>2 DEF Invalidate
  <2>3. NoConn \in ConnRec /\ NoConn.sess = None /\ NoConn.owes = <<>>
    BY DEF NoConn, ConnRec
  <2> HIDE DEF cs
  <2>4. new \in ConnRec /\ new.state = cs[c].state /\ new.sess = None /\ new.owes = <<>>
    BY <2>1, <2>3 DEF ConnRec
  <2> HIDE DEF new
  <2> QED
    BY <2>1, <2>2, <2>4 DEF ConnSet
<1>6. ReaderSet(c, "gone", None)
  <2>1. [NoRead EXCEPT !.at = "gone"] = [at |-> "gone", ch |-> None]
    BY DEF NoRead
  <2> QED
    BY <1>0, <2>1 DEF Invalidate, ReaderSet, Types, ReaderRec
<1>7. Types'
  BY <1>0, <1>3, <1>4, <1>5, <1>6 DEF Types, SessSet, ConnSet, ReaderSet
<1>8. LostStays
  BY <1>0, <1>3, <1>4 DEF LostStays, Lost, SessSet
<1>9. QuitStays
  BY <1>0, <1>3 DEF QuitStays, Leaving
<1>10. StreamsStay
  BY <1>0, <1>3 DEF StreamsStay, AttFields
<1>11. NoneActivated
  BY <1>0, <1>3 DEF NoneActivated, Active
<1>12. SameDebts
  BY <1>0, <1>3, <1>5 DEF SameDebts, ConnSet
<1>13. NoneIndebted
  BY <1>0, <1>3, <1>5 DEF NoneIndebted, ConnSet
<1>14. NoneRevived
  BY <1>0, <1>3, <1>5 DEF NoneRevived, ConnSet
<1>15. SameOwners
  BY <1>0, <1>3, <1>5 DEF SameOwners, ConnSet
<1>16. NoneSent
  BY <1>0, <1>3, SameSent
<1>17. NoneTaken
  BY <1>4, <1>5, <1>6 DEF NoneTaken, SessSet, ConnSet, ReaderSet
<1>18. SameClosed
  BY <1>0, <1>3 DEF SameClosed
<1>19. NoneHeld
  BY <1>5, <1>6 DEF NoneHeld, ConnSet, ReaderSet
<1>20. Turns'
  BY <1>0, <1>3 DEF IInv, Turns, Leaving
<1>21. AttemptsLinked'
  BY <1>3, <1>5 DEF IInv, AttemptsLinked, ConnSet
<1>22. Locked'
  BY <1>3, <1>4 DEF IInv, Locked, Holding, Active, AttemptsLinked, SessSet
<1>23. ConnOwned'
  BY <1>0, <1>2, <1>4, <1>5 DEF IInv, ConnOwned, SessFields, SessSet, ConnSet
<1>24. ReadersLinked'
  BY <1>1, <1>5, <1>6 DEF IInv, ReadersLinked, ConnSet, ReaderSet
<1>25. Unused'
  BY <1>3, <1>4, <1>6, NoneApart DEF IInv, Unused, Early, SessSet, ReaderSet
<1>26. OneSession'
  BY <1>0, <1>11, <1>17, SessionFrame
<1>27. EventsLinked'
  BY <1>0, <1>11, <1>15, <1>16, LinkedFrame
<1>28. ConnKept'
  <2>2. LostStays /\ KeptStays
    BY <1>3, <1>4 DEF LostStays, KeptStays, Kept, Lost, SessSet
  <2>3. NoneDialled
    BY <1>5 DEF NoneDialled, ConnSet
  <2>4. \A b \in Attempts : att'[b].at \in Connected => ConnectedBefore(b)
    BY <1>0, <1>1, <1>2, <1>3 DEF ConnectedBefore
  <2> QED
    BY <1>0, <1>1, <1>2, <1>3, <2>2, <2>3, <2>4, KeptFrame
<1>29. OneConn'
  <2>1. NoneDialled
    BY <1>5 DEF NoneDialled, ConnSet
  <2> QED
    BY <1>0, <1>8, <2>1, OneConnFrame
<1>30. OpenActive'
  BY <1>0, <1>3, <1>4 DEF IInv, OpenActive, Lost, SessFields, SessSet
<1>31. OpenRead'
  BY <1>0, <1>8, <1>18, <1>19, OpenFrame
<1>32. ClosedLast'
  <2> SUFFICES ASSUME NEW b \in Attempts, NEW d \in Conns,
                      (att[b].at \in Active /\ chan[b].closed /\ ~Lost(att[b].sess) /\ conns[d].sess = att[b].sess)'
               PROVE  reader'[d].at = "invalidate"
    BY DEF ClosedLast
  <2>1. PICK t \in Sessions : t = att[b].sess /\ att' = att /\ chan' = chan
    BY <1>3 DEF IInv, AttemptsLinked, Active
  <2>2. d # c
    BY <1>5, <2>1, NoneApart DEF ConnSet
  <2>3. ~Lost(t)
    BY <1>0, <1>1, <1>3, <1>4, <2>1 DEF Lost, SessSet
  <2> QED
    BY <1>5, <1>6, <2>1, <2>2, <2>3 DEF IInv, ClosedLast, ConnSet, ReaderSet
<1>33. OwesCurrent'
  BY <1>0, <1>8, <1>9, <1>10, <1>12, OwesFrame
<1>34. EventsCurrent'
  BY <1>0, <1>8, <1>9, <1>11, <1>13, <1>14, <1>16, EventsFrame
<1> QED
  BY <1>7, <1>20, <1>21, <1>22, <1>23, <1>24, <1>25, <1>26, <1>27, <1>28, <1>29, <1>30, <1>31, <1>32, <1>33,
         <1>34 DEF IInv

\* The reader closes a channel as the last thing it does with it.
LEMMA CloseChannelStep ==
  ASSUME IInv, NEW c \in Conns, CloseChannel(c)
  PROVE  IInv'
<1>0. IInv /\ Types /\ SessFields /\ AttFields /\ ChanFields /\ EventFields /\ ConnFields /\ OwesFields /\ ReaderFields
  BY FieldsTyped DEF IInv, Fields
<1>1. reader[c].at = "close"
  BY DEF CloseChannel
<1>2. PICK s \in Sessions : s = conns[c].sess
  BY <1>0, <1>1 DEF IInv, ReadersLinked, ConnFields
<1>3. PICK ch \in Attempts : ch = reader[c].ch
  BY <1>0, <1>1 DEF IInv, ReadersLinked, ReaderFields
<1>4. /\ att[ch].at \notin Early
      /\ UNCHANGED <<store, att, conns, client, open, removal, mixed, deserted>>
  BY <1>3 DEF IInv, Unused, CloseChannel, downstream
<1>5. SessSet(s, sess[s].lock, sess[s].conn, IF sess[s].active = ch THEN None ELSE sess[s].active, sess[s].told)
  <2>0. sess \in [Sessions -> SessionRec] /\ sess' = Cleared(sess, s, ch)
    BY <1>0, <1>2, <1>3 DEF Types, CloseChannel
  <2>1. CASE sess[s].active = ch
    BY <1>3, <2>0, <2>1 DEF SessSet, SessionRec, Cleared
  <2>2. CASE sess[s].active # ch
    BY <2>0, <2>2 DEF SessSet, SessionRec, Cleared
  <2> QED
    BY <2>1, <2>2
<1>6. ChanSet(ch, chan[ch].msgs, TRUE)
  BY <1>0, <1>2, <1>3 DEF CloseChannel, ChanSet, Types, ChanRec, Done
<1>7. ReaderSet(c, "invalidate", ch)
  BY <1>0, <1>3 DEF CloseChannel, ReaderSet, Types, ReaderRec
<1>8. panicked' \in BOOLEAN
  BY <1>0, <1>3 DEF CloseChannel, ChanFields
<1>9. Types'
  BY <1>0, <1>2, <1>4, <1>5, <1>6, <1>7, <1>8 DEF Types, SessSet, ChanSet, ReaderSet
<1>10. LostStays
  BY <1>0, <1>4, <1>5 DEF LostStays, Lost, SessSet
<1>11. QuitStays
  BY <1>0, <1>4 DEF QuitStays, Leaving
<1>12. StreamsStay
  BY <1>0, <1>4 DEF StreamsStay, AttFields
<1>13. NoneActivated
  BY <1>0, <1>4 DEF NoneActivated, Active
<1>14. SameDebts
  BY <1>0, <1>4 DEF SameDebts
<1>15. NoneIndebted
  BY <1>0, <1>4 DEF NoneIndebted
<1>16. NoneRevived
  BY <1>0, <1>4 DEF NoneRevived
<1>17. SameOwners
  BY <1>0, <1>4 DEF SameOwners
<1>18. NoneSent
  BY <1>0, <1>4, <1>6, SameSent DEF ChanSet
<1>19. NoneTaken
  BY <1>3, <1>4, <1>5, <1>7 DEF NoneTaken, SessSet, ReaderSet
<1>20. AttemptsLinked' /\ Turns'
  BY <1>0, <1>4 DEF IInv, AttemptsLinked, Turns, Leaving
<1>21. Locked'
  BY <1>4, <1>5 DEF IInv, Locked, Holding, Active, AttemptsLinked, SessSet
<1>22. ConnOwned'
  BY <1>4, <1>5 DEF IInv, ConnOwned, SessSet
<1>23. ReadersLinked'
  BY <1>1, <1>4, <1>7 DEF IInv, ReadersLinked, ReaderSet
<1>24. Unused'
  BY <1>4, <1>5, <1>6, <1>7, NoneApart DEF IInv, Unused, Early, SessSet, ChanSet, ReaderSet
<1>25. OneSession'
  BY <1>0, <1>13, <1>19, SessionFrame
<1>26. EventsLinked'
  BY <1>0, <1>13, <1>17, <1>18, LinkedFrame
<1>27. ConnKept'
  BY <1>0, <1>4, <1>5 DEF IInv, ConnKept, Kept, Lost, Connected, Active, AttemptsLinked, ConnFields, SessFields,
         SessSet
<1>28. OneConn'
  BY <1>0, <1>4, <1>5, NoneApart DEF IInv, OneConn, Lost, ConnFields, SessSet
<1>29. OpenActive'
  <2> SUFFICES ASSUME NEW t \in Sessions, (sess[t].active # None /\ ~Lost(t))' PROVE ~chan'[sess'[t].active].closed
    BY DEF OpenActive
  <2>1. sess'[t].active = sess[t].active /\ ~Lost(t)
    BY <1>4, <1>5 DEF SessSet, Lost
  <2>2. sess[t].active # ch
    BY <1>2, <1>3, <1>5 DEF IInv, OneSession, SessSet
  <2> QED
    BY <1>0, <1>6, <2>1, <2>2 DEF IInv, OpenActive, ChanSet, SessFields
<1>30. OpenRead'
  <2> SUFFICES ASSUME NEW d \in Conns, (reader[d].at \in {"deliver", "tell", "close"} /\ ~Lost(conns[d].sess))'
               PROVE  ~chan'[reader'[d].ch].closed
    BY DEF OpenRead
  <2>1. d # c /\ reader'[d] = reader[d] /\ conns' = conns
    BY <1>4, <1>7 DEF ReaderSet
  <2>2. PICK t \in Sessions : t = conns[d].sess
    BY <1>0, <2>1 DEF IInv, ReadersLinked, ConnFields
  <2>3. ~Lost(t)
    BY <1>4, <1>5, <2>2 DEF Lost, SessSet
  <2>4. t # s
    BY <1>2, <2>1, <2>2, <2>3, NoneApart DEF IInv, OneConn
  <2>5. reader[d].ch # ch
    BY <1>2, <1>3, <2>2, <2>4, NoneApart DEF IInv, OneSession
  <2>6. reader[d].ch \in Attempts
    BY <1>0, <2>1 DEF IInv, ReadersLinked, ReaderFields
  <2> QED
    BY <1>6, <2>1, <2>2, <2>3, <2>5, <2>6 DEF IInv, OpenRead, ChanSet
<1>31. ClosedLast'
  <2> SUFFICES ASSUME NEW b \in Attempts, NEW d \in Conns,
                      (att[b].at \in Active /\ chan[b].closed /\ ~Lost(att[b].sess) /\ conns[d].sess = att[b].sess)'
               PROVE  reader'[d].at = "invalidate"
    BY DEF ClosedLast
  <2>1. PICK t \in Sessions : t = att[b].sess /\ att' = att /\ conns' = conns
    BY <1>4 DEF IInv, AttemptsLinked, Active
  <2>2. ~Lost(t)
    BY <1>4, <1>5, <2>1 DEF Lost, SessSet
  <2>3. CASE d = c
    BY <1>7, <2>3 DEF ReaderSet
  <2>4. CASE d # c /\ b = ch
    <3>1. t = s
      BY <1>2, <1>3, <2>1, <2>4 DEF IInv, OneSession
    <3> QED
      BY <1>2, <2>1, <2>2, <2>4, <3>1, NoneApart DEF IInv, OneConn
  <2>5. CASE d # c /\ b # ch
    BY <1>6, <1>7, <2>1, <2>2, <2>5 DEF IInv, ClosedLast, ChanSet, ReaderSet
  <2> QED
    BY <2>3, <2>4, <2>5
<1>32. OwesCurrent'
  BY <1>0, <1>10, <1>11, <1>12, <1>14, OwesFrame
<1>33. EventsCurrent'
  BY <1>0, <1>10, <1>11, <1>13, <1>15, <1>16, <1>18, EventsFrame
<1> QED
  BY <1>9, <1>20, <1>21, <1>22, <1>23, <1>24, <1>25, <1>26, <1>27, <1>28, <1>29, <1>30, <1>31, <1>32, <1>33 DEF IInv

\* A reader offers an event to the channel it took: the channel may take it.
Offers(c, ch, kind, of) ==
  /\ chan' \in [Attempts -> ChanRec] /\ SameClosed
  /\ \A b \in Attempts : Len(chan'[b].msgs) <= Cap
  /\ \A b \in Attempts : b # ch => chan'[b] = chan[b]
  /\ \A b \in Attempts : \A i \in 1..Len(chan'[b].msgs) :
       \/ \E j \in 1..Len(chan[b].msgs) : chan'[b].msgs[i] = chan[b].msgs[j]
       \/ /\ b = ch /\ chan'[b].msgs[i].conn = c
          /\ chan'[b].msgs[i].kind = kind /\ chan'[b].msgs[i].of = of

\* A reader offers one message to the channel it knows, or none.
LEMMA Offerings ==
  ASSUME IInv, NEW c \in Conns, NEW ch \in Attempts, ch = reader[c].ch,
         NEW kind \in AnswerKinds \cup {"fail"}, NEW of \in Attempts \cup {None},
         (Room(ch) /\ chan' = Offer(c, kind, of)) \/ UNCHANGED chan
  PROVE  Offers(c, ch, kind, of)
<1>0. Types /\ ChanFields
  BY FieldsTyped DEF IInv, Fields
<1>1. CASE UNCHANGED chan
  BY <1>0, <1>1 DEF Offers, SameClosed, Types
<1>2. CASE Room(ch) /\ chan' = Offer(c, kind, of)
  <2> DEFINE e == [conn |-> c, kind |-> kind, of |-> of]
  <2>1. e \in Event /\ e.conn = c /\ e.kind = kind /\ e.of = of
    BY DEF Event
  <2>2. PICK old \in Seq(Event) : old = chan[ch].msgs /\ Len(old) < Cap /\ Len(old) \in Nat
    BY <1>0, <1>2 DEF ChanFields, Room
  <2>3. PICK new : new = Append(old, e)
    OBVIOUS
  <2>4. chan' = [chan EXCEPT ![ch].msgs = new]
    BY <1>2, <2>2, <2>3 DEF Offer
  <2> HIDE DEF e
  <2>10. /\ new \in Seq(Event) /\ Len(new) = Len(old) + 1 /\ new[Len(old) + 1] = e
         /\ \A i \in 1..Len(old) : new[i] = old[i]
    BY <2>1, <2>3, AppendProperties
  <2>11. ChanRec = [msgs: Seq(Event), closed: BOOLEAN, done: BOOLEAN] /\ chan \in [Attempts -> ChanRec]
    BY <1>0 DEF Types, ChanRec
  <2>12. chan' \in [Attempts -> ChanRec]
    <3>1. [chan[ch] EXCEPT !.msgs = new] \in ChanRec
      BY <2>10, <2>11
    <3> HIDE DEF ChanRec
    <3>2. chan' = [chan EXCEPT ![ch] = [chan[ch] EXCEPT !.msgs = new]]
      BY <2>4
    <3> QED
      BY <2>11, <3>1, <3>2
  <2>13. chan'[ch].msgs = new /\ chan'[ch].closed = chan[ch].closed
    BY <2>4, <2>11
  <2>14. \A b \in Attempts : b # ch => chan'[b] = chan[b]
    BY <2>4, <2>11
  <2>5. /\ chan' \in [Attempts -> ChanRec] /\ (\A b \in Attempts : b # ch => chan'[b] = chan[b])
        /\ chan'[ch].msgs = new /\ chan'[ch].closed = chan[ch].closed
    BY <2>12, <2>13, <2>14
  <2>6. SameClosed
    BY <2>5 DEF SameClosed
  <2>7. Len(new) <= Cap
    BY <2>2, <2>10, SessionAssumption
  <2>8. ASSUME NEW b \in Attempts PROVE Len(chan'[b].msgs) <= Cap
    BY <1>0, <2>5, <2>7 DEF Types
  <2>9. ASSUME NEW b \in Attempts, NEW i \in 1..Len(chan'[b].msgs)
        PROVE  \/ \E j \in 1..Len(chan[b].msgs) : chan'[b].msgs[i] = chan[b].msgs[j]
               \/ /\ b = ch /\ chan'[b].msgs[i].conn = c
                  /\ chan'[b].msgs[i].kind = kind /\ chan'[b].msgs[i].of = of
    <3>1. CASE b # ch
      BY <2>5, <3>1
    <3>2. CASE b = ch
      <4>1. chan'[b].msgs[i] = new[i] /\ i \in Nat /\ 1 <= i /\ i <= Len(old) + 1
        BY <2>2, <2>5, <2>10, <3>2
      <4>2. i \in 1..Len(old) \/ i = Len(old) + 1
        <5>1. PICK n \in Nat : n = Len(old)
          BY <2>2
        <5>2. i \in 1..n \/ i = n + 1
          BY <4>1, <5>1
        <5> QED
          BY <5>1, <5>2
      <4> QED
        BY <2>1, <2>2, <2>10, <3>2, <4>1, <4>2
    <3> QED
      BY <3>1, <3>2
  <2> QED
    BY <2>5, <2>6, <2>8, <2>9 DEF Offers
<1> QED
  BY <1>1, <1>2

\* What holds of the offered event holds of all.
LEMMA EventsGrow ==
  ASSUME IInv, LostStays, QuitStays, NoneActivated, NoneIndebted, NoneRevived,
         NEW c \in Conns, NEW ch \in Attempts, NEW kind, NEW of, Offers(c, ch, kind, of),
         (att[ch].at \in Active /\ Watched(att[ch].sess))' =>
           /\ kind # "fail" => of = ch /\ att'[ch].at = "stream"
           /\ kind # "delta" => conns'[c].owes = <<>>
           /\ kind = "fail" => conns'[c].state # "up"
  PROVE  EventsCurrent'
<1> SUFFICES ASSUME NEW a \in Attempts, (att[a].at \in Active /\ Watched(att[a].sess))', NEW i \in 1..Len(chan'[a].msgs)
             PROVE  /\ chan'[a].msgs[i].kind # "fail" => chan'[a].msgs[i].of = a /\ att'[a].at = "stream"
                    /\ chan'[a].msgs[i].kind # "delta" => conns'[chan'[a].msgs[i].conn].owes = <<>>
                    /\ chan'[a].msgs[i].kind = "fail" => conns'[chan'[a].msgs[i].conn].state # "up"
  BY DEF EventsCurrent
<1>1. CASE \E j \in 1..Len(chan[a].msgs) : chan'[a].msgs[i] = chan[a].msgs[j]
  BY <1>1, OldEvent
<1>2. CASE /\ a = ch /\ chan'[a].msgs[i].conn = c
           /\ chan'[a].msgs[i].kind = kind /\ chan'[a].msgs[i].of = of
  BY <1>2
<1> QED
  BY <1>1, <1>2 DEF Offers

\* It belongs to the session of the connection it came from.
LEMMA LinksGrow ==
  ASSUME IInv, NoneActivated, SameOwners,
         NEW c \in Conns, NEW ch \in Attempts, NEW kind, NEW of, Offers(c, ch, kind, of),
         ch = reader[c].ch, conns[c].sess # None, conns[c].state # "none"
  PROVE  EventsLinked'
<1>0. EventFields
  BY FieldsTyped DEF IInv, Fields
<1> SUFFICES ASSUME NEW a \in Attempts, att'[a].at \in Active, NEW i \in 1..Len(chan'[a].msgs)
             PROVE  /\ conns'[chan'[a].msgs[i].conn].sess \in {att'[a].sess, None}
                    /\ conns'[chan'[a].msgs[i].conn].state # "none"
  BY DEF EventsLinked
<1>1. att[a].at \in Active /\ att'[a].sess = att[a].sess
  BY DEF NoneActivated
<1>2. CASE \E j \in 1..Len(chan[a].msgs) : chan'[a].msgs[i] = chan[a].msgs[j]
  <2>1. PICK j \in 1..Len(chan[a].msgs) : chan'[a].msgs[i] = chan[a].msgs[j]
    BY <1>2
  <2>2. /\ chan[a].msgs[j].conn \in Conns
        /\ conns[chan[a].msgs[j].conn].sess \in {att[a].sess, None}
        /\ conns[chan[a].msgs[j].conn].state # "none"
    BY <1>0, <1>1 DEF EventFields, EventsLinked, IInv
  <2> QED
    BY <1>1, <2>1, <2>2 DEF SameOwners
<1>3. CASE a = ch /\ chan'[a].msgs[i].conn = c
  <2>1. att[a].sess = conns[c].sess
    BY <1>1, <1>3 DEF IInv, OneSession
  <2> QED
    BY <1>1, <1>3, <2>1 DEF SameOwners
<1> QED
  BY <1>2, <1>3 DEF Offers

\* What is delivered to an active attempt is the rest of its own answer.
LEMMA DeliverStep ==
  ASSUME IInv, NEW c \in Conns, Deliver(c)
  PROVE  IInv'
<1>0. IInv /\ Types /\ SessFields /\ AttFields /\ ChanFields /\ EventFields /\ ConnFields /\ OwesFields /\ ReaderFields
  BY FieldsTyped DEF IInv, Fields
<1>1. reader[c].at = "deliver" /\ conns[c].owes # <<>> /\ conns[c].state # "none"
  BY <1>0 DEF IInv, ReadersLinked, Deliver
<1>2. PICK s \in Sessions : s = conns[c].sess /\ conns[c].sess # None
  BY <1>0, <1>1, NoneApart DEF IInv, ReadersLinked, ConnFields
<1>3. PICK ch \in Attempts : ch = reader[c].ch
  BY <1>0, <1>1 DEF IInv, ReadersLinked, ReaderFields
<1>4. PICK m \in Answer : m = Head(conns[c].owes) /\ m = conns[c].owes[1] /\ 1 \in 1..Len(conns[c].owes)
  <2>1. PICK owes \in Seq(Answer) : owes = conns[c].owes /\ owes # <<>>
    BY <1>0, <1>1 DEF ConnFields
  <2>2. Len(owes) \in Nat \ {0} /\ Head(owes) \in Answer /\ Head(owes) = owes[1]
    BY <2>1, EmptySeq
  <2> QED
    BY <2>1, <2>2
<1>5. PICK kind \in AnswerKinds, of \in Attempts : kind = m.kind /\ of = m.of
  BY DEF Answer
<1>6. /\ att[ch].at \notin Early
      /\ UNCHANGED <<store, sess, att, client, open, removal, mixed, deserted>>
  BY <1>3 DEF IInv, Unused, Deliver, downstream
<1>7. Offers(c, ch, kind, of)
  <2>1. (Room(ch) /\ chan' = Offer(c, kind, of)) \/ UNCHANGED chan
    BY <1>3, <1>4, <1>5 DEF Deliver
  <2> QED
    BY <1>0, <1>1, <1>2, <1>3, <1>4, <1>5, <1>6, <2>1, Offerings
<1>8. ConnSet(c, conns[c].state, s, Tail(conns[c].owes))
  <2>1. Tail(conns[c].owes) \in Seq(Answer)
    BY <1>0, <1>1, HeadTailProperties DEF ConnFields
  <2>2. conns' = [conns EXCEPT ![c].owes = Tail(conns[c].owes)]
    BY DEF Deliver
  <2> QED
    BY <1>0, <1>2, <2>1, <2>2 DEF ConnSet, Types, ConnRec
<1>9. ReaderSet(c, "read", None)
  <2>1. [NoRead EXCEPT !.at = "read"] = [at |-> "read", ch |-> None]
    BY DEF NoRead
  <2> QED
    BY <1>0, <2>1 DEF Deliver, ReaderSet, Types, ReaderRec
<1>10. panicked' \in BOOLEAN
  BY <1>0 DEF Deliver, Types
<1>11. Types'
  BY <1>0, <1>6, <1>7, <1>8, <1>9, <1>10 DEF Types, Offers, ConnSet, ReaderSet
<1>12. LostStays
  BY <1>0, <1>6 DEF LostStays, Lost
<1>13. NoneActivated
  BY <1>0, <1>6 DEF NoneActivated, Active
<1>14. NoneTaken
  BY <1>6, <1>8, <1>9 DEF NoneTaken, ConnSet, ReaderSet
<1>15. SameClosed
  BY <1>0, <1>6, <1>7 DEF SameClosed, Offers
<1>16. NoneHeld
  BY <1>8, <1>9 DEF NoneHeld, ConnSet, ReaderSet
<1>17. Locked' /\ Turns'
  BY <1>0, <1>6 DEF IInv, Locked, Turns, Leaving
<1>18. AttemptsLinked'
  BY <1>2, <1>6, <1>8 DEF IInv, AttemptsLinked, ConnSet
<1>19. ConnOwned'
  BY <1>0, <1>2, <1>6, <1>8 DEF IInv, ConnOwned, SessFields, ConnSet
<1>20. ReadersLinked'
  BY <1>4, <1>8, <1>9, NoneApart DEF IInv, ReadersLinked, ConnSet, ReaderSet
<1>21. Unused'
  <2> SUFFICES ASSUME NEW b \in Attempts, att[b].at \in Early
               PROVE  chan'[b] = Fresh /\ (\A t \in Sessions : sess[t].active # b) /\ (\A d \in Conns : reader'[d].ch # b)
    BY <1>6 DEF Unused
  <2>1. chan[b] = Fresh /\ (\A t \in Sessions : sess[t].active # b) /\ (\A d \in Conns : reader[d].ch # b)
    BY <1>0 DEF IInv, Unused
  <2>2. b # ch
    BY <1>6
  <2>3. chan'[b] = chan[b]
    BY <1>7, <2>2 DEF Offers
  <2> QED
    BY <1>9, <2>1, <2>3, NoneApart DEF ReaderSet
<1>22. OneSession'
  BY <1>0, <1>13, <1>14, SessionFrame
<1>23. EventsLinked'
  <2>1. NoneActivated /\ SameOwners
    BY <1>2, <1>6, <1>8 DEF NoneActivated, SameOwners, ConnSet
  <2> QED
    BY <1>0, <1>1, <1>2, <1>3, <1>4, <1>5, <1>6, <1>7, <2>1, LinksGrow
<1>24. ConnKept'
  BY <1>2, <1>6, <1>8 DEF IInv, ConnKept, Kept, Lost, ConnSet
<1>25. OneConn'
  BY <1>2, <1>6, <1>8 DEF IInv, OneConn, Lost, ConnSet
<1>26. OpenActive'
  BY <1>0, <1>2, <1>6, <1>7 DEF IInv, OpenActive, Lost, Offers, SameClosed, SessFields
<1>27. OpenRead'
  BY <1>0, <1>12, <1>15, <1>16, OpenFrame
<1>28. ClosedLast'
  BY <1>1, <1>2, <1>5, <1>6, <1>7, <1>8, <1>9 DEF IInv, ClosedLast, Lost, Active, AttemptsLinked, AttFields,
         ConnFields, ConnSet, ReaderSet, Offers, SameClosed
<1>29. OwesCurrent'
  <2>1. LostStays /\ QuitStays
    BY <1>6 DEF LostStays, QuitStays, Lost, Leaving
  <2> QED
    BY <1>0, <1>1, <1>2, <1>3, <1>4, <1>5, <1>6, <1>8, <2>1, OwesTail
<1>30. EventsCurrent'
  <2>1. LostStays /\ QuitStays /\ NoneActivated
    BY <1>6 DEF LostStays, QuitStays, NoneActivated, Lost, Leaving
  <2>2. NoneIndebted /\ NoneRevived
    BY <1>4, <1>8 DEF NoneIndebted, NoneRevived, ConnSet
  <2>3. ASSUME (att[ch].at \in Active /\ Watched(att[ch].sess))'
        PROVE  of = ch /\ att'[ch].at = "stream" /\ (kind # "delta" => conns'[c].owes = <<>>)
    <3>1. att[ch].at \in Active /\ att[ch].sess = s /\ att' = att
      BY <1>2, <1>3, <1>6, <2>3 DEF IInv, OneSession
    <3>2. Watched(s)
      BY <1>6, <2>3, <3>1 DEF Watched, Lost, Leaving
    <3>3. att[of].at = "stream" /\ att[of].sess = s /\ (kind = "delta" <=> 1 < Len(conns[c].owes))
      BY <1>2, <1>4, <1>5, <3>2 DEF IInv, OwesCurrent
    <3>4. of = ch
      BY <3>1, <3>3 DEF IInv, Locked, Holding, Active
    <3>5. ASSUME kind # "delta" PROVE Tail(conns[c].owes) = <<>>
      <4>1. PICK owes \in Seq(Answer) : owes = conns[c].owes
        BY <1>0 DEF ConnFields
      <4>2. Len(owes) = 1 /\ owes # <<>>
        <5>1. Len(owes) \in Nat /\ ~(1 < Len(owes)) /\ 1 <= Len(owes)
          BY <1>4, <3>3, <3>5, <4>1
        <5> QED
          <6>1. PICK n \in Nat : n = Len(owes)
            BY <5>1
          <6>2. n = 1
            BY <5>1, <6>1
          <6> QED
            BY <1>1, <4>1, <6>1, <6>2
      <4>3. Tail(owes) \in Seq(Answer) /\ Len(Tail(owes)) = 0
        BY <4>2, HeadTailProperties
      <4> QED
        BY <4>1, <4>3, EmptySeq
    <3> QED
      BY <1>8, <3>1, <3>3, <3>4, <3>5 DEF ConnSet
  <2>4. kind # "fail"
    BY DEF AnswerKinds
  <2> QED
    BY <1>0, <1>7, <2>1, <2>2, <2>3, <2>4, EventsGrow
<1> QED
  BY <1>11, <1>17, <1>18, <1>19, <1>20, <1>21, <1>22, <1>23, <1>24, <1>25, <1>26, <1>27, <1>28, <1>29, <1>30 DEF IInv

\* It tells the channel that was active then, if there is room.
LEMMA TellStep ==
  ASSUME IInv, NEW c \in Conns, Tell(c)
  PROVE  IInv'
<1>0. IInv /\ Types /\ SessFields /\ AttFields /\ ChanFields /\ EventFields /\ ConnFields /\ OwesFields /\ ReaderFields
  BY FieldsTyped DEF IInv, Fields
<1>1. reader[c].at = "tell" /\ conns[c].owes = <<>> /\ conns[c].state \notin {"none", "up"}
  BY <1>0 DEF IInv, ReadersLinked, Tell
<1>2. PICK s \in Sessions : s = conns[c].sess /\ conns[c].sess # None
  BY <1>0, <1>1, NoneApart DEF IInv, ReadersLinked, ConnFields
<1>3. PICK ch \in Attempts : ch = reader[c].ch
  BY <1>0, <1>1 DEF IInv, ReadersLinked, ReaderFields
<1>4. /\ att[ch].at \notin Early
      /\ UNCHANGED <<store, sess, att, conns, client, open, removal, mixed, deserted>>
  BY <1>3 DEF IInv, Unused, Tell, downstream
<1>5. Offers(c, ch, "fail", None)
  <2>1. (Room(ch) /\ chan' = Offer(c, "fail", None)) \/ UNCHANGED chan
    BY <1>0, <1>1, <1>2, <1>3, <1>4 DEF Tell
  <2> QED
    BY <1>0, <1>1, <1>2, <1>3, <1>4, <2>1, Offerings
<1>6. ReaderSet(c, "close", ch)
  BY <1>0, <1>3 DEF Tell, ReaderSet, Types, ReaderRec
<1>7. panicked' \in BOOLEAN
  BY <1>0 DEF Tell, Types
<1>8. Types'
  BY <1>0, <1>4, <1>5, <1>6, <1>7 DEF Types, Offers, ReaderSet
<1>9. NoneActivated
  BY <1>0, <1>4 DEF NoneActivated, Active
<1>10. NoneTaken
  BY <1>3, <1>4, <1>6 DEF NoneTaken, ReaderSet
<1>11. AttemptsLinked' /\ Locked' /\ Turns' /\ ConnOwned' /\ ConnKept' /\ OneConn' /\ OwesCurrent'
  <2>1. AttemptsLinked' /\ Locked'
    BY <1>4 DEF IInv, AttemptsLinked, Locked
  <2>2. Turns' /\ ConnOwned'
    BY <1>4 DEF IInv, Turns, ConnOwned, Leaving
  <2>3. ConnKept' /\ OneConn'
    BY <1>4 DEF IInv, ConnKept, OneConn, Kept, Lost
  <2>4. OwesCurrent'
    BY <1>4 DEF IInv, OwesCurrent, Watched, Lost, Leaving
  <2> QED
    BY <2>1, <2>2, <2>3, <2>4
<1>12. ReadersLinked'
  BY <1>1, <1>4, <1>6, NoneApart DEF IInv, ReadersLinked, ReaderSet
<1>13. Unused'
  <2>1. \A b \in Attempts : b # ch => chan'[b] = chan[b]
    BY <1>5 DEF Offers
  <2>2. reader'[c].ch = ch /\ \A d \in Conns : d # c => reader'[d] = reader[d]
    BY <1>6 DEF ReaderSet
  <2> QED
    BY <1>4, <2>1, <2>2 DEF IInv, Unused
<1>14. OneSession'
  BY <1>0, <1>9, <1>10, SessionFrame
<1>15. EventsLinked'
  <2>1. NoneActivated /\ SameOwners
    BY <1>4 DEF NoneActivated, SameOwners
  <2> QED
    BY <1>0, <1>1, <1>2, <1>3, <1>4, <1>5, <2>1, LinksGrow
<1>16. OpenActive'
  BY <1>0, <1>4, <1>5 DEF IInv, OpenActive, Lost, Offers, SameClosed, SessFields
<1>17. OpenRead'
  BY <1>0, <1>1, <1>3, <1>4, <1>5, <1>6 DEF IInv, OpenRead, Lost, ReadersLinked, ReaderFields, Offers, SameClosed,
         ReaderSet
<1>18. ClosedLast'
  BY <1>1, <1>4, <1>5, <1>6 DEF IInv, ClosedLast, Lost, ReaderSet, Offers, SameClosed
<1>19. EventsCurrent'
  <2>1. LostStays /\ QuitStays /\ NoneActivated /\ NoneIndebted /\ NoneRevived
    BY <1>4 DEF LostStays, QuitStays, NoneActivated, NoneIndebted, NoneRevived, Lost, Leaving
  <2> QED
    BY <1>0, <1>1, <1>2, <1>3, <1>4, <1>5, <2>1, EventsGrow
<1> QED
  BY <1>8, <1>11, <1>12, <1>13, <1>14, <1>15, <1>16, <1>17, <1>18, <1>19 DEF IInv

\* closeCodexWebsocketSession shuts at most a connection that is open.
ShutsSome ==
  /\ conns' \in [Conns -> ConnRec]
  /\ \A c \in Conns : /\ conns'[c].sess = conns[c].sess /\ conns'[c].owes = conns[c].owes
                      /\ \/ conns'[c].state = conns[c].state
                         \/ conns'[c].state = "shut" /\ conns[c].state # "none"

\* CloseConn shuts whatever connection the session has.
LEMMA Closings ==
  ASSUME IInv, NEW s \in Sessions, CloseConn(s)
  PROVE  SessSet(s, sess[s].lock, None, sess[s].active, sess[s].told) /\ ShutsSome
<1>0. Types /\ SessFields
  BY FieldsTyped DEF IInv, Fields
<1>1. SessSet(s, sess[s].lock, None, sess[s].active, sess[s].told)
  BY <1>0 DEF CloseConn, SessSet, Types, SessionRec
<1>2. CASE sess[s].conn = None
  <2>1. conns' = conns
    BY <1>2 DEF CloseConn
  <2> QED
    BY <1>0, <1>1, <2>1 DEF ShutsSome, Types
<1>3. CASE sess[s].conn # None
  <2>1. PICK c \in Conns : c = sess[s].conn
    BY <1>0, <1>3 DEF SessFields
  <2>2. conns[c].state # "none"
    BY <1>3, <2>1, NoneApart DEF IInv, ConnOwned, ReadersLinked
  <2>3. conns' = [conns EXCEPT ![c].state = "shut"]
    BY <1>3, <2>1 DEF CloseConn
  <2> QED
    <3>1. conns \in [Conns -> ConnRec] /\ conns' \in [Conns -> ConnRec]
      BY <1>0, <2>3 DEF Types, ConnRec
    <3>2. /\ conns'[c].sess = conns[c].sess /\ conns'[c].owes = conns[c].owes /\ conns'[c].state = "shut"
          /\ \A d \in Conns : d # c => conns'[d] = conns[d]
      BY <1>0, <2>3 DEF Types, ConnRec
    <3>3. ASSUME NEW d \in Conns
          PROVE  /\ conns'[d].sess = conns[d].sess /\ conns'[d].owes = conns[d].owes
                 /\ \/ conns'[d].state = conns[d].state
                    \/ conns'[d].state = "shut" /\ conns[d].state # "none"
      BY <2>2, <3>2
    <3> QED
      BY <1>1, <3>1, <3>3 DEF ShutsSome
<1> QED
  BY <1>1, <1>2, <1>3

\* Closing the client's session shuts its connection.
LEMMA CloseStep ==
  ASSUME IInv, Close, client.cur # None
  PROVE  IInv'
<1>0. IInv /\ Types /\ SessFields /\ AttFields /\ ChanFields /\ EventFields /\ ConnFields /\ OwesFields /\ ReaderFields
  BY FieldsTyped DEF IInv, Fields
<1>1. client.at = "close"
  BY DEF Close
<1>2. PICK s \in Sessions : s = client.cur
  BY <1>0, <1>1 DEF IInv, Turns
<1>3. UNCHANGED <<store, att, chan, reader, open, removal, mixed, deserted, panicked>>
  BY <1>0, <1>1, <1>2 DEF Close
<1>4. client' \in ClientRec /\ client'.at = "gone"
  BY <1>0 DEF Close, Types, ClientRec
<1>5. SessSet(s, sess[s].lock, None, sess[s].active, sess[s].told)
  BY <1>0, <1>1, <1>2, <1>3, Closings DEF Close
<1>6. ShutsSome
  BY <1>0, <1>1, <1>2, <1>3, Closings DEF Close
<1>7. Types'
  BY <1>0, <1>3, <1>4, <1>5, <1>6 DEF Types, SessSet, ShutsSome
<1>8. LostStays
  BY <1>0, <1>3, <1>5 DEF LostStays, Lost, SessSet
<1>9. QuitStays
  BY <1>0, <1>3, <1>4 DEF QuitStays, Leaving
<1>10. StreamsStay
  BY <1>0, <1>3 DEF StreamsStay, AttFields
<1>11. NoneActivated
  BY <1>0, <1>3 DEF NoneActivated, Active
<1>12. SameDebts
  BY <1>0, <1>3, <1>6 DEF SameDebts, ShutsSome
<1>13. NoneIndebted
  BY <1>0, <1>3, <1>6 DEF NoneIndebted, ShutsSome
<1>14. NoneRevived
  BY <1>0, <1>3, <1>6 DEF NoneRevived, ShutsSome
<1>15. SameOwners
  BY <1>0, <1>3, <1>6 DEF SameOwners, ShutsSome
<1>16. NoneSent
  BY <1>0, <1>3, SameSent
<1>17. NoneTaken
  BY <1>3, <1>5, <1>6 DEF NoneTaken, SessSet, ShutsSome
<1>18. SameClosed
  BY <1>0, <1>3 DEF SameClosed
<1>19. NoneHeld
  BY <1>0, <1>3, <1>6 DEF NoneHeld, ShutsSome
<1>20. SameReaders
  BY <1>0, <1>3, <1>6 DEF SameReaders, ShutsSome
<1>21. AttemptsLinked'
  BY <1>3, <1>6 DEF IInv, AttemptsLinked, ShutsSome
<1>22. Locked'
  BY <1>3, <1>5 DEF IInv, Locked, Holding, Active, AttemptsLinked, SessSet
<1>23. Turns'
  BY <1>1, <1>3, <1>4 DEF IInv, Turns, Leaving
<1>24. ConnOwned'
  BY <1>0, <1>5, <1>6 DEF IInv, ConnOwned, SessFields, SessSet, ShutsSome
<1>25. ReadersLinked'
  BY <1>3, <1>6 DEF IInv, ReadersLinked, ShutsSome
<1>26. Unused'
  BY <1>3, <1>5 DEF IInv, Unused, SessSet
<1>27. OneSession'
  BY <1>0, <1>11, <1>17, SessionFrame
<1>28. EventsLinked'
  BY <1>0, <1>11, <1>15, <1>16, LinkedFrame
<1>29. ConnKept'
  <2>1. ASSUME NEW b \in Attempts, att'[b].at = "redial" PROVE Lost(att[b].sess)'
    <3>1. PICK t \in Sessions : t = att[b].sess /\ att' = att
      BY <1>3, <2>1 DEF IInv, AttemptsLinked
    <3>2. Lost(t)'
      BY <1>3, <1>5, <2>1, <3>1 DEF IInv, ConnKept, Lost, SessSet
    <3> QED
      BY <3>1, <3>2 DEF Lost
  <2> QED
    BY <1>4, <2>1 DEF ConnKept, Kept
<1>30. OneConn'
  BY <1>0, <1>3, <1>5, <1>6 DEF IInv, OneConn, Lost, ConnFields, SessSet, ShutsSome
<1>31. OpenActive'
  BY <1>3, <1>5 DEF IInv, OpenActive, Lost, SessSet
<1>32. OpenRead'
  BY <1>0, <1>8, <1>18, <1>19, OpenFrame
<1>33. ClosedLast'
  BY <1>0, <1>8, <1>11, <1>18, <1>20, ClosedFrame
<1>34. OwesCurrent'
  BY <1>0, <1>8, <1>9, <1>10, <1>12, OwesFrame
<1>35. EventsCurrent'
  BY <1>0, <1>8, <1>9, <1>11, <1>13, <1>14, <1>16, EventsFrame
<1> QED
  BY <1>7, <1>21, <1>22, <1>23, <1>24, <1>25, <1>26, <1>27, <1>28, <1>29, <1>30, <1>31, <1>32, <1>33, <1>34,
         <1>35 DEF IInv

\* Without a session there is nothing to close.
LEMMA CloseNothing == ASSUME IInv, Close, client.cur = None PROVE IInv'
<1>1. Types /\ client.at = "close"
  BY DEF IInv, Close
<1>2. UNCHANGED <<store, sess, att, chan, conns, reader, open, removal, mixed, deserted, panicked>>
  BY DEF Close
<1>3. client' \in ClientRec /\ client'.at = "gone"
  BY <1>1 DEF Types, ClientRec, Close
<1>4. Types'
  BY <1>1, <1>2, <1>3 DEF Types
<1>5. /\ AttemptsLinked' /\ Locked' /\ ConnOwned' /\ ReadersLinked' /\ Unused' /\ OneSession' /\ EventsLinked'
      /\ OneConn' /\ OpenActive' /\ OpenRead' /\ ClosedLast'
  <2>1. AttemptsLinked' /\ Locked'
    BY <1>2 DEF IInv, AttemptsLinked, Locked
  <2>2. ConnOwned' /\ ReadersLinked'
    BY <1>2 DEF IInv, ConnOwned, ReadersLinked
  <2>3. Unused' /\ OneSession'
    BY <1>2 DEF IInv, Unused, OneSession
  <2>4. EventsLinked' /\ OneConn'
    BY <1>2 DEF IInv, EventsLinked, OneConn, Lost
  <2>5. OpenActive' /\ OpenRead'
    BY <1>2 DEF IInv, OpenActive, OpenRead, Lost
  <2>6. ClosedLast'
    BY <1>2 DEF IInv, ClosedLast, Lost
  <2> QED
    BY <2>1, <2>2, <2>3, <2>4, <2>5, <2>6
<1>6. Turns'
  BY <1>1, <1>2, <1>3 DEF IInv, Turns, Leaving
<1>7. ConnKept'
  BY <1>2, <1>3 DEF IInv, ConnKept, Kept, Lost
<1>8. OwesCurrent' /\ EventsCurrent'
  BY <1>3 DEF OwesCurrent, EventsCurrent, Watched, Leaving
<1> QED
  BY <1>4, <1>5, <1>6, <1>7, <1>8 DEF IInv

\* Closing the session of a removed credential shuts its connection.
LEMMA RemoveCloseStep ==
  ASSUME IInv, RemoveClose
  PROVE  IInv'
<1>0. IInv /\ Types /\ SessFields /\ AttFields /\ ChanFields /\ EventFields /\ ConnFields /\ OwesFields /\ ReaderFields
  BY FieldsTyped DEF IInv, Fields
<1>1. removal.at = "close"
  BY DEF RemoveClose
<1>2. PICK s \in Sessions : s = removal.sess
  BY <1>0, <1>1 DEF IInv, Turns
<1>3. UNCHANGED <<store, att, chan, reader, client, open, mixed, deserted, panicked>>
  BY <1>0, <1>1, <1>2 DEF RemoveClose, downstream
<1>4. removal' \in RemovalRec /\ removal'.at = "done" /\ removal'.sess = s
  BY <1>0, <1>2 DEF RemoveClose, Types, RemovalRec
<1>5. SessSet(s, sess[s].lock, None, sess[s].active, sess[s].told)
  BY <1>0, <1>1, <1>2, <1>3, Closings DEF RemoveClose
<1>6. ShutsSome
  BY <1>0, <1>1, <1>2, <1>3, Closings DEF RemoveClose
<1>7. Types'
  BY <1>0, <1>3, <1>4, <1>5, <1>6 DEF Types, SessSet, ShutsSome
<1>8. LostStays
  BY <1>2, <1>4, <1>5 DEF LostStays, Lost, SessSet
<1>9. QuitStays
  BY <1>0, <1>3 DEF QuitStays, Leaving
<1>10. StreamsStay
  BY <1>0, <1>3 DEF StreamsStay, AttFields
<1>11. NoneActivated
  BY <1>0, <1>3 DEF NoneActivated, Active
<1>12. SameDebts
  BY <1>0, <1>3, <1>6 DEF SameDebts, ShutsSome
<1>13. NoneIndebted
  BY <1>0, <1>3, <1>6 DEF NoneIndebted, ShutsSome
<1>14. NoneRevived
  BY <1>0, <1>3, <1>6 DEF NoneRevived, ShutsSome
<1>15. SameOwners
  BY <1>0, <1>3, <1>6 DEF SameOwners, ShutsSome
<1>16. NoneSent
  BY <1>0, <1>3, SameSent
<1>17. NoneTaken
  BY <1>3, <1>5, <1>6 DEF NoneTaken, SessSet, ShutsSome
<1>18. SameClosed
  BY <1>0, <1>3 DEF SameClosed
<1>19. NoneHeld
  BY <1>0, <1>3, <1>6 DEF NoneHeld, ShutsSome
<1>20. SameReaders
  BY <1>0, <1>3, <1>6 DEF SameReaders, ShutsSome
<1>21. AttemptsLinked'
  BY <1>3, <1>6 DEF IInv, AttemptsLinked, ShutsSome
<1>22. Locked'
  BY <1>3, <1>5 DEF IInv, Locked, Holding, Active, AttemptsLinked, SessSet
<1>23. Turns'
  BY <1>3, <1>4 DEF IInv, Turns, Leaving
<1>24. ConnOwned'
  BY <1>0, <1>5, <1>6 DEF IInv, ConnOwned, SessFields, ConnFields, SessSet, ShutsSome
<1>25. ReadersLinked'
  BY <1>3, <1>6 DEF IInv, ReadersLinked, ShutsSome
<1>26. Unused'
  BY <1>3, <1>5 DEF IInv, Unused, SessSet
<1>27. OneSession'
  BY <1>0, <1>11, <1>17, SessionFrame
<1>28. EventsLinked'
  BY <1>0, <1>11, <1>15, <1>16, LinkedFrame
<1>29. ConnKept'
  <2>2. LostStays /\ KeptStays
    BY <1>2, <1>3, <1>4, <1>5 DEF LostStays, KeptStays, Kept, Lost, SessSet
  <2>3. NoneDialled
    BY <1>6 DEF NoneDialled, ShutsSome
  <2>4. \A b \in Attempts : att'[b].at \in Connected => ConnectedBefore(b)
    BY <1>0, <1>1, <1>2, <1>3 DEF ConnectedBefore
  <2> QED
    BY <1>0, <1>1, <1>2, <1>3, <2>2, <2>3, <2>4, KeptFrame
<1>30. OneConn'
  BY <1>0, <1>2, <1>4, <1>5, <1>6 DEF IInv, OneConn, Lost, ConnFields, SessSet, ShutsSome
<1>31. OpenActive'
  BY <1>2, <1>3, <1>4, <1>5 DEF IInv, OpenActive, Lost, SessSet
<1>32. OpenRead'
  BY <1>0, <1>8, <1>18, <1>19, OpenFrame
<1>33. ClosedLast'
  BY <1>0, <1>8, <1>11, <1>18, <1>20, ClosedFrame
<1>34. OwesCurrent'
  BY <1>0, <1>8, <1>9, <1>10, <1>12, OwesFrame
<1>35. EventsCurrent'
  BY <1>0, <1>8, <1>9, <1>11, <1>13, <1>14, <1>16, EventsFrame
<1> QED
  BY <1>7, <1>21, <1>22, <1>23, <1>24, <1>25, <1>26, <1>27, <1>28, <1>29, <1>30, <1>31, <1>32, <1>33, <1>34,
         <1>35 DEF IInv

------------------------------------------------------------------------------
(* The invariant is inductive.                                              *)

\* Nothing is dialled, active or owed in the beginning.
LEMMA InitInv == ASSUME Init PROVE IInv
<1>1. sess = [s \in Sessions |-> NoSess] /\ att = [a \in Attempts |-> NoAtt] /\ conns = [c \in Conns |-> NoConn]
      /\ reader = [c \in Conns |-> NoRead] /\ chan = [a \in Attempts |-> Fresh]
  BY DEF Init, Fresh
<1>2. /\ NoSess \in SessionRec /\ NoSess.conn = None /\ NoSess.active = None
      /\ NoConn.state = "none" /\ NoConn.sess = None /\ NoConn.owes = <<>>
      /\ NoRead \in ReaderRec /\ NoRead.at = "none" /\ NoRead.ch = None
  BY DEF NoSess, SessionRec, NoConn, NoRead, ReaderRec
<1>3. NoConn \in ConnRec
  <2>1. <<>> \in Seq(Answer)
    OBVIOUS
  <2> QED
    BY <2>1 DEF NoConn, ConnRec
<1>4. Fresh \in ChanRec /\ Len(Fresh.msgs) = 0 /\ Fresh.closed = FALSE
  <2>1. <<>> \in Seq(Event) /\ Len(<<>>) = 0
    OBVIOUS
  <2> QED
    BY <2>1 DEF Fresh, ChanRec
<1>5. store \in Sessions /\ client \in ClientRec /\ client.at = "listen" /\ removal \in RemovalRec /\ removal.at = "idle"
  <2>1. 1 \in Sessions
    BY SessionAssumption
  <2> QED
    BY <2>1 DEF Init, ClientRec, RemovalRec
<1>6. Types
  <2>1. \A a \in Attempts : Len(chan[a].msgs) <= Cap
    BY <1>1, <1>4, SessionAssumption
  <2>2. mixed \subseteq Sessions /\ deserted \subseteq Sessions /\ open \in BOOLEAN /\ panicked \in BOOLEAN
    BY DEF Init
  <2> QED
    BY <1>1, <1>2, <1>3, <1>4, <1>5, <2>1, <2>2, NoAttFields DEF Types
<1> HIDE DEF NoAtt, NoSess, NoConn, NoRead, Fresh
<1>7. /\ AttemptsLinked /\ Locked /\ Turns /\ ConnOwned /\ ReadersLinked /\ Unused
  BY <1>1, <1>2, <1>5, NoAttFields, NoneApart
     DEF AttemptsLinked, Connected, Active, Holding, Locked, Turns, Leaving, ConnOwned, ReadersLinked, Unused
<1>8. OneSession /\ EventsLinked /\ ConnKept /\ OneConn /\ OpenActive /\ OpenRead /\ ClosedLast
  BY <1>1, <1>2, <1>4, NoAttFields, NoneApart
     DEF OneSession, EventsLinked, ConnKept, OneConn, OpenActive, OpenRead, ClosedLast, Connected, Active
<1>9. OwesCurrent /\ EventsCurrent
  BY <1>1, <1>2, <1>4 DEF OwesCurrent, EventsCurrent
<1> QED
  BY <1>6, <1>7, <1>8, <1>9 DEF IInv

\* The last step of the handler, either way.
LEMMA CloseAny == ASSUME IInv, Close PROVE IInv'
BY CloseStep, CloseNothing

\* Every step of the handler.
LEMMA HandlerStep == ASSUME IInv, Handler PROVE IInv'
BY RetryStep, TurnFailsStep, TurnEndsStep, HandlerReadFailsStep, LeaveStep, CloseAny DEF Handler

\* What the attempts and the readers do in several ways.
LEMMA ConnectStep == ASSUME IInv, NEW a \in Attempts, Connect(a) \/ Redial(a) PROVE IInv'
<1>1. PICK next : <<att[a].at, next>> \in From /\ (Reuse(a, next) \/ Dial(a, next))
  BY DEF Connect, Redial, At, From
<1> QED
  BY <1>1, ReuseStep, DialStep

\* A handshake that is refused leads to HTTP, or ends the attempt.
LEMMA RejectedStep == ASSUME IInv, NEW a \in Attempts, NEW why \in Rejections, Rejected(a, why) PROVE IInv'
<1>1. /\ att[a].at = "connect" /\ (Goes(a, "http") \/ Returns(a, "failed"))
      /\ UNCHANGED <<store, sess, chan, conns, reader, client, open, removal, mixed, deserted, panicked>>
  BY DEF Rejected, At, upstream, downstream
<1> QED
  BY <1>1, FallBackStep, GiveUpStep

\* An attempt by HTTP returns whatever it got.
LEMMA HttpStep == ASSUME IInv, NEW a \in Attempts, Http(a) PROVE IInv'
<1>1. /\ att[a].at = "http" /\ (Returns(a, "ok") \/ Returns(a, "failed"))
      /\ UNCHANGED <<store, sess, chan, conns, reader, client, open, removal, mixed, deserted, panicked>>
  BY DEF Http, At, upstream, downstream
<1> QED
  BY <1>1, GiveUpStep

\* Every step of an attempt.
LEMMA ExecuteStep == ASSUME IInv, NEW a \in Attempts, Execute(a) PROVE IInv'
BY LockStep, ConnectStep, DialFailsStep, RejectedStep, HttpStep, ActivateStep, SendStep, SendFailsStep,
       RedialFailsStep, ResendFailsStep, ReceiveStep, ReceiveFailsStep, FinishStep DEF Execute

\* Every step of a reader.
LEMMA ReadStep == ASSUME IInv, NEW c \in Conns, ReadLoop(c) PROVE IInv'
BY BreakStep, DropStep, FetchStep, DeliverStep, ReadFailsStep, TellStep, CloseChannelStep, InvalidateStep DEF ReadLoop

\* Every step.
LEMMA NextInv == ASSUME IInv, Next PROVE IInv'
BY BeginTurnStep, HandlerStep, OpenStep, ExecuteStep, ReadStep, RemovalStep, RemoveCloseStep DEF Next, Remove

\* No step at all.
LEMMA IdleInv == ASSUME IInv, UNCHANGED vars PROVE IInv'
<1>1. Types' /\ AttemptsLinked' /\ Locked' /\ Turns' /\ ConnOwned' /\ ReadersLinked' /\ Unused' /\ OneSession' /\ EventsLinked'
  <2>1. Types' /\ AttemptsLinked'
    BY DEF vars, IInv, Types, AttemptsLinked
  <2>2. Locked' /\ Turns'
    BY DEF vars, IInv, Locked, Turns, Leaving
  <2>3. ConnOwned' /\ ReadersLinked'
    BY DEF vars, IInv, ConnOwned, ReadersLinked
  <2>4. Unused' /\ OneSession'
    BY DEF vars, IInv, Unused, OneSession
  <2>5. EventsLinked'
    BY DEF vars, IInv, EventsLinked
  <2> QED
    BY <2>1, <2>2, <2>3, <2>4, <2>5
<1>2. ConnKept' /\ OneConn' /\ OpenActive' /\ OpenRead' /\ ClosedLast' /\ OwesCurrent' /\ EventsCurrent'
  <2>1. ConnKept' /\ OneConn'
    BY DEF vars, IInv, ConnKept, OneConn, Kept, Lost
  <2>2. OpenActive' /\ OpenRead'
    BY DEF vars, IInv, OpenActive, OpenRead, Lost
  <2>3. ClosedLast' /\ OwesCurrent'
    BY DEF vars, IInv, ClosedLast, OwesCurrent, Lost, Watched, Leaving
  <2>4. EventsCurrent'
    BY DEF vars, IInv, EventsCurrent, Watched, Lost, Leaving
  <2> QED
    BY <2>1, <2>2, <2>3, <2>4
<1> QED
  BY <1>1, <1>2 DEF IInv

\* TypeOK: every variable keeps its type, and no channel holds more than Cap.
THEOREM TypeCorrect == Spec => []TypeOK
<1>1. IInv /\ [Next]_vars => IInv'
  BY NextInv, IdleInv
<1>2. IInv => TypeOK
  <2> SUFFICES ASSUME IInv PROVE TypeOK
    OBVIOUS
  <2>1. Types /\ (\A c \in Conns : conns[c].state \in {"none", "up", "down", "shut"})
    BY FieldsTyped DEF IInv, Fields, ConnFields
  <2>2. client.at \in {"listen", "turn", "leave", "close", "gone"}
    BY <2>1 DEF Types, ClientRec
  <2> QED
    BY <2>1, <2>2 DEF TypeOK, Types, SessionRec, AttemptRec
<1> QED
  BY InitInv, <1>1, <1>2, PTL DEF Spec

------------------------------------------------------------------------------
(* Until the session has lost its connection.                               *)

\* Whoever has been told stays told: only invalidateUpstreamConn writes it.
ToldStays == \A s \in Sessions : sess[s].told => sess'[s].told

\* No attempt takes back that a session was told.
LEMMA ToldByExecute == ASSUME Types, NEW a \in Attempts, Execute(a) PROVE ToldStays
<1>1. CASE Lock(a)
  BY <1>1 DEF Types, SessionRec, Lock, ToldStays
<1>2. CASE DialFails(a)
  BY <1>2 DEF Types, SessionRec, DialFails, ToldStays
<1>3. CASE Connect(a) \/ Redial(a)
  <2>1. PICK next : Reuse(a, next) \/ Dial(a, next)
    BY <1>3 DEF Connect, Redial
  <2>2. CASE Reuse(a, next)
    BY <2>2 DEF Reuse, ToldStays
  <2>3. CASE Dial(a, next)
    <3>1. PICK c \in Conns : sess' = [sess EXCEPT ![att[a].sess].conn = c, ![att[a].sess].auth = att[a].auth]
      BY <2>3 DEF Dial, FreeConns
    <3> QED
      BY <3>1 DEF Types, SessionRec, ToldStays
  <2> QED
    BY <2>1, <2>2, <2>3
<1>4. CASE (\E why \in Rejections : Rejected(a, why)) \/ Http(a) \/ Send(a) \/ ReceiveFails(a)
  <2>1. CASE \E why \in Rejections : Rejected(a, why)
    BY <2>1 DEF Rejected, ToldStays
  <2>2. CASE Http(a)
    BY <2>2 DEF Http, ToldStays
  <2>3. CASE Send(a)
    BY <2>3 DEF Send, Sent, ToldStays
  <2>4. CASE ReceiveFails(a)
    BY <2>4 DEF ReceiveFails, ToldStays
  <2> QED
    BY <1>4, <2>1, <2>2, <2>3, <2>4
<1>5. CASE Activate(a)
  BY <1>5 DEF Types, SessionRec, Activate, ToldStays
<1>6. CASE SendFails(a)
  BY <1>6 DEF Types, SessionRec, SendFails, Forget, ToldStays
<1>7. CASE RedialFails(a) \/ Finish(a)
  BY <1>7 DEF Types, SessionRec, RedialFails, Finish, Released, Cleared, ToldStays
<1>8. CASE ResendFails(a)
  <2>1. PICK s, c : sess' = Released(Forget(sess, s, c), a)
    BY <1>8 DEF ResendFails
  <2> DEFINE ss == Forget(sess, s, c)
  <2>2. ss \in [Sessions -> SessionRec] /\ \A t \in Sessions : sess[t].told => ss[t].told
    <3>1. CASE sess[s].conn = c
      <4>1. PICK lost \in [Sessions -> SessionRec] : lost = [sess EXCEPT ![s].conn = None, ![s].told = TRUE]
        BY DEF Types, SessionRec
      <4>2. \A t \in Sessions : sess[t].told => lost[t].told
        BY <4>1 DEF Types
      <4> QED
        BY <3>1, <4>1, <4>2 DEF Forget
    <3>2. CASE sess[s].conn # c
      BY <3>2 DEF Types, Forget
    <3> QED
      BY <3>1, <3>2
  <2> HIDE DEF ss
  <2>3. \A t \in Sessions : ss[t].told => Released(ss, a)[t].told
    BY <2>2 DEF SessionRec, Released, Cleared
  <2> QED
    BY <2>1, <2>2, <2>3 DEF ss, ToldStays
<1>9. CASE Receive(a)
  BY <1>9 DEF Types, SessionRec, Receive, Forget, ToldStays
<1> QED
  BY <1>1, <1>2, <1>3, <1>4, <1>5, <1>6, <1>7, <1>8, <1>9 DEF Execute

\* A session that has lost a connection has lost it for good.
LEMMA LostForever == ASSUME IInv, Next PROVE LostStays
<1>0. Types /\ Turns
  BY DEF IInv
<1>1. ToldStays
  <2>1. CASE (\E x \in Auths : BeginTurn(x)) \/ Disconnected \/ ClientLeaves
    BY <2>1 DEF BeginTurn, Disconnected, ClientLeaves, ToldStays
  <2>2. CASE Close \/ RemoveClose
    BY <1>0, <2>2 DEF Types, SessionRec, Close, RemoveClose, CloseConn, ToldStays
  <2>3. CASE Handler /\ ~Close
    BY <2>3 DEF Handler, Retry, TurnFails, TurnEnds, HandlerReadFails, Leave, ToldStays
  <2>4. ASSUME NEW a \in Attempts, Execute(a) PROVE ToldStays
    BY <1>0, <2>4, ToldByExecute
  <2>5. ASSUME NEW c \in Conns, ReadLoop(c) PROVE ToldStays
    <3>1. CASE CloseChannel(c)
      BY <3>1 DEF CloseChannel, Cleared, ToldStays
    <3>2. CASE Invalidate(c)
      BY <1>0, <3>2 DEF Types, Invalidate, Forget, ToldStays
    <3>3. CASE Break(c) \/ Read(c) \/ Deliver(c) \/ ReadFails(c) \/ Tell(c)
      BY <3>3 DEF Break, Read, Deliver, ReadFails, Tell, ToldStays
    <3> QED
      BY <2>5, <3>1, <3>2, <3>3 DEF ReadLoop
  <2>6. CASE (\E x \in Auths : RemoveMatch(x)) \/ RemoveDelete
    BY <2>6 DEF RemoveMatch, RemoveDelete, ToldStays
  <2> QED
    BY <2>1, <2>2, <2>3, <2>4, <2>5, <2>6 DEF Next, Remove
<1>2. removal.at = "done" => removal' = removal
  <2>1. ASSUME NEW a \in Attempts, Execute(a) PROVE removal' = removal
    BY <2>1 DEF Execute, Lock, Connect, Reuse, Dial, DialFails, Rejected, Http, Activate, Send, Sent, SendFails,
           Redial, RedialFails, ResendFails, Receive, ReceiveFails, Finish
  <2>2. ASSUME NEW c \in Conns, ReadLoop(c) PROVE removal' = removal
    BY <2>2 DEF ReadLoop, Break, Read, Deliver, ReadFails, Tell, CloseChannel, Invalidate
  <2>3. CASE Remove
    BY <2>3 DEF Remove, RemoveMatch, RemoveDelete, RemoveClose
  <2>4. CASE (\E x \in Auths : BeginTurn(x)) \/ Handler \/ Disconnected \/ ClientLeaves
    BY <2>4 DEF BeginTurn, Disconnected, ClientLeaves, Handler, Retry, TurnFails, TurnEnds, HandlerReadFails, Leave,
           Close
  <2> QED
    BY <2>1, <2>2, <2>3, <2>4 DEF Next
<1> QED
  BY <1>1, <1>2 DEF LostStays, Lost, ToldStays

\* Only what an attempt receives adds to the history of answers.
LEMMA SameHistory ==
  ASSUME Next, \A a \in Attempts : ~Receive(a)
  PROVE  mixed' = mixed /\ deserted' = deserted
<1>1. ASSUME NEW a \in Attempts, Execute(a) PROVE mixed' = mixed /\ deserted' = deserted
  BY <1>1 DEF Execute, Lock, Connect, Reuse, Dial, DialFails, Rejected, Http, Activate, Send, Sent, SendFails,
         Redial, RedialFails, ResendFails, ReceiveFails, Finish, downstream
<1>2. ASSUME NEW c \in Conns, ReadLoop(c) PROVE mixed' = mixed /\ deserted' = deserted
  BY <1>2 DEF ReadLoop, Break, Read, Deliver, ReadFails, Tell, CloseChannel, Invalidate, downstream
<1>3. CASE Remove
  BY <1>3 DEF Remove, RemoveMatch, RemoveDelete, RemoveClose, downstream
<1>4. CASE (\E x \in Auths : BeginTurn(x)) \/ Handler \/ Disconnected \/ ClientLeaves
  BY <1>4 DEF BeginTurn, Disconnected, ClientLeaves, Handler, Retry, TurnFails, TurnEnds, HandlerReadFails, Leave,
         Close
<1> QED
  BY <1>1, <1>2, <1>3, <1>4 DEF Next

\* A session that was deserted stays so.
LEMMA DesertedForever == ASSUME Next PROVE deserted \subseteq deserted'
<1>1. ASSUME NEW a \in Attempts, Receive(a) PROVE deserted \subseteq deserted'
  BY <1>1 DEF Receive, Passed, Refused, downstream
<1> QED
  BY <1>1, SameHistory

\* What a client gets while its session has lost nothing, and was not
\* deserted, is its turn's.
LEMMA MixedStep == ASSUME IInv, Next, NEW s \in mixed' \ mixed PROVE Lost(s) \/ s \in deserted
<1>1. PICK a \in Attempts : Receive(a)
  BY SameHistory
<1>2. /\ Takes(a) /\ ~Cancelled(a) /\ s = att[a].sess
      /\ Head(chan[a].msgs).kind # "fail" /\ Head(chan[a].msgs).of # a
  BY <1>1 DEF Receive, Passed, Refused, downstream, At, Takes
<1>3. s \in Sessions
  BY <1>2 DEF IInv, AttemptsLinked, Takes
<1>4. 1 \in 1..Len(chan[a].msgs) /\ Head(chan[a].msgs) = chan[a].msgs[1]
  BY <1>2, Taken, FieldsTyped DEF IInv, Fields, ChanFields
<1>5. ASSUME ~Lost(s), s \notin deserted PROVE FALSE
  <2>1. Watched(att[a].sess) /\ att[a].at \in Active
    BY <1>2, <1>5 DEF Watched, Cancelled, Leaving, Takes, Active
  <2> QED
    BY <1>2, <1>4, <2>1 DEF IInv, EventsCurrent
<1> QED
  BY <1>5

\* OwnAnswers: no turn gets what the upstream sends for another one, unless
\* its session has lost a connection, or a turn of it was given up amid its
\* answer.
THEOREM AnswersOwn == Spec => []OwnAnswers
<1>1. Init => IInv /\ OwnAnswers
  BY InitInv DEF Init, OwnAnswers
<1>2. IInv /\ OwnAnswers /\ [Next]_vars => (IInv /\ OwnAnswers)'
  <2>1. ASSUME IInv, OwnAnswers, Next PROVE OwnAnswers'
    <3> SUFFICES ASSUME NEW s \in mixed' PROVE Lost(s)' \/ s \in deserted'
      BY DEF OwnAnswers
    <3>1. Lost(s) \/ s \in deserted
      BY <2>1, MixedStep DEF OwnAnswers
    <3>2. s \in Sessions
      BY <2>1, NextInv DEF IInv, Types
    <3> QED
      BY <2>1, <3>1, <3>2, LostForever, DesertedForever DEF LostStays
  <2>2. ASSUME OwnAnswers, UNCHANGED vars PROVE OwnAnswers'
    BY <2>2 DEF vars, OwnAnswers, Lost
  <2> QED
    BY <2>1, <2>2, NextInv, IdleInv
<1> QED
  BY <1>1, <1>2, PTL DEF Spec

\* A reader that panics served a session that had lost a connection.
LEMMA PanicStep == ASSUME IInv, Next, panicked' PROVE \E s \in Sessions : Lost(s)
<1>1. PICK c \in Conns : Deliver(c) \/ Tell(c) \/ CloseChannel(c)
  <2>0. panicked' # panicked
    BY DEF Next, Live
  <2>1. ASSUME NEW a \in Attempts, Execute(a) PROVE panicked' = panicked
    BY <2>1 DEF Execute, Lock, Connect, Reuse, Dial, DialFails, Rejected, Http, Activate, Send, Sent, SendFails,
           Redial, RedialFails, ResendFails, Receive, ReceiveFails, Finish
  <2>2. ASSUME NEW c \in Conns, ReadLoop(c), ~(Deliver(c) \/ Tell(c) \/ CloseChannel(c)) PROVE panicked' = panicked
    BY <2>2 DEF ReadLoop, Break, Read, ReadFails, Invalidate
  <2>3. CASE Remove
    BY <2>0, <2>3 DEF Remove, RemoveMatch, RemoveDelete, RemoveClose
  <2>4. CASE (\E x \in Auths : BeginTurn(x)) \/ Handler \/ Disconnected \/ ClientLeaves
    BY <2>0, <2>4 DEF BeginTurn, Disconnected, ClientLeaves, Handler, Retry, TurnFails, TurnEnds, HandlerReadFails,
           Leave, Close
  <2> QED
    BY <2>0, <2>1, <2>2, <2>3, <2>4 DEF Next
<1>2. reader[c].at \in {"deliver", "tell", "close"} /\ chan[reader[c].ch].closed
  BY <1>1 DEF Deliver, Tell, CloseChannel, Next, Live
<1>3. conns[c].sess \in Sessions
  BY <1>2, FieldsTyped DEF IInv, Fields, ConnFields, ReadersLinked
<1> QED
  BY <1>2, <1>3 DEF IInv, OpenRead

\* NoEarlyPanic: while no session has lost a connection, channels are closed
\* once and nothing is sent to a closed one.
THEOREM PanicsLate == Spec => []NoEarlyPanic
<1>1. Init => IInv /\ NoEarlyPanic
  BY InitInv DEF Init, NoEarlyPanic
<1>2. IInv /\ NoEarlyPanic /\ [Next]_vars => (IInv /\ NoEarlyPanic)'
  <2>1. ASSUME IInv, Next PROVE NoEarlyPanic'
    BY <2>1, PanicStep, LostForever DEF NoEarlyPanic, LostStays
  <2>2. ASSUME NoEarlyPanic, UNCHANGED vars PROVE NoEarlyPanic'
    BY <2>2 DEF vars, NoEarlyPanic, Lost
  <2> QED
    BY <2>1, <2>2, NextInv, IdleInv
<1> QED
  BY <1>1, <1>2, PTL DEF Spec

------------------------------------------------------------------------------
(* What the mutex and the session's one connection come to.                 *)

\* reqMu: a session's attempts follow one another, from before the dial to the
\* last chunk.
OneRequest ==
  \A a, b \in Attempts :
    att[a].at \in Holding /\ att[b].at \in Holding /\ att[a].sess = att[b].sess => a = b

\* No two attempts are at work on one session: not even the stream of a turn
\* that was given up and the attempt of the turn that follows it.
THEOREM RequestsExclude == Spec => []OneRequest
<1>1. Init => IInv
  BY InitInv
<1>2. IInv /\ [Next]_vars => IInv'
  BY NextInv, IdleInv
<1>3. IInv => OneRequest
  BY DEF IInv, Locked, OneRequest
<1> QED
  BY <1>1, <1>2, <1>3, PTL DEF Spec

\* A session that was told of no loss has one connection at most that a reader
\* still serves: a dial never leaves an earlier connection running beside it.
THEOREM DialsOnce == Spec => []OneConn
<1>1. Init => IInv
  BY InitInv
<1>2. IInv /\ [Next]_vars => IInv'
  BY NextInv, IdleInv
<1>3. IInv => OneConn
  BY DEF IInv
<1> QED
  BY <1>1, <1>2, <1>3, PTL DEF Spec

------------------------------------------------------------------------------
(* What lets NothingStaysOpen hold: whoever ends a session closes what it has, *)
(* and it has every connection that is open.                                   *)

Opened(c) == conns[c].state \in {"up", "down"}

\* An open connection is the one of the session that dialled it.
OpenHeld == \A c \in Conns : Opened(c) => conns[c].sess \in Sessions /\ sess[conns[c].sess].conn = c

\* A step that opens none, and takes from a session none that it leaves open.
NoneLost ==
  \A c \in Conns : Opened(c)' => Opened(c) /\ conns'[c].sess = conns[c].sess
                               /\ sess'[conns[c].sess].conn = sess[conns[c].sess].conn

\* Connections stay held by it.
LEMMA NoneLostHeld == OpenHeld /\ NoneLost => OpenHeld'
  BY DEF OpenHeld, NoneLost

\* The connections of sessions as they were.
SessionsKeep == \A s \in Sessions : sess'[s].conn = sess[s].conn

\* Whoever writes locks, active channels and results only is such a step.
LEMMA KeepsHeld == ASSUME OpenHeld, SessionsKeep, UNCHANGED conns PROVE OpenHeld'
  BY DEF OpenHeld, SessionsKeep, Opened

\* To shut a connection as the session forgets it loses none.
LEMMA ForgetHeld ==
  ASSUME Types, OpenHeld, NEW s \in Sessions, NEW c \in Conns, conns' = Shut(conns, s, c),
         \A t \in Sessions : sess'[t].conn = IF t = s /\ sess[s].conn = c THEN None ELSE sess[t].conn
  PROVE  OpenHeld'
<1>1. ConnSet(c, IF sess[s].conn = c THEN "shut" ELSE conns[c].state, conns[c].sess, conns[c].owes)
  BY Shuttings
<1>2. ASSUME NEW d \in Conns, Opened(d)' PROVE Opened(d) /\ conns'[d].sess = conns[d].sess /\ ~(d = c /\ sess[s].conn = c)
  BY <1>1, <1>2 DEF ConnSet, Opened
<1>3. ASSUME NEW d \in Conns, Opened(d)' PROVE sess'[conns[d].sess].conn = sess[conns[d].sess].conn
  BY <1>2, <1>3 DEF OpenHeld
<1>4. NoneLost
  BY <1>2, <1>3 DEF NoneLost
<1> QED
  BY <1>4, NoneLostHeld

\* To close what a session has loses none.
LEMMA CloseHeld == ASSUME Types, OpenHeld, NEW s \in Sessions, CloseConn(s) PROVE OpenHeld'
<1>1. \A t \in Sessions : sess'[t].conn = IF t = s THEN None ELSE sess[t].conn
  BY DEF CloseConn, Types, SessionRec
<1>2. ASSUME NEW d \in Conns, Opened(d)' PROVE Opened(d) /\ conns'[d].sess = conns[d].sess /\ sess[s].conn # d
  <2>1. CASE sess[s].conn = None
    BY <1>2, <2>1, NoneApart DEF CloseConn, Opened
  <2>2. CASE sess[s].conn # None
    <3>1. PICK c \in Conns : c = sess[s].conn
      BY <2>2, FieldsTyped DEF Fields, SessFields
    <3>2. conns' = [conns EXCEPT ![c].state = "shut"]
      BY <2>2, <3>1 DEF CloseConn
    <3> QED
      BY <1>2, <3>1, <3>2 DEF Opened, Types, ConnRec
  <2> QED
    BY <2>1, <2>2
<1>3. NoneLost
  BY <1>1, <1>2 DEF NoneLost, OpenHeld
<1> QED
  BY <1>3, NoneLostHeld

\* What a connection owes is all that a write or a read changes of it.
LEMMA OwesOnly ==
  ASSUME Types, NEW c \in Conns, NEW q, conns' = [conns EXCEPT ![c].owes = q]
  PROVE  \A d \in Conns : conns'[d].state = conns[d].state /\ conns'[d].sess = conns[d].sess
<1>1. PICK r : r = [conns[c] EXCEPT !.owes = q]
  OBVIOUS
<1>2. r.state = conns[c].state /\ r.sess = conns[c].sess
  BY <1>1 DEF Types, ConnRec
<1>3. conns' = [conns EXCEPT ![c] = r]
  BY <1>1
<1> QED
  BY <1>2, <1>3 DEF Types

\* A dial opens one for a session that has none.
LEMMA DialHeld ==
  ASSUME IInv, OpenHeld, NEW a \in Attempts, NEW next, att[a].sess \in Sessions, Dial(a, next)
  PROVE  OpenHeld'
<1>0. Types /\ SessFields /\ AttFields
  BY FieldsTyped DEF IInv, Fields
<1>1. PICK s \in Sessions, x \in Auths \cup {None} : s = att[a].sess /\ x = att[a].auth
  BY <1>0 DEF AttFields
<1>2. PICK c \in Conns : /\ sess[s].conn = None
                        /\ conns' = [conns EXCEPT ![c] = [state |-> "up", auth |-> x, sess |-> s, owes |-> <<>>]]
                        /\ sess' = [sess EXCEPT ![s].conn = c, ![s].auth = x]
  BY <1>1 DEF Dial, FreeConns
<1>3. SessSet(s, sess[s].lock, c, sess[s].active, sess[s].told)
  BY <1>0, <1>2, Dialled
<1>4. conns'[c].sess = s /\ \A d \in Conns : d # c => conns'[d] = conns[d]
  BY <1>0, <1>2 DEF Types
<1>5. ASSUME NEW d \in Conns, Opened(d)', d # c PROVE conns'[d].sess \in Sessions /\ sess'[conns'[d].sess].conn = d
  BY <1>2, <1>3, <1>4, <1>5, NoneApart DEF OpenHeld, Opened, SessSet
<1> QED
  BY <1>3, <1>4, <1>5 DEF OpenHeld, SessSet

\* The steps of an attempt.
LEMMA ExecuteHeld == ASSUME IInv, OpenHeld, NEW a \in Attempts, Execute(a) PROVE OpenHeld'
<1>0. Types /\ SessFields /\ AttFields
  BY FieldsTyped DEF IInv, Fields
<1>1. att[a].sess \in Sessions
  BY DEF IInv, AttemptsLinked, Execute, Lock, Connect, DialFails, Rejected, Http, Activate, Send, SendFails, Redial,
         RedialFails, ResendFails, Receive, ReceiveFails, Finish, At
<1>2. CASE Connect(a) \/ Redial(a)
  <2>1. PICK next : Reuse(a, next) \/ Dial(a, next)
    BY <1>2 DEF Connect, Redial
  <2>2. CASE Reuse(a, next)
    BY <2>2, KeepsHeld DEF Reuse, SessionsKeep, upstream
  <2> QED
    BY <1>1, <2>1, <2>2, DialHeld
<1>3. CASE Lock(a) \/ DialFails(a)
  BY <1>0, <1>3, KeepsHeld DEF Lock, DialFails, SessionsKeep, upstream, Types, SessionRec
<1>4. CASE Activate(a)
  BY <1>0, <1>4, KeepsHeld DEF Activate, SessionsKeep, upstream, Types, SessionRec
<1>5. CASE (\E why \in Rejections : Rejected(a, why)) \/ Http(a) \/ ReceiveFails(a)
  BY <1>5, KeepsHeld DEF Rejected, Http, ReceiveFails, SessionsKeep, upstream
<1>6. CASE RedialFails(a) \/ Finish(a)
  <2>1. PICK s \in Sessions : s = att[a].sess
    BY <1>1
  <2>2. sess' = Released(sess, a) /\ UNCHANGED conns
    BY <1>6 DEF RedialFails, Finish, upstream
  <2>3. SessSet(s, None, sess[s].conn, IF sess[s].active = a THEN None ELSE sess[s].active, sess[s].told)
    BY <1>0, <2>1, <2>2, Releasings
  <2> QED
    BY <2>2, <2>3, KeepsHeld DEF SessSet, SessionsKeep
<1>7. CASE Send(a)
  <2>1. UNCHANGED sess /\ att[a].conn \in Conns
    BY <1>7 DEF Send, Sent, IInv, AttemptsLinked, Connected, Active, At
  <2>2. PICK c \in Conns : c = att[a].conn
    BY <2>1
  <2>3. UNCHANGED conns \/ \E q : conns' = [conns EXCEPT ![c].owes = q]
    BY <1>7, <2>2 DEF Send, Sent
  <2>4. \A d \in Conns : conns'[d].state = conns[d].state /\ conns'[d].sess = conns[d].sess
    BY <1>0, <2>3, OwesOnly
  <2> QED
    BY <2>1, <2>4 DEF OpenHeld, Opened
<1>8. CASE SendFails(a) \/ ResendFails(a) \/ Receive(a)
  <2>1. PICK s \in Sessions, c \in Conns : s = att[a].sess /\ c = att[a].conn
    BY <1>1, <1>8 DEF SendFails, ResendFails, Receive, IInv, AttemptsLinked, Connected, Active, At
  <2>2. CASE UNCHANGED <<sess, conns>>
    BY <2>2, KeepsHeld DEF SessionsKeep
  <2>3. CASE sess' = Forget(sess, s, c) /\ conns' = Shut(conns, s, c)
    <3>1. SessSet(s, sess[s].lock, IF sess[s].conn = c THEN None ELSE sess[s].conn, sess[s].active,
                  sess[s].told \/ sess[s].conn = c)
      BY <1>0, <2>3, Forgettings
    <3>2. \A t \in Sessions : sess'[t].conn = IF t = s /\ sess[s].conn = c THEN None ELSE sess[t].conn
      BY <3>1 DEF SessSet
    <3> QED
      BY <1>0, <2>3, <3>2, ForgetHeld
  <2>4. CASE sess' = Released(Forget(sess, s, c), a) /\ conns' = Shut(conns, s, c)
    <3>1. PICK ss \in [Sessions -> SessionRec] :
            /\ ss = Forget(sess, s, c)
            /\ \A t \in Sessions : ss[t].conn = IF t = s /\ sess[s].conn = c THEN None ELSE sess[t].conn
      <4>1. CASE sess[s].conn = c
        <5>1. PICK lost \in [Sessions -> SessionRec] : lost = [sess EXCEPT ![s].conn = None, ![s].told = TRUE]
          BY <1>0 DEF Types, SessionRec
        <5>2. \A t \in Sessions : lost[t].conn = IF t = s THEN None ELSE sess[t].conn
          BY <1>0, <5>1 DEF Types, SessionRec
        <5> QED
          BY <4>1, <5>1, <5>2 DEF Forget
      <4>2. CASE sess[s].conn # c
        BY <1>0, <4>2 DEF Types, Forget
      <4> QED
        BY <4>1, <4>2
    <3>2. \A t \in Sessions : sess'[t].conn = ss[t].conn
      BY <2>1, <2>4, <3>1, ReleasedOf
    <3>3. \A t \in Sessions : sess'[t].conn = IF t = s /\ sess[s].conn = c THEN None ELSE sess[t].conn
      BY <3>1, <3>2
    <3> QED
      BY <1>0, <2>4, <3>3, ForgetHeld
  <2> QED
    BY <1>8, <2>1, <2>2, <2>3, <2>4 DEF SendFails, ResendFails, Receive
<1> QED
  BY <1>2, <1>3, <1>4, <1>5, <1>6, <1>7, <1>8 DEF Execute

\* The steps of a reader.
LEMMA ReadHeld == ASSUME IInv, OpenHeld, NEW c \in Conns, ReadLoop(c) PROVE OpenHeld'
<1>0. Types /\ SessFields /\ ConnFields
  BY FieldsTyped DEF IInv, Fields
<1>1. CASE Break(c) \/ Read(c) \/ Deliver(c) \/ ReadFails(c)
  <2>1. UNCHANGED sess
    BY <1>1 DEF Break, Read, Deliver, ReadFails
  <2>2. \/ UNCHANGED conns
        \/ \E q : conns' = [conns EXCEPT ![c].owes = q]
        \/ conns[c].state = "up" /\ conns' = [conns EXCEPT ![c].state = "down"]
    BY <1>1 DEF Break, Read, Deliver, ReadFails
  <2>3. \A d \in Conns : (Opened(d)' => Opened(d)) /\ conns'[d].sess = conns[d].sess
    <3>1. CASE \E q : conns' = [conns EXCEPT ![c].owes = q]
      BY <1>0, <3>1, OwesOnly DEF Opened
    <3>2. CASE conns[c].state = "up" /\ conns' = [conns EXCEPT ![c].state = "down"]
      BY <1>0, <3>2 DEF Types, ConnRec, Opened
    <3>3. CASE UNCHANGED conns
      BY <3>3 DEF Opened
    <3> QED
      BY <2>2, <3>1, <3>2, <3>3
  <2> QED
    BY <2>1, <2>3 DEF OpenHeld
<1>2. CASE Tell(c)
  BY <1>2, KeepsHeld DEF Tell, SessionsKeep
<1>3. CASE CloseChannel(c)
  <2>1. sess' = Cleared(sess, conns[c].sess, reader[c].ch) /\ UNCHANGED conns
    BY <1>3 DEF CloseChannel
  <2>2. SessionsKeep
    BY <1>0, <2>1 DEF Cleared, SessionsKeep, Types, SessionRec
  <2> QED
    BY <2>1, <2>2, KeepsHeld
<1>4. CASE Invalidate(c)
  <2>1. PICK s \in Sessions : s = conns[c].sess
    BY <1>0, <1>4 DEF Invalidate, IInv, ReadersLinked, ConnFields
  <2>2. sess' = Forget(sess, s, c)
    BY <1>4, <2>1 DEF Invalidate
  <2>3. SessSet(s, sess[s].lock, IF sess[s].conn = c THEN None ELSE sess[s].conn, sess[s].active,
                sess[s].told \/ sess[s].conn = c)
    BY <1>0, <2>2, Forgettings
  <2>4. /\ \A d \in Conns : d # c => conns'[d] = conns[d]
        /\ conns'[c].state = IF sess[s].conn = c THEN "shut" ELSE conns[c].state
    BY <1>0, <1>4, <2>1 DEF Invalidate, Shut, NoConn, Types, ConnRec
  <2>5. ~Opened(c)'
    BY <2>1, <2>4 DEF OpenHeld, Opened
  <2>6. ASSUME NEW d \in Conns, Opened(d)' PROVE conns'[d].sess \in Sessions /\ sess'[conns'[d].sess].conn = d
    BY <2>3, <2>4, <2>5, <2>6 DEF OpenHeld, Opened, SessSet
  <2> QED
    BY <2>6 DEF OpenHeld
<1> QED
  BY <1>1, <1>2, <1>3, <1>4 DEF ReadLoop

\* No connection is forgotten while it is open: whatever fails, is dialled anew,
\* removed or given up meanwhile, a session's end finds every connection that was
\* dialled for it, or its reader has.
THEOREM NoConnForgotten == Spec => []OpenHeld
<1>1. Init => IInv /\ OpenHeld
  <2>1. Init => \A c \in Conns : conns[c].state = "none"
    BY DEF Init, NoConn
  <2> QED
    BY <2>1, InitInv DEF OpenHeld, Opened
<1>2. IInv /\ OpenHeld /\ [Next]_vars => (IInv /\ OpenHeld)'
  <2>1. ASSUME IInv, OpenHeld, Next PROVE OpenHeld'
    <3>1. CASE (\E x \in Auths : BeginTurn(x)) \/ Disconnected \/ ClientLeaves
      BY <2>1, <3>1, KeepsHeld DEF BeginTurn, Disconnected, ClientLeaves, SessionsKeep, upstream
    <3>2. CASE Handler /\ ~Close
      BY <2>1, <3>2, KeepsHeld DEF Handler, Retry, TurnFails, TurnEnds, HandlerReadFails, Leave, SessionsKeep, upstream
    <3>3. CASE Close
      BY <2>1, <3>3, KeepsHeld, CloseHeld DEF Close, SessionsKeep, IInv, Turns
    <3>4. CASE Remove
      <4>1. CASE RemoveClose
        BY <2>1, <4>1, CloseHeld DEF RemoveClose, IInv, Turns
      <4>2. CASE (\E x \in Auths : RemoveMatch(x)) \/ RemoveDelete
        BY <2>1, <4>2, KeepsHeld DEF RemoveMatch, RemoveDelete, SessionsKeep, upstream
      <4> QED
        BY <3>4, <4>1, <4>2 DEF Remove
    <3> QED
      BY <2>1, <3>1, <3>2, <3>3, <3>4, ExecuteHeld, ReadHeld DEF Next
  <2>2. ASSUME OpenHeld, UNCHANGED vars PROVE OpenHeld'
    BY <2>2, KeepsHeld DEF vars, SessionsKeep, upstream
  <2> QED
    BY <2>1, <2>2, NextInv, IdleInv
<1> QED
  BY <1>1, <1>2, PTL DEF Spec

------------------------------------------------------------------------------
(* What lets ClientReleased hold: reqMu is with somebody who hands it back.    *)

\* Who holds a session's reqMu is at work on it, or has returned without Unlock.
LockOwned ==
  \A s \in Sessions : sess[s].lock # None =>
    \/ att[sess[s].lock].at = "gone"
    \/ att[sess[s].lock].at \in Holding /\ att[sess[s].lock].sess = s

\* So without such an attempt every lock is with one that is at work.
LockServed ==
  ~Leaked => \A s \in Sessions : sess[s].lock # None => att[sess[s].lock].at \in Holding /\ att[sess[s].lock].sess = s

\* Who has taken a lock keeps it until he returns, and does not come back.
HoldersStay ==
  \A b \in Attempts :
    /\ att[b].at = "gone" => att'[b].at = "gone"
    /\ att[b].at \in Holding => att'[b].at = "gone" \/ (att'[b].at \in Holding /\ att'[b].sess = att[b].sess)
LocksStay == \A s \in Sessions : sess'[s].lock \in {sess[s].lock, None}

\* An attempt that is written, and is none that has returned, leaves the others.
LEMMA OneMoves ==
  ASSUME NEW a \in Attempts, NEW at, NEW s, NEW c, NEW res, AttSet(a, at, s, c, res), att[a].at # "gone",
         att[a].at \in Holding => at = "gone" \/ (at \in Holding /\ s = att[a].sess)
  PROVE  HoldersStay
  BY DEF AttSet, HoldersStay

\* The steps of attempts leave those at work at work, or they return.
LEMMA ExecuteHolders == ASSUME IInv, NEW a \in Attempts, Execute(a) PROVE HoldersStay
<1>0. Types /\ AttFields
  BY FieldsTyped DEF IInv, Fields
<1>1. CASE Connect(a) \/ Redial(a)
  <2>1. PICK next \in {"activate", "resend"} : Reuse(a, next) \/ Dial(a, next)
    BY <1>1 DEF Connect, Redial
  <2>2. att[a].at \in {"connect", "redial"}
    BY <1>1 DEF Connect, Redial, At
  <2>3. PICK c : att' = [att EXCEPT ![a].at = next, ![a].conn = c]
    BY <2>1 DEF Reuse, Dial
  <2>4. att'[a].at = next /\ att'[a].sess = att[a].sess /\ \A b \in Attempts : b # a => att'[b] = att[b]
    <3>1. PICK r : r = [att[a] EXCEPT !.at = next, !.conn = c]
      OBVIOUS
    <3>2. r.at = next /\ r.sess = att[a].sess
      BY <1>0, <3>1 DEF Types, AttemptRec
    <3>3. att' = [att EXCEPT ![a] = r]
      BY <2>3, <3>1
    <3> QED
      BY <1>0, <3>2, <3>3 DEF Types
  <2> QED
    BY <2>2, <2>4 DEF HoldersStay, Holding, Active
<1>2. CASE Lock(a) \/ Activate(a) \/ Send(a) \/ SendFails(a)
  <2>1. PICK at \in {"connect", "send", "stream", "redial"} : Goes(a, at)
    BY <1>2 DEF Lock, Activate, Send, Sent, SendFails
  <2>2. att[a].at \in {"lock", "activate", "send", "resend"}
    BY <1>2 DEF Lock, Activate, Send, SendFails, At
  <2>3. AttSet(a, at, att[a].sess, att[a].conn, att[a].res)
    BY <1>0, <2>1, Goings DEF Places
  <2> QED
    BY <2>2, <2>3, OneMoves DEF Holding, Active
<1>3. CASE DialFails(a) \/ Http(a) \/ RedialFails(a) \/ ResendFails(a) \/ Finish(a)
  <2>1. PICK res \in {None, "ok", "failed"} : Returns(a, res)
    BY <1>0, <1>3 DEF DialFails, Http, RedialFails, ResendFails, Finish, AttFields
  <2>2. att[a].at # "gone"
    BY <1>3 DEF DialFails, Http, RedialFails, ResendFails, Finish, At
  <2>3. AttSet(a, "gone", None, None, res)
    BY <1>0, <2>1, Returnings
  <2> QED
    BY <2>2, <2>3, OneMoves
<1>4. CASE \E why \in Rejections : Rejected(a, why)
  <2>1. att[a].at = "connect" /\ (Goes(a, "http") \/ Returns(a, "failed"))
    BY <1>4 DEF Rejected, At
  <2>2. CASE Goes(a, "http")
    <3>1. AttSet(a, "http", att[a].sess, att[a].conn, att[a].res)
      BY <1>0, <2>2, Goings DEF Places
    <3> QED
      BY <2>1, <3>1, OneMoves DEF Holding
  <2>3. CASE Returns(a, "failed")
    <3>1. AttSet(a, "gone", None, None, "failed")
      BY <1>0, <2>3, Returnings
    <3> QED
      BY <2>1, <3>1, OneMoves
  <2> QED
    BY <2>1, <2>2, <2>3
<1>5. CASE Receive(a) \/ ReceiveFails(a)
  <2>1. att[a].at = "stream"
    BY <1>5 DEF Receive, ReceiveFails, At
  <2>2. \/ UNCHANGED att
        \/ \E res \in {"ok", "failed"} : att' = [att EXCEPT ![a].at = "finish", ![a].res = res]
    BY <1>5 DEF Receive, ReceiveFails, Fails
  <2>3. CASE UNCHANGED att
    BY <2>3 DEF HoldersStay
  <2>4. CASE \E res \in {"ok", "failed"} : att' = [att EXCEPT ![a].at = "finish", ![a].res = res]
    <3>1. PICK res \in {"ok", "failed"} : att' = [att EXCEPT ![a].at = "finish", ![a].res = res]
      BY <2>4
    <3>2. AttSet(a, "finish", att[a].sess, att[a].conn, res)
      BY <1>0, <3>1, Results DEF Places
    <3> QED
      BY <2>1, <3>2, OneMoves DEF Holding
  <2> QED
    BY <2>2, <2>3, <2>4
<1> QED
  BY <1>1, <1>2, <1>3, <1>4, <1>5 DEF Execute

\* So do all others: a new attempt takes the place of none.
LEMMA HoldersNext == ASSUME IInv, Next PROVE HoldersStay
<1>1. CASE \E a \in Attempts : Execute(a)
  BY <1>1, ExecuteHolders
<1>2. CASE \E x \in Auths : \E pin : Attempt(x, pin)
  <2>1. PICK a \in Attempts : att[a].at = "none" /\ \E r : att' = [att EXCEPT ![a] = r]
    BY <1>2 DEF Attempt, NewAttempt
  <2>2. PICK r : att' = [att EXCEPT ![a] = r]
    BY <2>1
  <2> QED
    BY <2>1, <2>2 DEF HoldersStay, Holding, Active, IInv, Types
<1>3. CASE UNCHANGED att
  BY <1>3 DEF HoldersStay
<1> QED
  BY <1>1, <1>2, <1>3 DEF Next, BeginTurn, Handler, Retry, TurnFails, TurnEnds, HandlerReadFails, Leave, Close,
     Disconnected, ClientLeaves, ReadLoop, Break, Read, Deliver, ReadFails, Tell, CloseChannel, Invalidate,
     Remove, RemoveMatch, RemoveDelete, RemoveClose

\* To forget a connection leaves the locks.
LEMMA ForgetTyped ==
  ASSUME Types, NEW s, NEW c
  PROVE  Forget(sess, s, c) \in [Sessions -> SessionRec] /\ \A t \in Sessions : Forget(sess, s, c)[t].lock = sess[t].lock
<1>1. PICK lost \in [Sessions -> SessionRec] : lost = [sess EXCEPT ![s].conn = None, ![s].told = TRUE]
  BY DEF Types, SessionRec
<1>2. \A t \in Sessions : lost[t].lock = sess[t].lock
  BY <1>1 DEF Types, SessionRec
<1>3. sess \in [Sessions -> SessionRec] /\ (Forget(sess, s, c) = lost \/ Forget(sess, s, c) = sess)
  BY <1>1 DEF Types, Forget
<1> QED
  BY <1>2, <1>3

\* Connections, channels and the news of a loss are written beside the locks, and
\* a lock is handed back.
LEMMA LocksBeside ==
  ASSUME Types, NEW s, NEW c
  PROVE  /\ sess' = Forget(sess, s, c) => LocksStay
         /\ sess' = Cleared(sess, s, c) => LocksStay
         /\ CloseConn(s) => LocksStay
         /\ sess' = [sess EXCEPT ![s].active = c] => LocksStay
         /\ sess' = [sess EXCEPT ![s].lock = None] => LocksStay
<1>1. sess' = Forget(sess, s, c) => LocksStay
  <2>1. ASSUME sess' = [sess EXCEPT ![s].conn = None, ![s].told = TRUE] PROVE LocksStay
    BY <2>1 DEF Types, SessionRec, LocksStay
  <2>2. ASSUME sess' = sess PROVE LocksStay
    BY <2>2 DEF LocksStay
  <2> QED
    BY <2>1, <2>2 DEF Forget
<1>2. sess' = Cleared(sess, s, c) => LocksStay
  BY DEF Types, SessionRec, Cleared, LocksStay
<1>3. CloseConn(s) => LocksStay
  BY DEF Types, SessionRec, CloseConn, LocksStay
<1>4. sess' = [sess EXCEPT ![s].active = c] => LocksStay
  BY DEF Types, SessionRec, LocksStay
<1>5. sess' = [sess EXCEPT ![s].lock = None] => LocksStay
  BY DEF Types, SessionRec, LocksStay
<1> QED
  BY <1>1, <1>2, <1>3, <1>4, <1>5

\* Only Lock takes one.
LEMMA LocksNext == ASSUME IInv, Next, ~(\E a \in Attempts : Lock(a)) PROVE LocksStay
<1>0. Types /\ SessFields /\ AttFields
  BY FieldsTyped DEF IInv, Fields
<1>1. ASSUME NEW a \in Attempts, Execute(a) PROVE LocksStay
  <2>0. att[a].sess \in Sessions
    BY <1>1 DEF IInv, AttemptsLinked, Execute, Lock, Connect, DialFails, Rejected, Http, Activate, Send, SendFails,
           Redial, RedialFails, ResendFails, Receive, ReceiveFails, Finish, At
  <2>1. CASE Connect(a) \/ Redial(a)
    <3>1. PICK next : Reuse(a, next) \/ Dial(a, next)
      BY <2>1 DEF Connect, Redial
    <3>2. PICK s \in Sessions, x \in Auths \cup {None} : s = att[a].sess /\ x = att[a].auth
      BY <1>0, <2>0 DEF AttFields
    <3>3. UNCHANGED sess \/ \E c \in Conns : sess' = [sess EXCEPT ![s].conn = c, ![s].auth = x]
      BY <3>1, <3>2 DEF Reuse, Dial, FreeConns
    <3>4. ASSUME NEW c \in Conns, sess' = [sess EXCEPT ![s].conn = c, ![s].auth = x] PROVE LocksStay
      <4>1. SessSet(s, sess[s].lock, c, sess[s].active, sess[s].told)
        BY <1>0, <3>4, Dialled
      <4> QED
        BY <4>1 DEF SessSet, LocksStay
    <3>5. UNCHANGED sess => LocksStay
      BY DEF LocksStay
    <3> QED
      BY <3>3, <3>4, <3>5
  <2>2. CASE DialFails(a) \/ Activate(a) \/ SendFails(a)
    BY <1>0, <2>2, LocksBeside DEF DialFails, Activate, SendFails
  <2>3. CASE RedialFails(a) \/ Finish(a)
    <3>1. PICK s \in Sessions : s = att[a].sess
      BY <2>0
    <3>2. SessSet(s, None, sess[s].conn, IF sess[s].active = a THEN None ELSE sess[s].active, sess[s].told)
      BY <1>0, <2>3, <3>1, Releasings DEF RedialFails, Finish
    <3> QED
      BY <3>2 DEF SessSet, LocksStay
  <2>4. CASE ResendFails(a)
    <3>1. PICK s \in Sessions : s = att[a].sess
      BY <2>0
    <3> DEFINE c == att[a].conn
    <3>2. sess' = Released(Forget(sess, s, c), a)
      BY <2>4, <3>1 DEF ResendFails
    <3>3. PICK ss \in [Sessions -> SessionRec] :
            ss = Forget(sess, s, c) /\ \A t \in Sessions : ss[t].lock = sess[t].lock
      BY <1>0, ForgetTyped
    <3>4. sess'[s].lock = None /\ \A t \in Sessions : t # s => sess'[t] = ss[t]
      BY <3>1, <3>2, <3>3, ReleasedOf
    <3> QED
      BY <3>3, <3>4 DEF LocksStay
  <2>5. CASE Receive(a)
    <3>1. UNCHANGED sess \/ sess' = Forget(sess, att[a].sess, att[a].conn)
      BY <2>5 DEF Receive
    <3>2. UNCHANGED sess => LocksStay
      BY DEF LocksStay
    <3> QED
      BY <1>0, <3>1, <3>2, LocksBeside
  <2>6. CASE (\E why \in Rejections : Rejected(a, why)) \/ Http(a) \/ Send(a) \/ ReceiveFails(a)
    BY <2>6 DEF Rejected, Http, Send, Sent, ReceiveFails, LocksStay
  <2> QED
    BY <1>1, <2>1, <2>2, <2>3, <2>4, <2>5, <2>6 DEF Execute
<1>2. ASSUME NEW c \in Conns, ReadLoop(c) PROVE LocksStay
  <2>1. CASE CloseChannel(c) \/ Invalidate(c)
    BY <1>0, <2>1, LocksBeside DEF CloseChannel, Invalidate
  <2>2. CASE Break(c) \/ Read(c) \/ Deliver(c) \/ ReadFails(c) \/ Tell(c)
    BY <2>2 DEF Break, Read, Deliver, ReadFails, Tell, LocksStay
  <2> QED
    BY <1>2, <2>1, <2>2 DEF ReadLoop
<1>3. CASE \E s : CloseConn(s)
  BY <1>0, <1>3, LocksBeside
<1>4. CASE UNCHANGED sess
  BY <1>4 DEF LocksStay
<1> QED
  BY <1>1, <1>2, <1>3, <1>4 DEF Next, BeginTurn, Handler, Retry, TurnFails, TurnEnds, HandlerReadFails, Leave, Close,
     Disconnected, ClientLeaves, Remove, RemoveMatch, RemoveDelete, RemoveClose

\* A lock taken is with the attempt that takes it.
LEMMA LockOwnedNext == ASSUME IInv, LockOwned, Next PROVE LockOwned'
<1>0. Types /\ SessFields
  BY FieldsTyped DEF IInv, Fields
<1>1. HoldersStay
  BY HoldersNext
<1>2. CASE \E a \in Attempts : Lock(a)
  <2>1. PICK a \in Attempts : Lock(a)
    BY <1>2
  <2>2. PICK s \in Sessions : s = att[a].sess
    BY <2>1 DEF Lock, At, IInv, AttemptsLinked
  <2>3. att'[a].at = "connect" /\ att'[a].sess = s
    BY <1>0, <2>1, <2>2 DEF Lock, Goes, Types, AttemptRec
  <2>4. sess'[s].lock = a /\ \A t \in Sessions : t # s => sess'[t] = sess[t]
    BY <1>0, <2>1, <2>2 DEF Lock, Types, SessionRec
  <2>5. ASSUME NEW t \in Sessions, t # s, sess[t].lock # None
        PROVE  \/ att'[sess[t].lock].at = "gone"
               \/ att'[sess[t].lock].at \in Holding /\ att'[sess[t].lock].sess = t
    BY <1>0, <1>1, <2>5 DEF LockOwned, HoldersStay, SessFields
  <2> QED
    BY <2>3, <2>4, <2>5 DEF LockOwned, Holding
<1>3. CASE ~\E a \in Attempts : Lock(a)
  <2>1. LocksStay
    BY <1>3, LocksNext
  <2> QED
    BY <1>0, <1>1, <2>1 DEF LockOwned, HoldersStay, LocksStay, SessFields
<1> QED
  BY <1>2, <1>3

\* Whoever waits for a session's reqMu waits for an attempt at work on that
\* session, unless one returned without Unlock.
THEOREM LocksAreServed == Spec => []LockServed
<1>1. Init => IInv /\ LockOwned
  <2>1. Init => \A s \in Sessions : sess[s].lock = None
    BY DEF Init, NoSess
  <2> QED
    BY <2>1, InitInv DEF LockOwned
<1>2. IInv /\ LockOwned /\ [Next]_vars => (IInv /\ LockOwned)'
  <2>1. ASSUME LockOwned, UNCHANGED vars PROVE LockOwned'
    BY <2>1 DEF vars, LockOwned
  <2> QED
    BY <2>1, LockOwnedNext, NextInv, IdleInv
<1>3. LockOwned => LockServed
  BY DEF LockOwned, LockServed, Leaked
<1> QED
  BY <1>1, <1>2, <1>3, PTL DEF Spec

\* An attempt returns without Unlock from a rejected handshake only, or from the
\* HTTP exchange that follows a 426.
LeaksByRejection ==
  \A s \in Sessions, a \in Attempts :
    sess[s].lock = a /\ att[a].at # "gone" /\ att'[a].at = "gone" /\ sess'[s].lock = a =>
      att[a].at = "http" \/ \E why \in Rejections \ {"upgrade"} : Rejected(a, why)

\* A step of an attempt writes no other.
LEMMA OthersStay == ASSUME IInv, NEW a \in Attempts, Execute(a) PROVE \A b \in Attempts : b # a => att'[b] = att[b]
<1>0. Types
  BY DEF IInv
<1>1. CASE Connect(a) \/ Redial(a)
  <2>1. PICK next : Reuse(a, next) \/ Dial(a, next)
    BY <1>1 DEF Connect, Redial
  <2>2. PICK c : att' = [att EXCEPT ![a].at = next, ![a].conn = c]
    BY <2>1 DEF Reuse, Dial
  <2> QED
    BY <1>0, <2>2 DEF Types
<1>2. CASE Lock(a) \/ Activate(a) \/ Send(a) \/ SendFails(a)
  <2>1. PICK at : Goes(a, at)
    BY <1>2 DEF Lock, Activate, Send, Sent, SendFails
  <2> QED
    BY <1>0, <2>1 DEF Goes, Types
<1>3. CASE DialFails(a) \/ Http(a) \/ RedialFails(a) \/ ResendFails(a) \/ Finish(a) \/ (\E why \in Rejections : Rejected(a, why))
  <2>1. PICK r : Returns(a, r) \/ Goes(a, r)
    BY <1>3 DEF DialFails, Http, RedialFails, ResendFails, Finish, Rejected
  <2> QED
    BY <1>0, <2>1 DEF Returns, Goes, Types
<1>4. CASE Receive(a) \/ ReceiveFails(a)
  <2>1. UNCHANGED att \/ \E res : att' = [att EXCEPT ![a].at = "finish", ![a].res = res]
    BY <1>4 DEF Receive, ReceiveFails, Fails
  <2> QED
    BY <1>0, <2>1 DEF Types
<1> QED
  BY <1>1, <1>2, <1>3, <1>4 DEF Execute

\* Every other return hands reqMu back.
LEMMA ReturnUnlocks ==
  ASSUME IInv, LockOwned, NEW a \in Attempts, NEW s \in Sessions, Execute(a),
         sess[s].lock = a, att[a].at # "gone", att'[a].at = "gone", sess'[s].lock = a
  PROVE  att[a].at = "http" \/ \E why \in Rejections \ {"upgrade"} : Rejected(a, why)
<1>0. Types /\ att[a].sess = s
  BY NoneApart DEF IInv, LockOwned
<1>1. a # None
  BY NoneApart
<1>2. CASE DialFails(a)
  BY <1>0, <1>1, <1>2 DEF DialFails, Types, SessionRec
<1>3. CASE RedialFails(a) \/ Finish(a)
  <2>1. SessSet(s, None, sess[s].conn, IF sess[s].active = a THEN None ELSE sess[s].active, sess[s].told)
    BY <1>0, <1>3, Releasings DEF RedialFails, Finish
  <2> QED
    BY <1>1, <2>1 DEF SessSet
<1>4. CASE ResendFails(a)
  <2>1. sess' = Released(Forget(sess, s, att[a].conn), a)
    BY <1>0, <1>4 DEF ResendFails
  <2>2. PICK ss \in [Sessions -> SessionRec] : ss = Forget(sess, s, att[a].conn)
    BY <1>0, ForgetTyped
  <2>3. sess'[s].lock = None
    BY <1>0, <2>1, <2>2, ReleasedOf
  <2> QED
    BY <1>1, <2>3
<1>5. CASE Http(a)
  BY <1>5 DEF Http, At
<1>6. CASE \E why \in Rejections : Rejected(a, why)
  <2>1. PICK why \in Rejections : Rejected(a, why)
    BY <1>6
  <2>2. why = "upgrade" => att'[a].at = "http"
    BY <1>0, <2>1 DEF Rejected, Goes, Types, AttemptRec
  <2> QED
    BY <2>1, <2>2
<1>7. CASE Connect(a) \/ Redial(a)
  <2>1. PICK next \in {"activate", "resend"} : Reuse(a, next) \/ Dial(a, next)
    BY <1>7 DEF Connect, Redial
  <2>2. PICK c : att' = [att EXCEPT ![a].at = next, ![a].conn = c]
    BY <2>1 DEF Reuse, Dial
  <2> QED
    BY <1>0, <2>2 DEF Types, AttemptRec
<1>8. CASE Lock(a) \/ Activate(a) \/ Send(a) \/ SendFails(a)
  <2>1. PICK at \in {"connect", "send", "stream", "redial"} : Goes(a, at)
    BY <1>8 DEF Lock, Activate, Send, Sent, SendFails
  <2> QED
    BY <1>0, <2>1 DEF Goes, Types, AttemptRec
<1>9. CASE Receive(a) \/ ReceiveFails(a)
  <2>1. UNCHANGED att \/ \E res : att' = [att EXCEPT ![a].at = "finish", ![a].res = res]
    BY <1>9 DEF Receive, ReceiveFails, Fails
  <2> QED
    BY <1>0, <2>1 DEF Types, AttemptRec
<1> QED
  BY <1>2, <1>3, <1>4, <1>5, <1>6, <1>7, <1>8, <1>9 DEF Execute

\* Every way out of Execute but these two hands reqMu back.
THEOREM OnlyRejectionsLeak == Spec => [][LeaksByRejection]_vars
<1>1. Init => IInv /\ LockOwned
  <2>1. Init => \A s \in Sessions : sess[s].lock = None
    BY DEF Init, NoSess
  <2> QED
    BY <2>1, InitInv DEF LockOwned
<1>2. IInv /\ LockOwned /\ [Next]_vars => (IInv /\ LockOwned)'
  <2>1. ASSUME LockOwned, UNCHANGED vars PROVE LockOwned'
    BY <2>1 DEF vars, LockOwned
  <2> QED
    BY <2>1, LockOwnedNext, NextInv, IdleInv
<1>3. IInv /\ LockOwned /\ [Next]_vars => [LeaksByRejection]_vars
  <2> SUFFICES ASSUME IInv, LockOwned, Next, NEW s \in Sessions, NEW a \in Attempts,
                      sess[s].lock = a, att[a].at # "gone", att'[a].at = "gone", sess'[s].lock = a
               PROVE  att[a].at = "http" \/ \E why \in Rejections \ {"upgrade"} : Rejected(a, why)
    BY DEF LeaksByRejection
  <2>1. PICK b \in Attempts : Execute(b)
    <3>1. CASE \E x \in Auths : \E pin : Attempt(x, pin)
      <4>1. PICK x \in Auths, d \in NewAttempt :
              LET s2 == IF store # None THEN store ELSE CHOOSE n \in Sessions : \A m \in Sessions : m <= n
              IN  att' = [att EXCEPT ![d] = [NoAtt EXCEPT !.at = "lock", !.sess = s2, !.auth = x]]
        BY <3>1 DEF Attempt
      <4>2. PICK n : att' = [att EXCEPT ![d] = [NoAtt EXCEPT !.at = "lock", !.sess = n, !.auth = x]]
        BY <4>1
      <4>3. PICK r : r = [NoAtt EXCEPT !.at = "lock", !.sess = n, !.auth = x]
        OBVIOUS
      <4>4. r.at = "lock"
        BY <4>3 DEF NoAtt
      <4>5. att' = [att EXCEPT ![d] = r]
        BY <4>2, <4>3
      <4>6. att'[d].at # "gone" /\ \A e \in Attempts : e # d => att'[e] = att[e]
        BY <4>4, <4>5 DEF IInv, Types
      <4> QED
        BY <4>6
    <3> QED
      BY <3>1 DEF Next, BeginTurn, Handler, Retry, TurnFails, TurnEnds, HandlerReadFails, Leave, Close,
         Disconnected, ClientLeaves, ReadLoop, Break, Read, Deliver, ReadFails, Tell, CloseChannel, Invalidate,
         Remove, RemoveMatch, RemoveDelete, RemoveClose
  <2>2. b = a
    BY <2>1, OthersStay
  <2> QED
    BY <2>1, <2>2, ReturnUnlocks
<1> QED
  BY <1>1, <1>2, <1>3, PTL DEF Spec

=============================================================================
