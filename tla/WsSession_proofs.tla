--------------------------- MODULE WsSession_proofs ---------------------------
(***************************************************************************)
(* The session's safety, for any requests, any capacity of their channels    *)
(* and any number of messages.  OkIsComplete follows from what a channel can  *)
(* hold: data before anything terminal, every message that was read and not   *)
(* yet taken, and, once it is closed, the reason why (Balance).               *)
(***************************************************************************)
EXTENDS WsSession, TLAPS

Flags == closed \in BOOLEAN /\ panicked \in BOOLEAN
Sets ==
  /\ cleanup \in {"no", "range", "reset", "done"}
  /\ todo \in SUBSET Requests /\ visited \in SUBSET Requests /\ held \in SUBSET Requests
  /\ pending \in SUBSET Requests /\ watching \in SUBSET Requests
  /\ cancelled \in SUBSET Requests /\ dropped \in SUBSET Requests
Channels == ch \in [Requests -> [buf: Seq(Kinds), closed: BOOLEAN]] /\ \A r \in Requests : Len(ch[r].buf) <= Cap
Readers == reader \in Handling \cup {Idle, Stopped}
Counts ==
  /\ peer \in [Requests -> [data: Nat, ended: BOOLEAN]] /\ got \in [Requests -> Nat]
  /\ \A r \in Requests : peer[r].data <= MaxData[r]
Places == pc \in [Requests -> {"new", "stored", "loaded", "writing", "waiting", "unsent"} \cup Done]

Carrying(r) == reader \in Handling /\ reader.for = r
Inflight(r) == IF Carrying(r) /\ reader.at = "found" /\ reader.kind = "data" THEN 1 ELSE 0

\* r relies on what its channel holds.
Relying(r) == ~panicked /\ r \notin dropped \cup cancelled /\ pc[r] \notin Done

\* r's channel begins with k data messages.
Balance(r, k) ==
  /\ \A i \in 1..Len(ch[r].buf) : ch[r].buf[i] = "data" <=> i <= k
  /\ \A i \in 1..Len(ch[r].buf) : ch[r].buf[i] = "end" => peer[r].ended
  /\ k + got[r] + Inflight(r) <= peer[r].data
  /\ Len(ch[r].buf) > k => peer[r].ended \/ ch[r].closed
  /\ Relying(r) => k + got[r] + Inflight(r) = peer[r].data
  /\ Relying(r) /\ (ch[r].closed \/ (Carrying(r) /\ reader.at = "offered")) => Len(ch[r].buf) > k

Balanced == \A r \in Requests : \E k \in 0..Len(ch[r].buf) : Balance(r, k)

\* The reader carries the last message of a peer that finished.
ReaderKnows == \A r \in Requests : Carrying(r) =>
  /\ reader.kind \in Terminal <=> peer[r].ended
  /\ reader.at = "offered" => reader.kind \in Terminal

\* Until it is answered or given up, a request stays in s.pending.
Entered == \A r \in Requests :
  pc[r] \in {"stored", "loaded", "writing", "waiting"} /\ cleanup # "done" =>
    r \in pending \/ r \in cancelled \/ peer[r].ended

Typed == Flags /\ Sets /\ Channels /\ Readers /\ Counts /\ Places

IInv == Typed /\ Balanced /\ ReaderKnows /\ Entered /\ OkIsComplete

------------------------------------------------------------------------------
\* A session begins without a message.
LEMMA InitIInv == Init => IInv
<1> SUFFICES ASSUME Init PROVE IInv
  OBVIOUS
<1>1. Typed
  <2>1. Flags
    BY Zenon DEF Init, Flags
  <2>2. Channels
    BY SessionAssumption DEF Init, Channels
  <2> QED
    BY <2>1, <2>2, SessionAssumption DEF Init, Typed, Sets, Readers, Counts, Places
<1>2. Balanced
  <2> SUFFICES ASSUME NEW r \in Requests PROVE Balance(r, 0) /\ 0 \in 0..Len(ch[r].buf)
    BY Zenon DEF Balanced
  <2>1. reader.at = "idle"
    BY DEF Init, Idle
  <2>2. Inflight(r) = 0 /\ (Carrying(r) => reader.at # "offered")
    BY <2>1 DEF Inflight
  <2> QED
    BY <2>2 DEF Init, Balance
<1>3. ReaderKnows
  BY DEF Init, ReaderKnows, Carrying, Handling, Idle
<1>4. Entered /\ OkIsComplete
  BY DEF Init, Entered, OkIsComplete
<1> QED
  BY <1>1, <1>2, <1>3, <1>4 DEF IInv

\* The types, and what was taken came from the peer.
LEMMA IInvTypes == IInv => TypeOK
<1> SUFFICES ASSUME IInv PROVE TypeOK
  OBVIOUS
<1>1. ASSUME NEW r \in Requests PROVE got[r] <= peer[r].data
  <2>1. PICK k \in 0..Len(ch[r].buf) : Balance(r, k)
    BY Zenon DEF IInv, Balanced
  <2>2. Inflight(r) \in {0, 1} /\ got[r] \in Nat /\ peer[r].data \in Nat
    BY DEF IInv, Typed, Counts, Inflight
  <2> QED
    BY <2>1, <2>2 DEF Balance
<1>2. {todo, visited, held, pending, watching, cancelled, dropped} \subseteq SUBSET Requests
  BY DEF IInv, Typed, Sets
<1> QED
  BY <1>1, <1>2 DEF IInv, Typed, Flags, Sets, Channels, Readers, Counts, Places, TypeOK

\* Where the reader is, told by its record.
LEMMA ReaderAt ==
  ASSUME Typed
  PROVE  /\ reader \in Handling <=> reader.at \in {"found", "offered"}
         /\ reader \in Handling => reader.for \in Requests /\ reader.kind \in Kinds
         /\ reader = Idle \/ reader = Stopped => reader \notin Handling
  BY DEF Typed, Readers, Handling, Idle, Stopped

\* A step that leaves a request's channel and counts alone, and the message
\* carried for it, keeps its balance.
LEMMA Frame ==
  ASSUME IInv, NEW q \in Requests,
         ch'[q] = ch[q], peer'[q] = peer[q], got'[q] = got[q],
         Carrying(q) => reader' = reader, Carrying(q)' => reader' = reader,
         Relying(q)' => Relying(q)
  PROVE  \E k \in 0..Len(ch'[q].buf) : Balance(q, k)'
<1>1. PICK k \in 0..Len(ch[q].buf) : Balance(q, k)
  BY Zenon DEF IInv, Balanced
<1>2. Carrying(q)' = Carrying(q)
  BY DEF Carrying
<1>3. Inflight(q)' = Inflight(q) /\ (Carrying(q) => reader' = reader)
  BY <1>2 DEF Inflight
<1>4. Balance(q, k)'
  BY <1>1, <1>2, <1>3 DEF Balance
<1> QED
  BY <1>1, <1>4, Zenon


\* A step that leaves channels, counts and the reader alone.
LEMMA Quiet ==
  ASSUME IInv, UNCHANGED <<ch, peer, got, reader>>,
         \A q \in Requests : Relying(q)' => Relying(q)
  PROVE  Balanced' /\ ReaderKnows' /\ Channels' /\ Readers' /\ Counts'
<1>1. Balanced'
  <2> SUFFICES ASSUME NEW q \in Requests PROVE \E k \in 0..Len(ch'[q].buf) : Balance(q, k)'
    BY Zenon DEF Balanced
  <2> QED
    BY Frame
<1>2. ReaderKnows'
  BY DEF IInv, ReaderKnows, Carrying
<1> QED
  BY <1>1, <1>2 DEF IInv, Typed, Channels, Readers, Counts

\* What releasing a request changes.
LEMMA Released ==
  ASSUME IInv, NEW r \in Requests, Release(r)
  PROVE  /\ \A q \in Requests : ch'[q].buf = ch[q].buf /\ (ch[q].closed => ch'[q].closed)
         /\ \A q \in Requests : q # r => ch'[q] = ch[q]
         /\ pending' = pending \ {r}
         /\ Channels'
<1>1. CASE r \in pending
  <2>1. ch' = [ch EXCEPT ![r].closed = TRUE] /\ pending' = pending \ {r}
    BY <1>1, Zenon DEF Release
  <2>2. Channels
    BY Zenon DEF IInv, Typed
  <2>3. /\ ch'[r] = [ch[r] EXCEPT !.closed = TRUE] /\ \A q \in Requests : q # r => ch'[q] = ch[q]
        /\ ch[r] \in [buf: Seq(Kinds), closed: BOOLEAN] /\ DOMAIN ch' = Requests
        /\ ch' = [ch EXCEPT ![r] = ch'[r]]
    BY <2>1, <2>2 DEF Channels
  <2>4. ch'[r].buf = ch[r].buf /\ ch'[r].closed /\ ch'[r] \in [buf: Seq(Kinds), closed: BOOLEAN]
    BY <2>3
  <2>5. Channels'
    <3>1. ch' \in [Requests -> [buf: Seq(Kinds), closed: BOOLEAN]]
      <4> HIDE DEF Kinds
      <4> QED
        BY <2>2, <2>3, <2>4 DEF Channels
    <3>2. \A q \in Requests : Len(ch'[q].buf) <= Cap
      BY <2>2, <2>3, <2>4 DEF Channels
    <3> QED
      BY <3>1, <3>2, Zenon DEF Channels
  <2> QED
    BY <2>1, <2>3, <2>4, <2>5
<1>2. CASE r \notin pending
  BY <1>2 DEF Release, IInv, Typed, Channels
<1> QED
  BY <1>1, <1>2

\* A release keeps every balance when its request does not rely on the channel
\* any more, or the terminal message has been offered.
LEMMA ReleaseBalanced ==
  ASSUME IInv, NEW r \in Requests, Release(r), UNCHANGED <<peer, got>>,
         \A q \in Requests : /\ Inflight(q)' = Inflight(q)
                             /\ Carrying(q)' => reader' = reader
                             /\ Relying(q)' => Relying(q),
         Relying(r)' => Carrying(r) /\ reader.at = "offered"
  PROVE  Balanced'
<1> SUFFICES ASSUME NEW q \in Requests PROVE \E k \in 0..Len(ch'[q].buf) : Balance(q, k)'
  BY Zenon DEF Balanced
<1>1. PICK k \in 0..Len(ch[q].buf) : Balance(q, k)
  BY Zenon DEF IInv, Balanced
<1>2. ch'[q].buf = ch[q].buf /\ (ch[q].closed => ch'[q].closed) /\ (q # r => ch'[q] = ch[q])
  BY Released
<1>3. Carrying(q)' => Carrying(q) /\ reader' = reader
  BY DEF Carrying
<1>4. Balance(q, k)'
  BY <1>1, <1>2, <1>3 DEF Balance
<1> QED
  BY <1>2, <1>4, Zenon

------------------------------------------------------------------------------
\* The goroutine of a request keeps the invariant.
LEMMA RequestSteps ==
  ASSUME IInv, ~panicked, NEW r \in Requests, Store(r) \/ Internal(r) \/ Watch(r) \/ Cancel(r)
  PROVE  IInv'
<1> USE DEF cleaning
<1>1. CASE Store(r)
  <2>1. Balanced' /\ ReaderKnows' /\ Channels' /\ Readers' /\ Counts'
    BY <1>1, Quiet DEF Store, Goto, Relying, IInv, Typed, Places, Done
  <2>2. Flags' /\ Sets' /\ Places'
    BY <1>1 DEF Store, Goto, IInv, Typed, Flags, Sets, Places
  <2>3. Entered' /\ OkIsComplete'
    BY <1>1 DEF Store, Goto, IInv, Typed, Places, Entered, OkIsComplete, Complete
  <2> QED
    BY <2>1, <2>2, <2>3 DEF IInv, Typed
<1>2. CASE Load(r)
  <2>1. Balanced' /\ ReaderKnows' /\ Channels' /\ Readers' /\ Counts'
    BY <1>2, Quiet DEF Load, Goto, Relying, IInv, Typed, Places, Done
  <2>2. Sets' /\ Places'
    BY <1>2 DEF Load, Goto, IInv, Typed, Sets, Places
  <2>a. Flags'
    BY <1>2, Zenon DEF Load, IInv, Typed, Flags
  <2>3. Entered' /\ OkIsComplete'
    BY <1>2 DEF Load, Goto, IInv, Typed, Places, Entered, OkIsComplete, Complete
  <2> QED
    BY <2>1, <2>2, <2>a, <2>3 DEF IInv, Typed
<1>3. CASE SendCheck(r)
  <2>1. Balanced' /\ ReaderKnows' /\ Channels' /\ Readers' /\ Counts'
    BY <1>3, Quiet DEF SendCheck, Goto, Relying, IInv, Typed, Places, Done
  <2>2. Flags' /\ Sets' /\ Places'
    BY <1>3 DEF SendCheck, Goto, IInv, Typed, Flags, Sets, Places
  <2>3. Entered' /\ OkIsComplete'
    BY <1>3 DEF SendCheck, Goto, IInv, Typed, Places, Entered, OkIsComplete, Complete
  <2> QED
    BY <2>1, <2>2, <2>3 DEF IInv, Typed
<1>4. CASE Write(r)
  <2>1. Balanced' /\ ReaderKnows' /\ Channels' /\ Readers' /\ Counts'
    BY <1>4, Quiet DEF Write, Goto, Relying, IInv, Typed, Places, Done
  <2>2. Flags' /\ Sets' /\ Places'
    BY <1>4 DEF Write, Goto, IInv, Typed, Flags, Sets, Places
  <2>3. Entered' /\ OkIsComplete'
    BY <1>4 DEF Write, Goto, IInv, Typed, Places, Entered, OkIsComplete, Complete
  <2> QED
    BY <2>1, <2>2, <2>3 DEF IInv, Typed
<1>5. CASE Unsent(r)
  <2>1. Channels' /\ pending' = pending \ {r}
    BY <1>5, Released DEF Unsent
  <2>2. Balanced'
    BY <1>5, ReleaseBalanced DEF Unsent, Goto, Relying, IInv, Typed, Places, Done, Inflight, Carrying
  <2>3. Flags' /\ Sets' /\ Places' /\ Readers' /\ Counts' /\ ReaderKnows'
    BY <1>5, <2>1 DEF Unsent, Goto, IInv, Typed, Flags, Sets, Places, Readers, Counts, ReaderKnows, Carrying, Done
  <2>4. Entered' /\ OkIsComplete'
    BY <1>5, <2>1 DEF Unsent, Goto, IInv, Typed, Places, Entered, OkIsComplete, Complete
  <2> QED
    BY <2>1, <2>2, <2>3, <2>4 DEF IInv, Typed
<1>6. CASE Receive(r)
  <2> DEFINE head == Head(ch[r].buf)
  <2>0. ch[r] \in [buf: Seq(Kinds), closed: BOOLEAN] /\ ch[r].buf # <<>>
    BY <1>6 DEF Receive, IInv, Typed, Channels
  <2>1. /\ head \in Kinds /\ head = ch[r].buf[1] /\ Len(ch[r].buf) > 0
        /\ Tail(ch[r].buf) \in Seq(Kinds) /\ Len(Tail(ch[r].buf)) = Len(ch[r].buf) - 1
        /\ \A i \in 1..Len(Tail(ch[r].buf)) : Tail(ch[r].buf)[i] = ch[r].buf[i + 1]
    BY <2>0
  <2>2. /\ ch'[r].buf = Tail(ch[r].buf) /\ ch'[r].closed = ch[r].closed
        /\ \A q \in Requests : q # r => ch'[q] = ch[q] /\ got'[q] = got[q] /\ pc'[q] = pc[q]
        /\ got'[r] = got[r] + (IF head = "data" THEN 1 ELSE 0)
        /\ head = "data" => pc' = pc
        /\ head = "end" => pc'[r] = "ok"
        /\ head = "error" => pc'[r] = "failed"
    BY <1>6, <2>0, <2>1 DEF Receive, Goto, IInv, Typed, Channels, Counts, Places, Kinds
  <2>3. Channels' /\ Places' /\ Counts'
    <3>1. ch' = [ch EXCEPT ![r].buf = Tail(@)] /\ got' = [got EXCEPT ![r] = @ + IF head = "data" THEN 1 ELSE 0]
      BY <1>6 DEF Receive
    <3>2. Channels'
      <4>1. ch' = [ch EXCEPT ![r] = ch'[r]] /\ ch'[r] = [ch[r] EXCEPT !.buf = Tail(ch[r].buf)]
        BY <3>1 DEF IInv, Typed, Channels
      <4>2. ch'[r] \in [buf: Seq(Kinds), closed: BOOLEAN]
        BY <2>0, <2>1, <4>1
      <4>3. ch' \in [Requests -> [buf: Seq(Kinds), closed: BOOLEAN]]
        BY <4>1, <4>2 DEF IInv, Typed, Channels
      <4>4. Len(ch[r].buf) <= Cap /\ Cap \in Nat /\ Len(ch[r].buf) \in Nat
        BY <2>0, SessionAssumption DEF IInv, Typed, Channels
      <4>5. Len(ch'[r].buf) <= Cap
        BY <2>1, <2>2, <4>4
      <4> QED
        BY <2>2, <4>3, <4>5 DEF IInv, Typed, Channels
    <3>3. Places'
      BY <1>6, <2>1 DEF Receive, Goto, IInv, Typed, Places, Kinds, Done
    <3>4. Counts'
      BY <1>6, <3>1 DEF Receive, IInv, Typed, Counts
    <3> QED
      BY <3>2, <3>3, <3>4
  <2>4. Balanced'
    <3> SUFFICES ASSUME NEW q \in Requests PROVE \E k \in 0..Len(ch'[q].buf) : Balance(q, k)'
      BY Zenon DEF Balanced
    <3>1. CASE q # r
      BY <1>6, <2>2, <3>1, Frame DEF Receive, Relying
    <3>2. CASE q = r
      <4>1. PICK k \in 0..Len(ch[r].buf) : Balance(r, k)
        BY Zenon DEF IInv, Balanced
      <4>2. Inflight(r)' = Inflight(r) /\ Inflight(r) \in {0, 1} /\ Carrying(r)' = Carrying(r) /\ reader' = reader
        BY <1>6 DEF Receive, Inflight, Carrying
      <4>3. got[r] \in Nat /\ peer[r].data \in Nat /\ peer' = peer /\ pc[r] = "waiting" /\ (Relying(r)' => Relying(r))
        BY <1>6 DEF Receive, IInv, Typed, Counts, Relying, Done
      <4>4. CASE head = "data"
        <5>1. k > 0 /\ k - 1 \in 0..Len(ch'[r].buf)
          BY <4>1, <4>4, <2>1, <2>2 DEF Balance
        <5>2. got'[r] = got[r] + 1 /\ ch'[r].closed = ch[r].closed /\ Len(ch'[r].buf) = Len(ch[r].buf) - 1
          BY <2>1, <2>2, <4>4
        <5>3. \A i \in 1..Len(ch'[r].buf) : ch'[r].buf[i] = ch[r].buf[i + 1] /\ i + 1 \in 1..Len(ch[r].buf)
          BY <2>1, <2>2, <5>2
        <5>4. \A i \in 1..Len(ch'[r].buf) : ch'[r].buf[i] = "data" <=> i <= k - 1
          <6> SUFFICES ASSUME NEW i \in 1..Len(ch'[r].buf) PROVE ch'[r].buf[i] = "data" <=> i <= k - 1
            OBVIOUS
          <6>1. ch[r].buf[i + 1] = "data" <=> i + 1 <= k
            BY <4>1, <5>3 DEF Balance
          <6>2. i \in Int /\ k \in Int
            BY <2>1, <5>2
          <6> QED
            BY <5>3, <6>1, <6>2
        <5>5. \A i \in 1..Len(ch'[r].buf) : ch'[r].buf[i] = "end" => peer'[r].ended
          BY <4>1, <4>3, <5>3 DEF Balance
        <5>a. k \in Int /\ Len(ch[r].buf) \in Int /\ got[r] \in Int
          BY <2>1, <4>3
        <5>6. k - 1 + got'[r] + Inflight(r)' <= peer'[r].data
          BY <4>1, <4>2, <4>3, <5>2, <5>a DEF Balance
        <5>b. Relying(r)' => k - 1 + got'[r] + Inflight(r)' = peer'[r].data
          BY <4>1, <4>2, <4>3, <5>2, <5>a DEF Balance
        <5>c. Len(ch'[r].buf) > k - 1 <=> Len(ch[r].buf) > k
          BY <5>2, <5>a
        <5>d. Len(ch'[r].buf) > k - 1 => peer'[r].ended \/ ch'[r].closed
          BY <4>1, <4>3, <5>2, <5>c DEF Balance
        <5>e. Relying(r)' /\ (ch'[r].closed \/ (Carrying(r)' /\ reader'.at = "offered")) => Len(ch'[r].buf) > k - 1
          BY <4>1, <4>2, <4>3, <5>2, <5>c DEF Balance
        <5>7. Balance(r, k - 1)'
          BY <5>4, <5>5, <5>6, <5>b, <5>d, <5>e DEF Balance
        <5> QED
          BY <5>1, <5>7, <3>2, Zenon
      <4>5. CASE head # "data"
        <5>1. k = 0
          BY <4>1, <4>5, <2>1 DEF Balance
        <5>2. ~Relying(r)'
          BY <4>5, <2>1, <2>2 DEF Relying, Kinds, Done
        <5>3. got'[r] = got[r] /\ ch'[r].closed = ch[r].closed /\ Len(ch'[r].buf) = Len(ch[r].buf) - 1
          BY <2>1, <2>2, <4>3, <4>5
        <5>4. \A i \in 1..Len(ch'[r].buf) : ch'[r].buf[i] = ch[r].buf[i + 1] /\ i + 1 \in 1..Len(ch[r].buf)
          BY <2>1, <2>2, <5>3
        <5>5. \A i \in 1..Len(ch'[r].buf) : ch'[r].buf[i] = "end" => peer'[r].ended
          BY <4>1, <4>3, <5>4 DEF Balance
        <5>6. /\ 0 + got'[r] + Inflight(r)' <= peer'[r].data
              /\ Len(ch'[r].buf) > 0 => peer'[r].ended \/ ch'[r].closed
          BY <4>1, <4>2, <4>3, <5>1, <5>3, <2>1 DEF Balance
        <5>b. \A i \in 1..Len(ch'[r].buf) : ch'[r].buf[i] = "data" <=> i <= 0
          <6> SUFFICES ASSUME NEW i \in 1..Len(ch'[r].buf) PROVE ch'[r].buf[i] = "data" <=> i <= 0
            OBVIOUS
          <6>a. ch'[r].buf[i] = ch[r].buf[i + 1] /\ i + 1 \in 1..Len(ch[r].buf)
            BY <5>4
          <6>b. ch[r].buf[i + 1] = "data" <=> i + 1 <= 0
            BY <4>1, <5>1, <6>a DEF Balance
          <6>1. ch'[r].buf[i] # "data"
            BY <6>a, <6>b
          <6>2. ~(i <= 0)
            BY <5>3, <2>1
          <6> QED
            BY <6>1, <6>2
        <5>7. Balance(r, 0)'
          BY <5>2, <5>5, <5>6, <5>b, Zenon DEF Balance
        <5>8. 0 \in 0..Len(ch'[r].buf)
          BY <5>3, <2>1
        <5> QED
          BY <5>7, <5>8, <3>2, Zenon
      <4> QED
        BY <4>4, <4>5
    <3> QED
      BY <3>1, <3>2
  <2>5. OkIsComplete'
    <3> SUFFICES ASSUME NEW q \in Requests, pc'[q] = "ok", q \notin dropped' \cup cancelled' PROVE Complete(q)'
      BY Zenon DEF OkIsComplete
    <3>1. CASE q # r
      BY <1>6, <2>2, <3>1 DEF Receive, IInv, OkIsComplete, Complete
    <3>2. CASE q = r
      <4>1. PICK k \in 0..Len(ch[r].buf) : Balance(r, k)
        BY Zenon DEF IInv, Balanced
      <4>2. pc[r] = "waiting" /\ Relying(r)
        BY <1>6, <3>2 DEF Receive, Relying, Done
      <4>3. head = "end"
        BY <2>1, <2>2, <3>2, <4>2 DEF Kinds
      <4>4. k = 0 /\ peer[r].ended
        BY <4>1, <4>3, <2>1 DEF Balance
      <4>5. Inflight(r) = 0
        BY <4>4 DEF IInv, ReaderKnows, Inflight, Terminal
      <4>6. got[r] \in Nat /\ got'[r] = got[r] /\ peer' = peer
        BY <1>6, <2>2, <4>3 DEF Receive, IInv, Typed, Counts
      <4> QED
        BY <3>2, <4>1, <4>2, <4>4, <4>5, <4>6 DEF Balance, Complete
    <3> QED
      BY <3>1, <3>2
  <2>6. Flags' /\ Sets' /\ Readers' /\ ReaderKnows'
    BY <1>6 DEF Receive, IInv, Typed, Flags, Sets, Readers, ReaderKnows, Carrying
  <2>7. Entered'
    BY <1>6, <2>1, <2>2 DEF Receive, IInv, Entered, Kinds
  <2> QED
    BY <2>3, <2>4, <2>5, <2>6, <2>7 DEF IInv, Typed
<1>7. CASE ReceiveClosed(r)
  <2>1. Balanced' /\ ReaderKnows' /\ Channels' /\ Readers' /\ Counts'
    BY <1>7, Quiet DEF ReceiveClosed, Goto, Relying, IInv, Typed, Places, Done
  <2>2. Flags' /\ Sets' /\ Places'
    BY <1>7 DEF ReceiveClosed, Goto, IInv, Typed, Flags, Sets, Places, Done
  <2>3. Entered'
    BY <1>7 DEF ReceiveClosed, Goto, IInv, Typed, Places, Entered
  <2>4. ~Relying(r)
    <3>1. PICK k \in 0..Len(ch[r].buf) : Balance(r, k)
      BY Zenon DEF IInv, Balanced
    <3> QED
      BY <1>7, <3>1 DEF ReceiveClosed, Balance
  <2>5. OkIsComplete'
    <3>1. r \in dropped' \cup cancelled'
      BY <1>7, <2>4 DEF ReceiveClosed, Relying, Done
    <3> QED
      BY <1>7, <3>1 DEF ReceiveClosed, Goto, IInv, Typed, Places, OkIsComplete, Complete
  <2> QED
    BY <2>1, <2>2, <2>3, <2>5 DEF IInv, Typed
<1>8. CASE GiveUp(r)
  <2>1. Balanced' /\ ReaderKnows' /\ Channels' /\ Readers' /\ Counts'
    BY <1>8, Quiet DEF GiveUp, Goto, Relying, IInv, Typed, Places, Done
  <2>2. Flags' /\ Sets' /\ Places'
    BY <1>8 DEF GiveUp, Goto, IInv, Typed, Flags, Sets, Places, Done
  <2>3. Entered' /\ OkIsComplete'
    BY <1>8 DEF GiveUp, Goto, IInv, Typed, Places, Entered, OkIsComplete, Complete
  <2> QED
    BY <2>1, <2>2, <2>3 DEF IInv, Typed
<1>9. CASE Watch(r)
  <2>1. CASE r \in cancelled /\ Release(r)
    <3>1. Channels' /\ pending' = pending \ {r}
      BY <2>1, Released
    <3>2. Balanced'
      BY <1>9, <2>1, ReleaseBalanced DEF Watch, Relying, Inflight, Carrying
    <3>3. Flags' /\ Sets' /\ Places' /\ Readers' /\ Counts' /\ ReaderKnows'
      BY <1>9, <3>1 DEF Watch, IInv, Typed, Flags, Sets, Places, Readers, Counts, ReaderKnows, Carrying
    <3>4. Entered' /\ OkIsComplete'
      BY <1>9, <2>1, <3>1 DEF Watch, IInv, Typed, Entered, OkIsComplete, Complete
    <3> QED
      BY <3>1, <3>2, <3>3, <3>4 DEF IInv, Typed
  <2>2. CASE UNCHANGED <<pending, ch>>
    <3>1. Balanced' /\ ReaderKnows' /\ Channels' /\ Readers' /\ Counts'
      BY <1>9, <2>2, Quiet DEF Watch, Relying
    <3>2. Flags' /\ Sets' /\ Places' /\ Entered' /\ OkIsComplete'
      BY <1>9, <2>2 DEF Watch, IInv, Typed, Flags, Sets, Places, Entered, OkIsComplete, Complete
    <3> QED
      BY <3>1, <3>2 DEF IInv, Typed
  <2> QED
    BY <1>9, <2>1, <2>2 DEF Watch
<1>10. CASE Cancel(r)
  <2>1. Balanced' /\ ReaderKnows' /\ Channels' /\ Readers' /\ Counts'
    BY <1>10, Quiet DEF Cancel, Relying
  <2>2. Flags' /\ Sets' /\ Places' /\ Entered' /\ OkIsComplete'
    BY <1>10 DEF Cancel, IInv, Typed, Flags, Sets, Places, Entered, OkIsComplete, Complete
  <2> QED
    BY <2>1, <2>2 DEF IInv, Typed
<1> QED
  BY <1>1, <1>2, <1>3, <1>4, <1>5, <1>6, <1>7, <1>8, <1>9, <1>10 DEF Internal

------------------------------------------------------------------------------
\* The reader carries nothing while it is idle or stopped.
LEMMA NotCarrying ==
  ASSUME IInv, reader = Idle \/ reader = Stopped, NEW r \in Requests
  PROVE  ~Carrying(r) /\ Inflight(r) = 0
  BY ReaderAt DEF IInv, Carrying, Inflight

\* The reader takes a message from the connection.
LEMMA ReadStep ==
  ASSUME IInv, ~panicked, NEW r \in Requests, NEW kind \in Kinds, Read(r, kind)
  PROVE  IInv'
<1> USE DEF cleaning
<1> DEFINE more == IF kind = "data" THEN 1 ELSE 0
<1>1. /\ reader = Idle /\ cleanup # "done" /\ pc[r] \in {"waiting"} \cup Done /\ ~peer[r].ended
      /\ UNCHANGED <<closed, cleanup, todo, visited, held, pending, ch, pc, got, watching, cancelled, dropped, panicked>>
  BY DEF Read
<1>2. /\ peer'[r].data = peer[r].data + more /\ (peer'[r].ended <=> kind \in Terminal)
      /\ \A q \in Requests : q # r => peer'[q] = peer[q]
  BY DEF Read, IInv, Typed, Counts
<1>3. r \in pending \/ ~Relying(r)
  BY <1>1 DEF IInv, Entered, Relying
<1>4. /\ reader' \in Handling \cup {Idle}
      /\ Inflight(r)' <= more /\ Inflight(r)' \in {0, 1} /\ (Relying(r) => Inflight(r)' = more)
      /\ Carrying(r)' => reader'.at = "found" /\ reader'.kind = kind
      /\ \A q \in Requests : q # r => ~Carrying(q)'
  <2>1. CASE r \in pending
    <3>1. reader' = [at |-> "found", for |-> r, kind |-> kind] /\ reader' \in Handling
      BY <2>1 DEF Read, Handling
    <3> QED
      BY <3>1 DEF Carrying, Inflight
  <2>2. CASE r \notin pending
    <3>1. reader' = Idle
      BY <2>2 DEF Read
    <3>2. reader' \notin Handling
      BY <3>1 DEF Handling, Idle
    <3> QED
      BY <1>3, <2>2, <3>1, <3>2 DEF Carrying, Inflight
  <2> QED
    BY <2>1, <2>2
<1>5. Typed'
  <2>1. Counts'
    <3>1. peer' \in [Requests -> [data: Nat, ended: BOOLEAN]]
      BY DEF Read, IInv, Typed, Counts
    <3>2. peer'[r].data <= MaxData[r]
      <4>1. MaxData[r] \in Nat /\ peer[r].data \in Nat /\ peer[r].data <= MaxData[r]
        BY SessionAssumption DEF IInv, Typed, Counts
      <4>2. kind = "data" => peer[r].data < MaxData[r]
        BY DEF Read
      <4> QED
        BY <1>2, <4>1, <4>2
    <3> QED
      BY <1>1, <1>2, <3>1, <3>2 DEF Read, IInv, Typed, Counts
  <2>2. Readers'
    BY <1>4 DEF Readers
  <2>3. Flags' /\ Sets' /\ Channels' /\ Places'
    BY <1>1 DEF IInv, Typed, Flags, Sets, Channels, Places
  <2> QED
    BY <2>1, <2>2, <2>3 DEF Typed
<1>6. Balanced'
  <2> SUFFICES ASSUME NEW q \in Requests PROVE \E k \in 0..Len(ch'[q].buf) : Balance(q, k)'
    BY Zenon DEF Balanced
  <2>1. CASE q # r
    BY <1>1, <1>2, <1>4, <2>1, NotCarrying, Frame DEF Read, Relying
  <2>2. CASE q = r
    <3>1. PICK k \in 0..Len(ch[r].buf) : Balance(r, k)
      BY Zenon DEF IInv, Balanced
    <3>2. Inflight(r) = 0 /\ got[r] \in Nat /\ peer[r].data \in Nat /\ got' = got /\ ch' = ch
      BY <1>1, NotCarrying DEF Read, IInv, Typed, Counts
    <3>3. Relying(r)' <=> Relying(r)
      BY <1>1 DEF Relying
    <3>4. /\ k + got'[r] + Inflight(r)' <= peer'[r].data
          /\ Relying(r)' => k + got'[r] + Inflight(r)' = peer'[r].data
      BY <1>2, <1>4, <3>1, <3>2, <3>3 DEF Balance
    <3>5. /\ \A i \in 1..Len(ch'[r].buf) : ch'[r].buf[i] = "data" <=> i <= k
          /\ \A i \in 1..Len(ch'[r].buf) : ch'[r].buf[i] = "end" => peer'[r].ended
          /\ Len(ch'[r].buf) > k => peer'[r].ended \/ ch'[r].closed
      BY <1>1, <3>1, <3>2 DEF Balance
    <3>6. Relying(r)' /\ (ch'[r].closed \/ (Carrying(r)' /\ reader'.at = "offered")) => Len(ch'[r].buf) > k
      BY <1>4, <3>1, <3>2, <3>3 DEF Balance
    <3>7. Balance(r, k)'
      BY <3>4, <3>5, <3>6 DEF Balance
    <3> QED
      BY <2>2, <3>1, <3>2, <3>7, Zenon
  <2> QED
    BY <2>1, <2>2
<1>7. ReaderKnows'
  BY <1>2, <1>4 DEF ReaderKnows
<1>8. Entered'
  BY <1>1, <1>2 DEF IInv, Entered
<1>9. OkIsComplete'
  BY <1>1, <1>2 DEF Read, IInv, OkIsComplete, Complete
<1> QED
  BY <1>5, <1>6, <1>7, <1>8, <1>9 DEF IInv

\* The reader offers what it carries to the channel it found.
LEMMA DeliverStep ==
  ASSUME IInv, ~panicked, Deliver
  PROVE  IInv'
<1> USE DEF cleaning
<1> DEFINE r == reader.for
           kind == reader.kind
<1>1. /\ reader.at = "found" /\ reader \in Handling /\ r \in Requests /\ kind \in Kinds
      /\ Carrying(r) /\ \A q \in Requests : q # r => ~Carrying(q)
      /\ UNCHANGED <<closed, cleanup, todo, visited, held, pending, peer, pc, got, watching, cancelled>>
  BY ReaderAt DEF Deliver, IInv, Carrying
<1>2. /\ kind \in Terminal => reader' = [reader EXCEPT !.at = "offered"]
      /\ kind \notin Terminal => reader' = Idle
  BY DEF Deliver
<1>3. /\ reader' \in Handling \cup {Idle}
      /\ \A q \in Requests : Inflight(q)' = 0 /\ (Carrying(q)' => q = r /\ kind \in Terminal /\ reader'.kind = kind)
      /\ \A q \in Requests : q # r => Inflight(q) = 0
  <2>1. CASE kind \in Terminal
    <3>1. reader' \in Handling /\ reader'.at = "offered" /\ reader'.for = r /\ reader'.kind = kind
      BY <1>1, <1>2, <2>1 DEF Handling
    <3> QED
      BY <1>1, <2>1, <3>1 DEF Carrying, Inflight
  <2>2. CASE kind \notin Terminal
    <3>1. reader' = Idle /\ Idle \notin Handling
      BY <1>2, <2>2 DEF Handling, Idle
    <3> QED
      BY <1>1, <3>1 DEF Carrying, Inflight
  <2> QED
    BY <2>1, <2>2
<1>4. /\ Inflight(r) \in {0, 1} /\ (kind = "data" => Inflight(r) = 1) /\ (kind # "data" => Inflight(r) = 0)
      /\ kind \in Terminal <=> kind # "data"
      /\ kind \in Terminal <=> peer[r].ended
  BY <1>1 DEF Inflight, Kinds, Terminal, IInv, ReaderKnows
<1>5. ReaderKnows'
  BY <1>1, <1>3, <1>4 DEF ReaderKnows
<1>6. Entered'
  BY <1>1 DEF IInv, Entered
<1>7. Readers' /\ Places' /\ Counts'
  BY <1>1, <1>3 DEF IInv, Typed, Readers, Places, Counts
<1>8. CASE ch[r].closed
  <2>1. ch' = ch /\ dropped' = dropped /\ panicked' = TRUE
    BY <1>8 DEF Deliver, Panic
  <2>2. Balanced'
    <3> SUFFICES ASSUME NEW q \in Requests PROVE \E k \in 0..Len(ch'[q].buf) : Balance(q, k)'
      BY Zenon DEF Balanced
    <3>1. PICK k \in 0..Len(ch[q].buf) : Balance(q, k)
      BY Zenon DEF IInv, Balanced
    <3>2. ~Relying(q)' /\ Inflight(q)' = 0 /\ Inflight(q) \in {0, 1} /\ got[q] \in Nat /\ peer[q].data \in Nat
      BY <1>3, <2>1 DEF Relying, Inflight, IInv, Typed, Counts
    <3>3. Balance(q, k)'
      BY <1>1, <2>1, <3>1, <3>2 DEF Balance
    <3> QED
      BY <2>1, <3>1, <3>3, Zenon
  <2>3. Flags' /\ Sets' /\ Channels' /\ OkIsComplete'
    BY <1>1, <2>1 DEF IInv, Typed, Flags, Sets, Channels, OkIsComplete, Complete
  <2> QED
    BY <1>5, <1>6, <1>7, <2>2, <2>3 DEF IInv, Typed
<1>9. CASE ~ch[r].closed /\ ~(Len(ch[r].buf) < Cap)
  <2>1. ch' = ch /\ dropped' = dropped \cup {r} /\ panicked' = panicked
    BY <1>9 DEF Deliver, Offer
  <2>2. Balanced'
    <3> SUFFICES ASSUME NEW q \in Requests PROVE \E k \in 0..Len(ch'[q].buf) : Balance(q, k)'
      BY Zenon DEF Balanced
    <3>1. PICK k \in 0..Len(ch[q].buf) : Balance(q, k)
      BY Zenon DEF IInv, Balanced
    <3>2. /\ q = r => ~Relying(q)'
          /\ Relying(q)' => Relying(q)
          /\ Inflight(q)' = 0 /\ Inflight(q) \in {0, 1} /\ (q # r => Inflight(q) = 0)
          /\ got[q] \in Nat /\ peer[q].data \in Nat
      BY <1>1, <1>3, <1>4, <2>1 DEF Relying, IInv, Typed, Counts
    <3>3. q # r => ~Carrying(q)'
      BY <1>3
    <3>4. Balance(q, k)'
      BY <1>1, <2>1, <3>1, <3>2, <3>3 DEF Balance
    <3> QED
      BY <2>1, <3>1, <3>4, Zenon
  <2>3. Flags' /\ Sets' /\ Channels' /\ OkIsComplete'
    BY <1>1, <2>1 DEF IInv, Typed, Flags, Sets, Channels, OkIsComplete, Complete
  <2> QED
    BY <1>5, <1>6, <1>7, <2>2, <2>3 DEF IInv, Typed
<1>10. CASE ~ch[r].closed /\ Len(ch[r].buf) < Cap
  <2>1. ch' = [ch EXCEPT ![r].buf = Append(@, kind)] /\ dropped' = dropped /\ panicked' = panicked
    BY <1>10 DEF Deliver, Offer
  <2>2. /\ ch[r] \in [buf: Seq(Kinds), closed: BOOLEAN]
        /\ ch' = [ch EXCEPT ![r] = ch'[r]] /\ ch'[r] = [ch[r] EXCEPT !.buf = Append(ch[r].buf, kind)]
    BY <1>1, <2>1 DEF IInv, Typed, Channels
  <2>3. /\ Append(ch[r].buf, kind) \in Seq(Kinds) /\ Len(Append(ch[r].buf, kind)) = Len(ch[r].buf) + 1
        /\ Append(ch[r].buf, kind)[Len(ch[r].buf) + 1] = kind
        /\ \A i \in 1..Len(ch[r].buf) : Append(ch[r].buf, kind)[i] = ch[r].buf[i]
        /\ Len(ch[r].buf) \in Nat
    BY <1>1, <2>2
  <2>4. /\ ch'[r].buf = Append(ch[r].buf, kind) /\ ch'[r].closed = ch[r].closed
        /\ \A q \in Requests : q # r => ch'[q] = ch[q]
    BY <1>1, <2>2 DEF IInv, Typed, Channels
  <2>41. /\ Len(ch'[r].buf) = Len(ch[r].buf) + 1 /\ Len(ch[r].buf) \in Nat
         /\ ch'[r].buf[Len(ch[r].buf) + 1] = kind /\ ch'[r].closed = ch[r].closed
         /\ \A i \in 1..Len(ch[r].buf) : ch'[r].buf[i] = ch[r].buf[i]
    BY <2>3, <2>4, Zenon
  <2>5. Channels'
    <3>1. ch'[r] \in [buf: Seq(Kinds), closed: BOOLEAN]
      BY <2>2, <2>3
    <3>2. ch' \in [Requests -> [buf: Seq(Kinds), closed: BOOLEAN]]
      BY <1>1, <2>2, <3>1 DEF IInv, Typed, Channels
    <3>3. Len(ch'[r].buf) <= Cap
      BY <1>10, <2>3, <2>4, SessionAssumption
    <3> QED
      BY <2>4, <3>2, <3>3 DEF IInv, Typed, Channels
  <2>6. Balanced'
    <3> SUFFICES ASSUME NEW q \in Requests PROVE \E k \in 0..Len(ch'[q].buf) : Balance(q, k)'
      BY Zenon DEF Balanced
    <3>1. PICK k \in 0..Len(ch[q].buf) : Balance(q, k)
      BY Zenon DEF IInv, Balanced
    <3>2. (Relying(q)' <=> Relying(q)) /\ got' = got /\ peer' = peer /\ got[q] \in Nat /\ peer[q].data \in Nat
      BY <1>1, <2>1 DEF Relying, IInv, Typed, Counts
    <3>21. \A i \in 1..Len(ch[q].buf) : ch[q].buf[i] = "data" <=> i <= k
      BY <3>1, Zenon DEF Balance
    <3>22. k \in Nat /\ k <= Len(ch[q].buf)
      BY <2>41, <3>1
    <3>3. CASE q # r
      <4>1. ch'[q] = ch[q] /\ Inflight(q) = 0 /\ Inflight(q)' = 0 /\ ~Carrying(q)'
        BY <1>3, <2>4, <3>3
      <4>2. Balance(q, k)'
        BY <3>1, <3>2, <4>1 DEF Balance
      <4> QED
        BY <3>1, <4>1, <4>2, Zenon
    <3>4. CASE q = r /\ kind = "data"
      <4>1. Len(ch[r].buf) = k
        BY <1>4, <1>10, <2>3, <3>1, <3>4 DEF Balance
      <4>2. ch'[q].buf[k + 1] = "data" /\ Len(ch'[q].buf) = k + 1 /\ k \in Nat
        BY <2>41, <3>4, <4>1
      <4>3. ASSUME NEW i \in 1..k PROVE ch'[q].buf[i] = "data"
        <5>1. ch'[q].buf[i] = ch[q].buf[i] /\ i \in 1..Len(ch[q].buf)
          BY <2>41, <3>4, <4>1, Zenon
        <5> QED
          BY <3>21, <4>2, <5>1
      <4>4. \A i \in 1..(k + 1) : ch'[q].buf[i] = "data" /\ i <= k + 1
        <5> SUFFICES ASSUME NEW i \in 1..(k + 1) PROVE ch'[q].buf[i] = "data" /\ i <= k + 1
          OBVIOUS
        <5>1. CASE i = k + 1
          BY <4>2, <5>1
        <5>2. CASE i # k + 1
          <6>1. i \in 1..k
            BY <4>2, <5>2
          <6> QED
            BY <4>2, <4>3, <6>1
        <5> QED
          BY <5>1, <5>2
      <4>5. /\ k + 1 + got'[q] + Inflight(q)' <= peer'[q].data
            /\ Relying(q)' => k + 1 + got'[q] + Inflight(q)' = peer'[q].data
        <5>1. Inflight(q) = 1 /\ Inflight(q)' = 0
          BY <1>3, <1>4, <3>4
        <5>2. k + got[q] + 1 <= peer[q].data /\ (Relying(q) => k + got[q] + 1 = peer[q].data)
          BY <3>1, <5>1 DEF Balance
        <5>3. k + 1 + got[q] + 0 = k + got[q] + 1
          BY <3>2, <4>2
        <5> QED
          BY <3>2, <5>1, <5>2, <5>3, Zenon
      <4>6. ~(Len(ch'[q].buf) > k + 1) /\ ~ch'[q].closed /\ ~Carrying(q)'
        BY <1>3, <1>4, <1>10, <2>41, <3>4, <4>2
      <4>7. Balance(q, k + 1)'
        BY <4>2, <4>4, <4>5, <4>6 DEF Balance
      <4> QED
        BY <4>2, <4>7
    <3>5. CASE q = r /\ kind # "data"
      <4>1. Len(ch'[q].buf) = Len(ch[q].buf) + 1 /\ k \in 0..Len(ch'[q].buf) /\ Len(ch'[q].buf) > k
        BY <2>41, <3>22, <3>5
      <4>2. \A i \in 1..Len(ch'[q].buf) : ch'[q].buf[i] = "data" <=> i <= k
        <5> SUFFICES ASSUME NEW i \in 1..Len(ch'[q].buf) PROVE ch'[q].buf[i] = "data" <=> i <= k
          OBVIOUS
        <5>1. CASE i = Len(ch[q].buf) + 1
          BY <2>41, <3>22, <3>5, <5>1
        <5>2. CASE i # Len(ch[q].buf) + 1
          <6>1. i \in 1..Len(ch[q].buf)
            BY <2>41, <3>5, <4>1, <5>2
          <6> QED
            BY <2>41, <3>5, <3>21, <6>1, Zenon
        <5> QED
          BY <5>1, <5>2
      <4>3. peer'[q].ended
        BY <1>4, <3>2, <3>5
      <4>4. /\ k + got'[q] + Inflight(q)' <= peer'[q].data
            /\ Relying(q)' => k + got'[q] + Inflight(q)' = peer'[q].data
        BY <1>3, <1>4, <3>1, <3>2, <3>5 DEF Balance
      <4>5. Balance(q, k)'
        BY <4>1, <4>2, <4>3, <4>4 DEF Balance
      <4> QED
        BY <4>1, <4>5
    <3> QED
      BY <3>3, <3>4, <3>5
  <2>7. Flags' /\ Sets' /\ OkIsComplete'
    BY <1>1, <2>1 DEF IInv, Typed, Flags, Sets, OkIsComplete, Complete
  <2> QED
    BY <1>5, <1>6, <1>7, <2>5, <2>6, <2>7 DEF IInv, Typed
<1> QED
  BY <1>8, <1>9, <1>10

\* The rest of the reader: after a terminal message it releases the request,
\* and it stops when the connection is closed.
LEMMA ReaderSteps ==
  ASSUME IInv, ~panicked, Dispatch
  PROVE  IInv'
<1> USE DEF cleaning
<1>1. CASE Finish
  <2>1. /\ reader.at = "offered" /\ reader \in Handling /\ reader.for \in Requests
        /\ Carrying(reader.for) /\ peer[reader.for].ended
    BY <1>1, ReaderAt DEF Finish, IInv, Carrying, ReaderKnows
  <2>2. reader' = Idle /\ \A q \in Requests : ~Carrying(q)' /\ Inflight(q)' = 0 /\ Inflight(q) = 0
    BY <1>1, <2>1 DEF Finish, Carrying, Inflight, Handling, Idle
  <2>3. Channels' /\ pending' = pending \ {reader.for}
    BY <1>1, <2>1, Released DEF Finish
  <2>4. Balanced'
    BY <1>1, <2>1, <2>2, ReleaseBalanced DEF Finish, Relying
  <2>5. Flags' /\ Sets' /\ Places' /\ Readers' /\ Counts' /\ ReaderKnows'
    BY <1>1, <2>2, <2>3 DEF Finish, IInv, Typed, Flags, Sets, Places, Readers, Counts, ReaderKnows
  <2>6. Entered' /\ OkIsComplete'
    BY <1>1, <2>1, <2>3 DEF Finish, IInv, Entered, OkIsComplete, Complete
  <2> QED
    BY <2>3, <2>4, <2>5, <2>6 DEF IInv, Typed
<1>2. CASE ReadFails
  <2>1. reader' = Stopped /\ \A q \in Requests : ~Carrying(q) /\ ~Carrying(q)'
    BY <1>2, NotCarrying DEF ReadFails, Carrying, Handling, Stopped
  <2>2. Balanced'
    <3> SUFFICES ASSUME NEW q \in Requests PROVE \E k \in 0..Len(ch'[q].buf) : Balance(q, k)'
      BY Zenon DEF Balanced
    <3> QED
      BY <1>2, <2>1, Frame DEF ReadFails, Relying
  <2>3. Typed' /\ ReaderKnows' /\ Entered' /\ OkIsComplete'
    BY <1>2, <2>1 DEF ReadFails, IInv, Typed, Flags, Sets, Channels, Places, Readers, Counts, ReaderKnows,
                      Entered, OkIsComplete, Complete
  <2> QED
    BY <2>2, <2>3 DEF IInv
<1> QED
  BY <1>1, <1>2, DeliverStep DEF Dispatch

------------------------------------------------------------------------------
\* Closing the session, by its reader or by another.
LEMMA CloseStep ==
  ASSUME IInv, ~panicked, NEW byReader \in BOOLEAN, Close(byReader)
  PROVE  IInv'
<1>1. /\ reader' = reader \/ (reader = Idle /\ reader' = Stopped)
      /\ closed' = TRUE /\ cleanup = "no" /\ cleanup' = "range" /\ todo' = pending
      /\ UNCHANGED <<visited, held, pending, ch, peer, pc, got, watching, cancelled, dropped, panicked>>
  BY DEF Close
<1>2. \A q \in Requests : Carrying(q) \/ Carrying(q)' => reader' = reader
  BY <1>1, NotCarrying DEF Carrying, Handling, Stopped
<1>3. Balanced'
  <2> SUFFICES ASSUME NEW q \in Requests PROVE \E k \in 0..Len(ch'[q].buf) : Balance(q, k)'
    BY Zenon DEF Balanced
  <2> QED
    BY <1>1, <1>2, Frame DEF Relying
<1>4. Flags' /\ Sets' /\ Channels' /\ Places' /\ Readers' /\ Counts'
  BY <1>1 DEF IInv, Typed, Flags, Sets, Channels, Places, Readers, Counts
<1>5. ReaderKnows'
  <2> SUFFICES ASSUME NEW q \in Requests, Carrying(q)'
               PROVE  /\ reader'.kind \in Terminal <=> peer'[q].ended
                      /\ reader'.at = "offered" => reader'.kind \in Terminal
    BY Zenon DEF ReaderKnows
  <2>1. reader' = reader /\ Carrying(q)
    BY <1>2 DEF Carrying
  <2> QED
    BY <1>1, <2>1 DEF IInv, ReaderKnows
<1>6. Entered' /\ OkIsComplete'
  BY <1>1 DEF IInv, Entered, OkIsComplete, Complete
<1> QED
  BY <1>3, <1>4, <1>5, <1>6 DEF IInv, Typed

\* What cleanup tells a waiting request: the error, or nothing when its
\* channel is full.
LEMMA TellStep ==
  ASSUME IInv, ~panicked, NEW r \in Requests, RangeTell(r)
  PROVE  IInv'
<1>1. /\ held' = {} /\ UNCHANGED <<closed, cleanup, todo, visited, pending, reader, peer, pc, got, watching, cancelled>>
      /\ \A q \in Requests : Carrying(q)' = Carrying(q) /\ Inflight(q)' = Inflight(q) /\ Inflight(q) \in {0, 1}
  BY DEF RangeTell, Carrying, Inflight
<1>2. Places' /\ Readers' /\ Counts' /\ ReaderKnows' /\ Entered'
  BY <1>1 DEF IInv, Typed, Places, Readers, Counts, ReaderKnows, Entered
<1>3. CASE ch[r].closed
  <2>1. ch' = ch /\ dropped' = dropped /\ panicked' = TRUE
    BY <1>3 DEF RangeTell, Panic
  <2>2. Balanced'
    <3> SUFFICES ASSUME NEW q \in Requests PROVE \E k \in 0..Len(ch'[q].buf) : Balance(q, k)'
      BY Zenon DEF Balanced
    <3> QED
      BY <1>1, <2>1, Frame DEF Relying
  <2>3. Flags' /\ Sets' /\ Channels' /\ OkIsComplete'
    BY <1>1, <2>1 DEF IInv, Typed, Flags, Sets, Channels, OkIsComplete, Complete
  <2> QED
    BY <1>2, <2>2, <2>3 DEF IInv, Typed
<1>4. CASE ~ch[r].closed /\ ~(Len(ch[r].buf) < Cap)
  <2>1. ch' = [ch EXCEPT ![r].closed = TRUE] /\ dropped' = dropped \cup {r} /\ panicked' = panicked
    BY <1>4 DEF RangeTell
  <2>2. /\ \A q \in Requests : ch'[q].buf = ch[q].buf /\ (q # r => ch'[q] = ch[q]) /\ (ch[q].closed => ch'[q].closed)
        /\ Channels'
    BY <1>4, <2>1 DEF IInv, Typed, Channels
  <2>3. Balanced'
    <3> SUFFICES ASSUME NEW q \in Requests PROVE \E k \in 0..Len(ch'[q].buf) : Balance(q, k)'
      BY Zenon DEF Balanced
    <3>1. CASE q # r
      BY <1>1, <2>1, <2>2, <3>1, Frame DEF Relying
    <3>2. CASE q = r
      <4>1. PICK k \in 0..Len(ch[q].buf) : Balance(q, k)
        BY Zenon DEF IInv, Balanced
      <4>2. ~Relying(q)'
        BY <2>1, <3>2 DEF Relying
      <4>3. Balance(q, k)'
        BY <1>1, <2>2, <4>1, <4>2 DEF Balance
      <4> QED
        BY <2>2, <4>1, <4>3, Zenon
    <3> QED
      BY <3>1, <3>2
  <2>4. Flags' /\ Sets' /\ OkIsComplete'
    BY <1>1, <2>1 DEF IInv, Typed, Flags, Sets, OkIsComplete, Complete
  <2> QED
    BY <1>2, <2>2, <2>3, <2>4 DEF IInv, Typed
<1>5. CASE ~ch[r].closed /\ Len(ch[r].buf) < Cap
  <2> DEFINE told == Append(ch[r].buf, "error")
  <2>1. ch' = [ch EXCEPT ![r] = [buf |-> Append(@.buf, "error"), closed |-> TRUE]] /\ dropped' = dropped /\ panicked' = panicked
    BY <1>5 DEF RangeTell
  <2>2. /\ ch[r] \in [buf: Seq(Kinds), closed: BOOLEAN] /\ "error" \in Kinds
        /\ ch'[r] = [buf |-> told, closed |-> TRUE] /\ ch' = [ch EXCEPT ![r] = [buf |-> told, closed |-> TRUE]]
        /\ \A q \in Requests : q # r => ch'[q] = ch[q]
    BY <2>1 DEF IInv, Typed, Channels, Kinds
  <2>3. /\ told \in Seq(Kinds) /\ Len(told) = Len(ch[r].buf) + 1 /\ told[Len(ch[r].buf) + 1] = "error"
        /\ \A i \in 1..Len(ch[r].buf) : told[i] = ch[r].buf[i]
        /\ Len(ch[r].buf) \in Nat
    BY <2>2
  <2>4. Channels'
    <3>1. [buf |-> told, closed |-> TRUE] \in [buf: Seq(Kinds), closed: BOOLEAN]
      BY <2>3
    <3>2. ch' \in [Requests -> [buf: Seq(Kinds), closed: BOOLEAN]]
      BY <2>2, <3>1 DEF IInv, Typed, Channels
    <3>3. Len(ch'[r].buf) <= Cap
      BY <1>5, <2>2, <2>3, SessionAssumption
    <3> QED
      BY <2>2, <3>2, <3>3 DEF IInv, Typed, Channels
  <2>5. Balanced'
    <3> SUFFICES ASSUME NEW q \in Requests PROVE \E k \in 0..Len(ch'[q].buf) : Balance(q, k)'
      BY Zenon DEF Balanced
    <3>1. CASE q # r
      BY <1>1, <2>1, <2>2, <3>1, Frame DEF Relying
    <3>2. CASE q = r
      <4>1. PICK k \in 0..Len(ch[q].buf) : Balance(q, k)
        BY Zenon DEF IInv, Balanced
      <4>2. ch'[q].buf = told /\ ch'[q].closed /\ k \in Nat
        BY <2>2, <2>3, <3>2, <4>1
      <4>3. k \in 0..Len(ch'[q].buf) /\ Len(ch'[q].buf) > k
        BY <2>3, <3>2, <4>1, <4>2
      <4>4. \A i \in 1..Len(ch'[q].buf) : /\ ch'[q].buf[i] = "data" <=> i <= k
                                          /\ ch'[q].buf[i] = "end" => peer'[q].ended
        <5> SUFFICES ASSUME NEW i \in 1..Len(told)
                     PROVE  (told[i] = "data" <=> i <= k) /\ (told[i] = "end" => peer[q].ended)
          BY <1>1, <4>2
        <5>1. CASE i = Len(ch[q].buf) + 1
          BY <2>3, <3>2, <4>1, <5>1
        <5>2. CASE i # Len(ch[q].buf) + 1
          <6>1. i \in 1..Len(ch[q].buf) /\ told[i] = ch[q].buf[i]
            BY <2>3, <3>2, <5>2
          <6> QED
            BY <4>1, <6>1 DEF Balance
        <5> QED
          BY <5>1, <5>2
      <4>5. (Relying(q)' <=> Relying(q)) /\ got' = got /\ peer' = peer
        BY <1>1, <2>1 DEF Relying
      <4>6. /\ k + got'[q] + Inflight(q)' <= peer'[q].data
            /\ Relying(q)' => k + got'[q] + Inflight(q)' = peer'[q].data
        BY <1>1, <4>1, <4>5 DEF Balance
      <4>7. Balance(q, k)'
        BY <4>2, <4>3, <4>4, <4>6 DEF Balance
      <4> QED
        BY <4>3, <4>7, Zenon
    <3> QED
      BY <3>1, <3>2
  <2>6. Flags' /\ Sets' /\ OkIsComplete'
    BY <1>1, <2>1 DEF IInv, Typed, Flags, Sets, OkIsComplete, Complete
  <2> QED
    BY <1>2, <2>4, <2>5, <2>6 DEF IInv, Typed
<1> QED
  BY <1>3, <1>4, <1>5

\* The rest of cleanup.
LEMMA CleanSteps ==
  ASSUME IInv, ~panicked, Clean
  PROVE  IInv'
<1>1. ASSUME NEW r \in Requests, RangeLoad(r) PROVE IInv'
  <2>1. Balanced' /\ ReaderKnows' /\ Channels' /\ Readers' /\ Counts'
    BY <1>1, Quiet DEF RangeLoad, Relying
  <2>2. Flags' /\ Sets' /\ Places' /\ Entered' /\ OkIsComplete'
    BY <1>1 DEF RangeLoad, IInv, Typed, Flags, Sets, Places, Entered, OkIsComplete, Complete
  <2> QED
    BY <2>1, <2>2 DEF IInv, Typed
<1>2. ASSUME RangeEnd \/ Reset PROVE IInv'
  <2>1. Balanced' /\ ReaderKnows' /\ Channels' /\ Readers' /\ Counts'
    BY <1>2, Quiet DEF RangeEnd, Reset, Relying
  <2>2. Flags' /\ Sets' /\ Places' /\ Entered' /\ OkIsComplete'
    BY <1>2 DEF RangeEnd, Reset, IInv, Typed, Flags, Sets, Places, Entered, OkIsComplete, Complete
  <2> QED
    BY <2>1, <2>2 DEF IInv, Typed
<1> QED
  BY <1>1, <1>2, TellStep DEF Clean

------------------------------------------------------------------------------
\* Every step keeps the invariant.
LEMMA StepIInv == IInv /\ [Next]_vars => IInv'
<1> SUFFICES ASSUME IInv, [Next]_vars PROVE IInv'
  OBVIOUS
<1>1. CASE UNCHANGED vars
  <2>1. Balanced' /\ ReaderKnows' /\ Channels' /\ Readers' /\ Counts'
    BY <1>1, Quiet DEF vars, Relying
  <2>2. Flags' /\ Sets' /\ Places' /\ Entered' /\ OkIsComplete'
    BY <1>1 DEF vars, IInv, Typed, Flags, Sets, Places, Entered, OkIsComplete, Complete
  <2> QED
    BY <2>1, <2>2 DEF IInv, Typed
<1>2. CASE Next
  BY <1>2, RequestSteps, ReadStep, ReaderSteps, CleanSteps, CloseStep DEF Next
<1> QED
  BY <1>1, <1>2

\* The invariant holds in every state.
LEMMA AlwaysIInv == Spec => []IInv
<1>1. Init => IInv
  BY InitIInv
<1>2. IInv /\ [Next]_vars => IInv'
  BY StepIInv
<1> QED
  BY <1>1, <1>2, PTL DEF Spec

\* A session's state keeps its types: no channel exceeds its capacity and no
\* request takes more than its peer sent, however its goroutines interleave.
THEOREM TypesKept == Spec => []TypeOK
<1>1. IInv => TypeOK
  BY IInvTypes
<1> QED
  BY <1>1, AlwaysIInv, PTL

\* A request that is answered successfully, whose context lives and for which
\* no message was dropped, was answered with everything its peer sent, whatever
\* closes the session meanwhile.
THEOREM AnswersComplete == Spec => []OkIsComplete
<1>1. IInv => OkIsComplete
  BY DEF IInv
<1> QED
  BY <1>1, AlwaysIInv, PTL

------------------------------------------------------------------------------
(* What lets ClosedSettles and NothingLeaks hold: nobody is left behind by     *)
(* cleanup, and no entry without someone to take it out.                       *)

\* cleanup comes to r yet: before it Range finds r's entry, during it Range has
\* the entry among those it must pass, or holds it.
Due(r) ==
  \/ cleanup = "no" /\ r \in pending
  \/ cleanup = "range" /\ r \in todo \cap pending /\ (r \notin visited \/ r \in held)

\* Until it is closed, the channel of a request that is past send's look at
\* s.closed is one that cleanup comes to.
Reached ==
  /\ closed <=> cleanup # "no"
  /\ cleanup = "no" => visited = {}
  /\ held # {} => cleanup = "range" /\ \E r \in Requests : held = {r}
  /\ \A r \in Requests :
       /\ pc[r] \in {"stored", "loaded"} /\ cleanup = "no" => r \in pending \/ ch[r].closed
       /\ pc[r] \in {"writing", "waiting"} => Due(r) \/ ch[r].closed

\* Once Range has ended, nobody waits, or is about to, on a channel that is open:
\* the waiter reads what is in it and finds it closed.
NobodyStranded ==
  cleanup \in {"reset", "done"} => \A r \in Requests : pc[r] \in {"writing", "waiting"} => ch[r].closed

\* An entry of s.pending is that of a request still being sent, has a watcher, or
\* goes when cleanup replaces the map.
EntriesWatched ==
  \A r \in pending :
    \/ pc[r] \in {"stored", "loaded", "unsent"}
    \/ pc[r] = "writing" /\ cleanup # "done"
    \/ r \in watching /\ cleanup # "done"
    \/ cleanup \in {"range", "reset"}

Left == Reached /\ EntriesWatched

\* What the goroutines of requests and the reader do: channels close and do not
\* open, and who leaves s.pending has its channel closed.
Handed ==
  /\ UNCHANGED cleaning
  /\ pending' \subseteq pending
  /\ \A q \in Requests : (ch[q].closed \/ q \in pending \ pending') => ch'[q].closed

\* Releasing a request is such a step.
LEMMA ReleaseHands ==
  ASSUME Typed, UNCHANGED cleaning, NEW r \in Requests, Release(r)
  PROVE  Handed /\ r \notin pending'
<1>1. CASE r \in pending
  <2>1. pending' = pending \ {r} /\ ch' = [ch EXCEPT ![r].closed = TRUE]
    BY <1>1 DEF Release
  <2>2. \A q \in Requests : ch'[q].closed = (q = r \/ ch[q].closed)
    BY <2>1 DEF Typed, Channels
  <2> QED
    BY <2>1, <2>2 DEF Handed
<1>2. CASE r \notin pending
  BY <1>2 DEF Release, Handed
<1> QED
  BY <1>1, <1>2

\* Such a step keeps everybody within cleanup's reach, if nobody gets past a
\* look at s.closed by it.
LEMMA HandedReached ==
  ASSUME Left, Handed,
         \A q \in Requests : pc'[q] \in {"stored", "loaded"} => pc[q] \in {"stored", "loaded"},
         \A q \in Requests : pc'[q] \in {"writing", "waiting"} => pc[q] \in {"writing", "waiting"}
  PROVE  Reached'
<1>1. UNCHANGED <<closed, cleanup, todo, visited, held>>
  BY DEF Handed, cleaning
<1>2. ASSUME NEW q \in Requests, Due(q) PROVE Due(q)' \/ ch'[q].closed
  BY <1>1, <1>2 DEF Due, Handed
<1>3. ASSUME NEW q \in Requests, pc'[q] \in {"writing", "waiting"} PROVE Due(q)' \/ ch'[q].closed
  BY <1>2, <1>3 DEF Left, Reached, Handed
<1>4. ASSUME NEW q \in Requests, pc'[q] \in {"stored", "loaded"}, cleanup' = "no" PROVE q \in pending' \/ ch'[q].closed
  BY <1>1, <1>4 DEF Left, Reached, Handed
<1> QED
  BY <1>1, <1>3, <1>4 DEF Left, Reached

\* An entry's excuse stays one if nobody leaves the watchers without letting go
\* of its entry, or after the session has closed.
LEMMA Watched ==
  ASSUME Typed, Left, UNCHANGED cleaning, pending' \subseteq pending,
         \A q \in pending' : \/ pc'[q] = pc[q]
                             \/ pc'[q] \in {"loaded", "unsent"}
                             \/ q \in watching' /\ cleanup # "done"
                             \/ pc[q] \notin {"stored", "loaded", "unsent", "writing"},
         \A q \in pending' : q \in watching => q \in watching' \/ closed
  PROVE  EntriesWatched'
<1>1. UNCHANGED <<closed, cleanup>>
  BY DEF cleaning
<1>2. \A q \in pending' : q \in watching /\ cleanup # "done" => q \in watching' \/ cleanup \in {"range", "reset"}
  <2>1. closed /\ cleanup # "done" => cleanup \in {"range", "reset"}
    BY DEF Left, Reached, Typed, Sets
  <2> QED
    BY <2>1
<1> QED
  BY <1>1, <1>2 DEF Left, EntriesWatched

\* The steps of a request's goroutine.
LEMMA RequestLeft == ASSUME IInv, Left, NEW r \in Requests, Store(r) \/ Internal(r) PROVE Left'
<1>0. Typed /\ pc \in [Requests -> {"new", "stored", "loaded", "writing", "waiting", "unsent"} \cup Done]
  BY DEF IInv, Typed, Places
<1>1. CASE Store(r)
  <2>1. /\ pc[r] = "new" /\ pc' = [pc EXCEPT ![r] = "stored"] /\ pending' = pending \cup {r}
        /\ UNCHANGED <<closed, cleanup, todo, visited, held, ch, watching>>
    BY <1>1 DEF Store, Goto, cleaning
  <2>2. Reached'
    BY <1>0, <2>1 DEF Left, Reached, Due
  <2>3. EntriesWatched'
    BY <1>0, <2>1 DEF Left, EntriesWatched
  <2> QED
    BY <2>2, <2>3 DEF Left
<1>2. CASE SendCheck(r)
  <2>1. /\ pc[r] = "loaded" /\ pc' = [pc EXCEPT ![r] = IF closed THEN "unsent" ELSE "writing"]
        /\ UNCHANGED <<closed, cleanup, todo, visited, held, pending, ch, watching>>
    BY <1>2 DEF SendCheck, Goto, cleaning
  <2>2. pc'[r] = "writing" => cleanup = "no"
    BY <1>0, <2>1 DEF Left, Reached
  <2>3. Reached'
    BY <1>0, <2>1, <2>2 DEF Left, Reached, Due
  <2>4. EntriesWatched'
    BY <1>0, <2>1, <2>2 DEF Left, EntriesWatched
  <2> QED
    BY <2>3, <2>4 DEF Left
<1>3. CASE Load(r) \/ Write(r) \/ Receive(r) \/ ReceiveClosed(r) \/ GiveUp(r)
  <2>1. UNCHANGED cleaning /\ pending' = pending
    BY <1>3 DEF Load, Write, Receive, ReceiveClosed, GiveUp
  <2>2. \A q \in Requests : ch[q].closed => ch'[q].closed
    BY <1>0, <1>3 DEF Load, Write, Receive, ReceiveClosed, GiveUp, Typed, Channels
  <2>3. /\ \A q \in Requests : q # r => pc'[q] = pc[q]
        /\ pc'[r] # pc[r] => \/ pc[r] = "stored" /\ pc'[r] = "loaded"
                             \/ pc[r] = "writing" /\ pc'[r] = "unsent"
                             \/ pc[r] = "writing" /\ pc'[r] = "waiting" /\ cleanup # "done" /\ r \in watching'
                             \/ pc[r] = "waiting" /\ pc'[r] \in Done
        /\ watching \subseteq watching'
    <3>1. CASE Load(r)
      BY <1>0, <3>1 DEF Load, Goto
    <3>2. CASE Write(r)
      BY <1>0, <3>2 DEF Write, Goto
    <3>3. CASE Receive(r)
      <4>1. PICK k \in Kinds : k = Head(ch[r].buf)
        BY <1>0, <3>3 DEF Receive, Typed, Channels
      <4>2. pc' = pc \/ Goto(r, "ok") \/ Goto(r, "failed")
        BY <3>3, <4>1 DEF Receive, Kinds
      <4> QED
        BY <1>0, <3>3, <4>2 DEF Receive, Goto, Done
    <3>4. CASE ReceiveClosed(r) \/ GiveUp(r)
      BY <1>0, <3>4 DEF ReceiveClosed, GiveUp, Goto, Done
    <3> QED
      BY <1>3, <3>1, <3>2, <3>3, <3>4
  <2>4. Handed
    BY <2>1, <2>2 DEF Handed
  <2>5. Reached'
    BY <2>3, <2>4, HandedReached DEF Done
  <2>6. \A q \in pending' : \/ pc'[q] = pc[q]
                            \/ pc'[q] \in {"loaded", "unsent"}
                            \/ q \in watching' /\ cleanup # "done"
                            \/ pc[q] \notin {"stored", "loaded", "unsent", "writing"}
    BY <1>0, <2>1, <2>3 DEF Typed, Sets
  <2>7. EntriesWatched'
    BY <1>0, <2>1, <2>3, <2>6, Watched
  <2> QED
    BY <2>5, <2>7 DEF Left
<1>4. CASE Unsent(r)
  <2>1. /\ pc[r] = "unsent" /\ pc' = [pc EXCEPT ![r] = "failed"] /\ Release(r)
        /\ UNCHANGED cleaning /\ UNCHANGED watching
    BY <1>4 DEF Unsent, Goto
  <2>2. Handed /\ r \notin pending'
    BY <1>0, <2>1, ReleaseHands
  <2>3. pending \subseteq Requests /\ pc'[r] = "failed" /\ \A q \in Requests : q # r => pc'[q] = pc[q]
    BY <1>0, <2>1 DEF Typed, Sets
  <2>4. Reached'
    BY <2>2, <2>3, HandedReached
  <2>5. pending' \subseteq pending /\ \A q \in pending' : pc'[q] = pc[q]
    BY <2>2, <2>3 DEF Handed
  <2>6. EntriesWatched'
    BY <1>0, <2>1, <2>5, Watched
  <2> QED
    BY <2>4, <2>6 DEF Left
<1> QED
  BY <1>1, <1>2, <1>3, <1>4 DEF Internal

\* The steps of watchers, of contexts that end and of the reader.
LEMMA OthersLeft ==
  ASSUME IInv, Left,
         (\E r \in Requests : Watch(r) \/ Cancel(r) \/ \E k \in Kinds : Read(r, k)) \/ Dispatch
  PROVE  Left'
<1>0. Typed
  BY DEF IInv
<1>1. UNCHANGED cleaning /\ pc' = pc
  BY DEF Watch, Cancel, Read, Dispatch, Deliver, Finish, ReadFails
<1>2. Handed
  <2>1. CASE \E r \in Requests : Cancel(r) \/ \E k \in Kinds : Read(r, k)
    BY <1>1, <2>1 DEF Cancel, Read, Handed
  <2>2. CASE \E r \in Requests : Watch(r)
    <3>1. PICK r \in Requests : Release(r) \/ UNCHANGED <<pending, ch>>
      BY <2>2 DEF Watch
    <3>2. CASE Release(r)
      BY <1>0, <1>1, <3>2, ReleaseHands
    <3>3. CASE UNCHANGED <<pending, ch>>
      BY <1>1, <3>3 DEF Handed
    <3> QED
      BY <3>1, <3>2, <3>3
  <2>3. CASE Finish
    <3>1. reader.for \in Requests /\ Release(reader.for)
      BY <1>0, <2>3, ReaderAt DEF Finish
    <3> QED
      BY <1>0, <1>1, <3>1, ReleaseHands
  <2>4. CASE Deliver
    <3>1. pending' = pending /\ (ch' = ch \/ ch' = [ch EXCEPT ![reader.for].buf = Append(@, reader.kind)])
      BY <2>4 DEF Deliver, Panic, Offer
    <3>2. \A q \in Requests : ch[q].closed => ch'[q].closed
      BY <1>0, <3>1 DEF Typed, Channels
    <3> QED
      BY <1>1, <3>1, <3>2 DEF Handed
  <2>5. CASE ReadFails
    BY <1>1, <2>5 DEF ReadFails, Handed
  <2> QED
    BY <2>1, <2>2, <2>3, <2>4, <2>5 DEF Dispatch
<1>3. Reached'
  BY <1>1, <1>2, HandedReached
<1>4. \A q \in pending' : q \in watching => q \in watching' \/ closed
  <2>1. CASE \E r \in Requests : Watch(r)
    <3>1. PICK r \in Requests : Watch(r)
      BY <2>1
    <3>2. watching' = watching \ {r} /\ (Release(r) \/ closed)
      BY <3>1 DEF Watch
    <3>3. Release(r) => r \notin pending'
      BY <1>0, <1>1, ReleaseHands
    <3> QED
      BY <3>2, <3>3
  <2>2. CASE (\E r \in Requests : Cancel(r) \/ \E k \in Kinds : Read(r, k)) \/ Dispatch
    BY <2>2 DEF Cancel, Read, Dispatch, Deliver, Finish, ReadFails
  <2> QED
    BY <2>1, <2>2
<1>5. pending' \subseteq pending /\ \A q \in pending' : pc'[q] = pc[q]
  BY <1>1, <1>2 DEF Handed
<1>6. EntriesWatched'
  BY <1>0, <1>1, <1>4, <1>5, Watched
<1> QED
  BY <1>3, <1>6 DEF Left

\* The steps of cleanup: what Range passes is closed before it ends.
LEMMA CleanLeft == ASSUME IInv, Left, Clean \/ \E byReader \in BOOLEAN : Close(byReader) PROVE Left'
<1>0. Typed
  BY DEF IInv
<1>1. CASE \E byReader \in BOOLEAN : Close(byReader)
  <2>1. /\ cleanup = "no" /\ closed' = TRUE /\ cleanup' = "range" /\ todo' = pending
        /\ UNCHANGED <<visited, held, pending, ch, pc, watching>>
    BY <1>1 DEF Close
  <2>2. Reached'
    BY <2>1 DEF Left, Reached, Due
  <2>3. EntriesWatched'
    BY <2>1 DEF EntriesWatched
  <2> QED
    BY <2>2, <2>3 DEF Left
<1>2. CASE \E r \in Requests : RangeLoad(r)
  <2>1. PICK r \in Requests : RangeLoad(r)
    BY <1>2
  <2>2. /\ cleanup = "range" /\ held = {} /\ held' = {r} /\ visited' = visited \cup {r}
        /\ UNCHANGED <<closed, cleanup, todo, pending, ch, pc, watching>>
    BY <2>1 DEF RangeLoad
  <2>3. Reached'
    BY <2>2 DEF Left, Reached, Due
  <2>4. EntriesWatched'
    BY <2>2 DEF Left, EntriesWatched
  <2> QED
    BY <2>3, <2>4 DEF Left
<1>3. CASE \E r \in Requests : RangeTell(r)
  <2>1. PICK r \in Requests : RangeTell(r)
    BY <1>3
  <2>2. /\ r \in held /\ held' = {}
        /\ UNCHANGED <<closed, cleanup, todo, visited, pending, pc, watching>>
    BY <2>1 DEF RangeTell
  <2>3. ch'[r].closed /\ \A q \in Requests : ch[q].closed => ch'[q].closed
    <3>1. CASE ch[r].closed /\ UNCHANGED ch
      BY <3>1
    <3>2. CASE \E buf : ch' = [ch EXCEPT ![r] = [buf |-> buf, closed |-> TRUE]]
      BY <1>0, <3>2 DEF Typed, Channels
    <3>3. CASE ch' = [ch EXCEPT ![r].closed = TRUE]
      BY <1>0, <3>3 DEF Typed, Channels
    <3> QED
      BY <2>1, <3>1, <3>2, <3>3 DEF RangeTell, Panic
  <2>4. held = {r}
    BY <2>2 DEF Left, Reached
  <2>5. Reached'
    BY <2>2, <2>3, <2>4 DEF Left, Reached, Due
  <2>6. EntriesWatched'
    BY <2>2 DEF Left, EntriesWatched
  <2> QED
    BY <2>5, <2>6 DEF Left
<1>4. CASE RangeEnd
  <2>1. /\ cleanup = "range" /\ held = {} /\ todo \cap pending \subseteq visited /\ cleanup' = "reset"
        /\ UNCHANGED <<closed, todo, visited, held, pending, ch, pc, watching>>
    BY <1>4 DEF RangeEnd
  <2>2. Reached'
    BY <2>1 DEF Left, Reached, Due
  <2>3. EntriesWatched'
    BY <2>1 DEF EntriesWatched
  <2> QED
    BY <2>2, <2>3 DEF Left
<1>5. CASE Reset
  <2>1. /\ cleanup = "reset" /\ cleanup' = "done" /\ pending' = {}
        /\ UNCHANGED <<closed, held, ch, pc, watching>>
    BY <1>5 DEF Reset
  <2>2. Reached'
    BY <2>1 DEF Left, Reached, Due
  <2>3. EntriesWatched'
    BY <2>1 DEF EntriesWatched
  <2> QED
    BY <2>2, <2>3 DEF Left
<1> QED
  BY <1>1, <1>2, <1>3, <1>4, <1>5 DEF Clean

\* Both hold in every state.
LEMMA AlwaysLeft == Spec => []Left
<1>1. Init => Left
  BY DEF Init, Left, Reached, EntriesWatched
<1>2. IInv /\ Left /\ [Next]_vars => Left'
  <2>1. ASSUME IInv, Left, Next PROVE Left'
    BY <2>1, RequestLeft, OthersLeft, CleanLeft DEF Next
  <2>2. ASSUME Left, UNCHANGED vars PROVE Left'
    BY <2>2 DEF vars, Left, Reached, Due, EntriesWatched
  <2> QED
    BY <2>1, <2>2
<1> QED
  BY <1>1, <1>2, AlwaysIInv, PTL DEF Spec

\* When Range has ended, every request that got past send's look at s.closed has
\* its channel closed, even one whose entry Range raced with its storing.
THEOREM CleanupReachesAll == Spec => []NobodyStranded
<1>1. Left => NobodyStranded
  BY DEF Left, Reached, Due, NobodyStranded
<1> QED
  BY <1>1, AlwaysLeft, PTL

\* No entry stays in s.pending that neither its request, nor its watcher, nor
\* cleanup takes out.
THEOREM EntriesAreWatched == Spec => []EntriesWatched
<1>1. Left => EntriesWatched
  BY DEF Left
<1> QED
  BY <1>1, AlwaysLeft, PTL

===============================================================================
