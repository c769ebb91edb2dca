------------------------- MODULE Accounting_proofs -------------------------
(***************************************************************************)
(* Proofs about the accounting between one worker process and the host,    *)
(* for any number of attempts, revisions, streams, retries and faults.     *)
(*                                                                         *)
(* Both results need to know where the latest snapshot of every attempt    *)
(* is: not emitted, in the collector's channel, in its batch or stored,    *)
(* unless the collector has admitted that it lost one (LoopInv); what a    *)
(* receipt says of the message it names (ReceiptInv); and that a result    *)
(* without an error leaves nothing to be stored (CloseInv).                *)
(***************************************************************************)
EXTENDS Accounting, WellFoundedInduction, TLAPS

-----------------------------------------------------------------------------
(* Types                                                                   *)

Message == [kind : {"none", "obs", "health", "result"}, obs : Seq(Snapshot), seq : Nat,
            bad : BOOLEAN]
Answer == [id : Message, ok : BOOLEAN]
Call == [msg : Message, link : Nat, answer : {"none", "yes", "no"}]
Rows == [Attempt -> [rev : 0..MaxRevision, final : BOOLEAN]]

Producers == [rev : [Attempt -> 0..MaxRevision], over : [Attempt -> BOOLEAN],
              unsent : SUBSET Snapshot, turns : Nat, live : BOOLEAN]
Collector == [queue : Seq(Snapshot), batch : Seq(Snapshot),
              at : {"tick", "write", "await", "health", "told", "done"},
              tries : 0..MaxRetries, bad : BOOLEAN, closed : BOOLEAN]
Closing == [at : {"open", "producers", "collector", "closed"}, err : BOOLEAN,
            ask : {"none", "wait", "await", "told", "failed"}]
Writing == [link : Nat, call : [Writer -> Call], status : Nat]
Network == [n : Nat, open : BOOLEAN, up : Seq(Message), down : Seq(Answer)]
HostSession == [at : {"connect", "receive", "commit", "over"}, msg : Message, drain : BOOLEAN,
             asked : BOOLEAN, marked : BOOLEAN]
Entry == [msg : Message, waited : BOOLEAN]
Disk == [inbox : Seq(Entry), row : Rows]

Typed ==
    /\ prod \in Producers /\ col \in Collector /\ fin \in Closing /\ wr \in Writing
    /\ net \in Network /\ host \in HostSession /\ disk \in Disk
    /\ alive \in BOOLEAN /\ faults \in Nat /\ persisted \subseteq Snapshot

\* The messages of the writer, and the message and rows each carries.
LEMMA MessageTypes ==
  /\ NoMsg \in Message
  /\ \A s \in Seq(Snapshot) : Obs(s) \in Message /\ Obs(s).kind = "obs" /\ Obs(s).obs = s
                              /\ Obs(s).bad = FALSE
  /\ \A n \in Nat, b \in BOOLEAN : Health(n, b) \in Message /\ Health(n, b).kind = "health"
                              /\ Health(n, b).obs = << >> /\ Health(n, b).bad = b
  /\ \A b \in BOOLEAN : Result(b) \in Message /\ Result(b).kind = "result"
                              /\ Result(b).obs = << >> /\ Result(b).bad = b
<1>1. NoMsg \in Message /\ NoMsg.obs = << >> /\ NoMsg.bad = FALSE
  BY DEF NoMsg, Message
<1>2. ASSUME NEW s \in Seq(Snapshot)
      PROVE Obs(s) \in Message /\ Obs(s).kind = "obs" /\ Obs(s).obs = s /\ Obs(s).bad = FALSE
  BY <1>1 DEF Obs, Message
<1>3. ASSUME NEW n \in Nat, NEW b \in BOOLEAN
      PROVE Health(n, b) \in Message /\ Health(n, b).kind = "health"
            /\ Health(n, b).obs = << >> /\ Health(n, b).bad = b
  BY <1>1 DEF Health, Message
<1>4. ASSUME NEW b \in BOOLEAN
      PROVE Result(b) \in Message /\ Result(b).kind = "result"
            /\ Result(b).obs = << >> /\ Result(b).bad = b
  BY <1>1 DEF Result, Message
<1> QED
  BY <1>1, <1>2, <1>3, <1>4

\* A writer that waits for nothing.
LEMMA CallType == NoCall \in Call /\ NoCall.answer = "none" /\ NoCall.msg = NoMsg
  BY MessageTypes DEF NoCall, Call

\* A write that waits for the receipt of its message.
LEMMA CallOf ==
  ASSUME NEW m \in Message, NEW l \in Nat
  PROVE LET c == [NoCall EXCEPT !.msg = m, !.link = l] IN
        c \in Call /\ c.msg = m /\ c.link = l /\ c.answer = "none"
  BY CallType DEF Call

\* The sequences of the state.
LEMMA SeqFields ==
  Typed => /\ col.queue \in Seq(Snapshot) /\ col.batch \in Seq(Snapshot)
           /\ net.up \in Seq(Message) /\ net.down \in Seq(Answer) /\ disk.inbox \in Seq(Entry)
  BY DEF Typed, Collector, Network, Disk

\* A write that begins.
LEMMA Registered ==
  ASSUME Typed, NEW w \in Writer, NEW m \in Message, Register(w, m)
  PROVE /\ wr' \in Writing /\ wr'.link = wr.link
        /\ wr'.call[w].msg = m /\ wr'.call[w].answer = "none"
        /\ \A v \in Writer \ {w} : wr'.call[v] = wr.call[v]
        /\ net' \in Network /\ net'.n = net.n /\ net'.open = net.open /\ net'.down = net.down
        /\ net'.up = net.up \/ net'.up = Append(net.up, m)
<1>1. wr \in Writing /\ net \in Network /\ wr.link \in Nat /\ wr.status \in Nat
  BY DEF Typed, Writing
<1> DEFINE c == [NoCall EXCEPT !.msg = m, !.link = wr.link]
           st == IF m.kind = "health" THEN wr.status + 1 ELSE wr.status
           calls == [wr.call EXCEPT ![w] = c]
<1>2. c \in Call /\ c.msg = m /\ c.answer = "none"
  BY <1>1, CallOf
<1>3. st \in Nat
  BY <1>1
<1>4. calls \in [Writer -> Call] /\ calls[w] = c /\ \A v \in Writer \ {w} : calls[v] = wr.call[v]
  BY <1>1, <1>2 DEF Writing
<1>5. wr' = [wr EXCEPT !.call = calls, !.status = st]
  BY <1>1 DEF Register, Writing
<1>6. /\ wr' \in Writing /\ wr'.link = wr.link /\ wr'.call = calls
  <2> HIDE DEF calls, st
  <2> QED
    BY <1>1, <1>3, <1>4, <1>5 DEF Writing
<1>7. net' = net \/ net' = [net EXCEPT !.up = Append(@, m)]
  BY DEF Register
<1>8. Append(net.up, m) \in Seq(Message)
  BY <1>1 DEF Network
<1>9. /\ net' \in Network /\ net'.n = net.n /\ net'.open = net.open /\ net'.down = net.down
      /\ net'.up = net.up \/ net'.up = Append(net.up, m)
  BY <1>1, <1>7, <1>8 DEF Network
<1> QED
  BY <1>2, <1>4, <1>6, <1>9

\* A write that is over.
LEMMA WriteLeft ==
  ASSUME Typed, NEW w \in Writer, Leave(w)
  PROVE /\ wr' \in Writing /\ wr'.link = wr.link
        /\ wr'.call[w].answer = "none"
        /\ \A v \in Writer \ {w} : wr'.call[v] = wr.call[v]
<1>1. wr \in Writing /\ [wr.call EXCEPT ![w] = NoCall] \in [Writer -> Call]
  BY CallType DEF Typed, Writing
<1>2. wr' = [wr EXCEPT !.call = [wr.call EXCEPT ![w] = NoCall]]
  BY <1>1 DEF Leave, Writing
<1> QED
  BY <1>1, <1>2, CallType DEF Writing

-----------------------------------------------------------------------------
(* The inductive invariant                                                 *)

\* No revision is ahead of its attempt, and a final one is its last.
Known(s) ==
    /\ s.rev <= prod.rev[s.id]
    /\ s.rev = prod.rev[s.id] => s.final = prod.over[s.id]
    /\ s.final => s.rev = prod.rev[s.id]
RowKnown(rows, a) ==
    /\ rows[a].rev <= prod.rev[a]
    /\ rows[a].rev = prod.rev[a] => rows[a].final = prod.over[a]
    /\ rows[a].final => rows[a].rev = prod.rev[a]
AllKnown(obs) == \A i \in 1..Len(obs) : Known(obs[i])
KnownInv ==
    /\ \A s \in prod.unsent : Known(s)
    /\ AllKnown(col.queue) /\ AllKnown(col.batch)
    /\ \A i \in 1..Len(net.up) : AllKnown(net.up[i].obs)
    /\ \A i \in 1..Len(disk.inbox) : AllKnown(disk.inbox[i].msg.obs)
    /\ \A a \in Attempt : RowKnown(disk.row, a)

\* What a receipt says of its message.
Stored(m) ==
    /\ \A i \in 1..Len(m.obs) : disk.row[m.obs[i].id].rev >= m.obs[i].rev
    /\ m.bad => host.marked
ReceiptInv ==
    /\ \A i \in 1..Len(disk.inbox) :
          disk.inbox[i].waited =>
             i = Len(disk.inbox) /\ host.at = "commit" /\ host.msg = disk.inbox[i].msg
    /\ host.at = "commit" => (host.msg.bad => host.marked)
    /\ \A i \in 1..Len(net.down) : net.down[i].ok => Stored(net.down[i].id)
    /\ \A w \in Writer : wr.call[w].answer = "yes" => Stored(wr.call[w].msg)

\* The run loop: the batch it has written, and the snapshots it has not lost.
Latest(a, s) == s.id = a /\ s.rev = prod.rev[a]
Held(a) ==
    \/ \E s \in prod.unsent : Latest(a, s)
    \/ \E i \in 1..Len(col.queue) : Latest(a, col.queue[i])
    \/ \E i \in 1..Len(col.batch) : Latest(a, col.batch[i])
    \/ \E s \in persisted : Latest(a, s)
LoopInv ==
    /\ col.at = "await" => wr.call["loop"].msg = Obs(col.batch)
    /\ col.at \in {"tick", "health", "told"} => col.batch = << >>
    /\ \A s \in persisted : disk.row[s.id].rev >= s.rev
    /\ alive /\ ~col.bad => \A a \in Attempt : prod.rev[a] > 0 => Held(a)

\* The close: what it leaves, and what its result and its health have said.
CloseInv ==
    /\ ~prod.live => prod.unsent = {}
    /\ fin.at \in {"collector", "closed"} => col.closed /\ (~fin.err => ~prod.live)
    /\ col.at = "done" /\ (fin.at = "closed" => ~fin.err) =>
          col.queue = << >> /\ col.batch = << >> /\ col.closed
    /\ fin.at = "closed" /\ ~fin.err => col.at = "done"
    /\ fin.ask # "none" => fin.at # "open"
    /\ fin.ask \in {"await", "told", "failed"} => fin.at = "closed"
    /\ fin.ask = "await" /\ ~fin.err => wr.call["drain"].msg.bad = col.bad
    /\ fin.ask = "told" /\ ~fin.err => (col.bad => host.marked)
    /\ \A i \in 1..Len(net.up) :
          net.up[i].kind = "result" /\ ~net.up[i].bad =>
             fin.at = "closed" /\ ~fin.err /\ (col.bad => host.marked)

\* A session that is over; a worker that is gone.
Complete == \A a \in Attempt : disk.row[a].rev = prod.rev[a]
OverInv == host.at = "over" => ~alive /\ (~host.marked => Complete)
AliveInv == ~alive => net.up = << >>

AccInv == Typed /\ KnownInv /\ ReceiptInv /\ LoopInv /\ CloseInv /\ OverInv /\ AliveInv

-----------------------------------------------------------------------------
(* What a step leaves alone                                                *)

\* What is known stays known when no attempt moves and nothing unknown is sent.
LEMMA KnownDisk ==
  ASSUME Typed, KnownInv, prod'.rev = prod.rev, prod'.over = prod.over,
         prod'.unsent \subseteq prod.unsent, disk'.row = disk.row,
         \A i \in 1..Len(disk'.inbox) : AllKnown(disk'.inbox[i].msg.obs),
         AllKnown(col'.queue), AllKnown(col'.batch),
         \A i \in 1..Len(net'.up) : AllKnown(net'.up[i].obs)
  PROVE KnownInv'
<1>1. ASSUME NEW s, Known(s) PROVE Known(s)'
  BY <1>1 DEF Known
<1>2. ASSUME NEW obs, AllKnown(obs) PROVE \A i \in 1..Len(obs) : Known(obs[i])'
  BY <1>1, <1>2 DEF AllKnown
<1>3. \A s \in prod'.unsent : Known(s)'
  BY <1>1 DEF KnownInv
<1>4. AllKnown(col.queue)' /\ AllKnown(col.batch)'
  BY <1>2 DEF AllKnown
<1>5. \A i \in 1..Len(net'.up) : AllKnown(net.up[i].obs)'
  BY <1>2 DEF AllKnown
<1>6. \A i \in 1..Len(disk'.inbox) : AllKnown(disk.inbox[i].msg.obs)'
  BY <1>2 DEF AllKnown
<1>7. \A a \in Attempt : RowKnown(disk.row, a)'
  BY DEF KnownInv, RowKnown
<1> QED
  BY <1>3, <1>4, <1>5, <1>6, <1>7 DEF KnownInv

\* The same, when the host's side does nothing.
LEMMA KnownFrame ==
  ASSUME Typed, KnownInv, prod'.rev = prod.rev, prod'.over = prod.over,
         prod'.unsent \subseteq prod.unsent, disk' = disk,
         AllKnown(col'.queue), AllKnown(col'.batch),
         \A i \in 1..Len(net'.up) : AllKnown(net'.up[i].obs)
  PROVE KnownInv'
  BY KnownDisk DEF KnownInv

\* The receipts stay true while the rows and the host's mark stay.
LEMMA ReceiptFrame ==
  ASSUME ReceiptInv, disk' = disk, host' = host,
         \A i \in 1..Len(net'.down) : net'.down[i].ok => Stored(net'.down[i].id),
         \A w \in Writer : wr'.call[w].answer = "yes" => Stored(wr'.call[w].msg)
  PROVE ReceiptInv'
  BY DEF ReceiptInv, Stored

\* What the loop holds it still holds, and the rows only grow.
LEMMA LoopFrame ==
  ASSUME Typed, LoopInv, prod'.rev = prod.rev, prod'.unsent = prod.unsent,
         col'.queue = col.queue, col'.batch = col.batch, col'.at = col.at, col.bad => col'.bad,
         wr'.call["loop"].msg = wr.call["loop"].msg, persisted' = persisted,
         \A a \in Attempt : disk'.row[a].rev >= disk.row[a].rev,
         disk' \in Disk, alive' => alive
  PROVE LoopInv'
<1>1. \A a \in Attempt : Held(a) => Held(a)'
  BY DEF Held, Latest
<1>2. ASSUME NEW s \in persisted PROVE disk'.row[s.id].rev >= s.rev
  <2>1. s.id \in Attempt /\ s.rev \in Nat /\ disk.row[s.id].rev \in Nat
    BY DEF Typed, Snapshot, Disk, Rows
  <2>2. disk'.row[s.id].rev \in Nat
    BY <2>1 DEF Disk, Rows
  <2> QED
    BY <2>1, <2>2 DEF LoopInv
<1> QED
  BY <1>1, <1>2 DEF LoopInv

\* The close is where it was, and no result is new.
LEMMA CloseFrame ==
  ASSUME CloseInv, prod'.live = prod.live, prod'.unsent = prod.unsent, fin' = fin, col' = col,
         fin.ask = "await" => wr'.call["drain"].msg = wr.call["drain"].msg,
         host.marked => host'.marked,
         \A i \in 1..Len(net'.up) : net'.up[i].kind = "result" =>
            \E j \in 1..Len(net.up) : net'.up[i] = net.up[j]
  PROVE CloseInv'
  BY DEF CloseInv

\* A session that is over stays as complete as it was.
LEMMA OverFrame ==
  ASSUME OverInv, host'.at = "over" => host.at = "over", host.marked => host'.marked,
         alive' => alive, disk'.row = disk.row, prod'.rev = prod.rev
  PROVE OverInv'
  BY DEF OverInv, Complete

\* A sequence that an element is appended to.
LEMMA Appended ==
  ASSUME NEW S, NEW s \in Seq(S), NEW e \in S
  PROVE /\ Append(s, e) \in Seq(S) /\ Len(Append(s, e)) = Len(s) + 1
        /\ \A i \in 1..Len(s) : Append(s, e)[i] = s[i]
        /\ Append(s, e)[Len(s) + 1] = e
  OBVIOUS

\* The head of a sequence, and what is left of it.
LEMMA HeadTaken ==
  ASSUME NEW S, NEW s \in Seq(S), s # << >>
  PROVE /\ Tail(s) \in Seq(S) /\ Len(Tail(s)) = Len(s) - 1 /\ Head(s) \in S /\ Head(s) = s[1]
        /\ Len(s) \in Nat \ {0}
        /\ \A i \in 1..Len(Tail(s)) : i + 1 \in 1..Len(s) /\ Tail(s)[i] = s[i + 1]
  OBVIOUS

\* The fields of a message.
LEMMA MessageFields ==
  ASSUME NEW m \in Message
  PROVE m.obs \in Seq(Snapshot) /\ m.bad \in BOOLEAN /\ m.kind \in {"none", "obs", "health", "result"}
  BY DEF Message

\* What is on its way, or admitted, has the type of its sequence.
LEMMA OnTheWay ==
  Typed => /\ \A i \in 1..Len(net.up) : net.up[i] \in Message /\ net.up[i].obs \in Seq(Snapshot)
           /\ \A i \in 1..Len(disk.inbox) : /\ disk.inbox[i] \in Entry /\ disk.inbox[i].msg \in Message
                                            /\ disk.inbox[i].msg.obs \in Seq(Snapshot)
           /\ \A i \in 1..Len(net.down) : net.down[i] \in Answer /\ net.down[i].id \in Message
<1> SUFFICES ASSUME Typed PROVE
           /\ \A i \in 1..Len(net.up) : net.up[i] \in Message
           /\ \A i \in 1..Len(disk.inbox) : disk.inbox[i] \in Entry /\ disk.inbox[i].msg \in Message
           /\ \A i \in 1..Len(net.down) : net.down[i] \in Answer /\ net.down[i].id \in Message
  BY MessageFields
<1>1. net.up \in Seq(Message) /\ net.down \in Seq(Answer) /\ disk.inbox \in Seq(Entry)
  BY SeqFields
<1>2. (\A e \in Entry : e.msg \in Message) /\ (\A r \in Answer : r.id \in Message)
  BY DEF Entry, Answer
<1> QED
  BY <1>1, <1>2

-----------------------------------------------------------------------------
(* The producers                                                           *)

\* A turn begins before the close does.
LEMMA KeepsBegin ==
  ASSUME AccInv, BeginTurn PROVE AccInv'
<1>0. Typed /\ KnownInv /\ ReceiptInv /\ LoopInv /\ CloseInv /\ OverInv /\ AliveInv
  BY DEF AccInv
<1>1. /\ prod' \in Producers /\ prod'.rev = prod.rev /\ prod'.over = prod.over
      /\ prod'.unsent = prod.unsent /\ prod'.live = TRUE
  <2>1. prod \in Producers /\ prod.turns + 1 \in Nat
    BY <1>0 DEF Typed, Producers
  <2>2. prod' = [prod EXCEPT !.live = TRUE, !.turns = prod.turns + 1]
    BY <2>1 DEF BeginTurn, Producers
  <2>3. \A n \in Nat : LET p == [prod EXCEPT !.live = TRUE, !.turns = n] IN
           /\ p \in Producers /\ p.rev = prod.rev /\ p.over = prod.over
           /\ p.unsent = prod.unsent /\ p.live = TRUE
    BY <2>1 DEF Producers
  <2> QED
    BY <2>1, <2>2, <2>3
<1>2. UNCHANGED <<col, fin, wr, net, host, disk, alive, faults, persisted>> /\ fin.at = "open"
      /\ alive
  BY DEF BeginTurn
<1>3. Typed'
  BY <1>0, <1>1, <1>2 DEF Typed
<1>4. KnownInv'
  BY <1>0, <1>1, <1>2, KnownFrame DEF KnownInv
<1>5. ReceiptInv'
  BY <1>0, <1>2 DEF ReceiptInv, Stored
<1>6. LoopInv'
  BY <1>0, <1>1, <1>2, LoopFrame DEF Typed, Disk, Rows
<1>7. CloseInv'
  BY <1>0, <1>1, <1>2 DEF CloseInv
<1>8. OverInv' /\ AliveInv'
  BY <1>0, <1>1, <1>2, OverFrame DEF AliveInv
<1> QED
  BY <1>3, <1>4, <1>5, <1>6, <1>7, <1>8 DEF AccInv

\* A turn ends when all it took is emitted.
LEMMA KeepsEnd ==
  ASSUME AccInv, EndTurn PROVE AccInv'
<1>0. Typed /\ KnownInv /\ ReceiptInv /\ LoopInv /\ CloseInv /\ OverInv /\ AliveInv
  BY DEF AccInv
<1>1. /\ prod' \in Producers /\ prod'.rev = prod.rev /\ prod'.over = prod.over
      /\ prod'.unsent = prod.unsent /\ prod'.live = FALSE /\ prod.unsent = {}
  BY <1>0 DEF EndTurn, Typed, Producers
<1>2. UNCHANGED <<col, fin, wr, net, host, disk, alive, faults, persisted>>
  BY DEF EndTurn
<1>3. Typed'
  BY <1>0, <1>1, <1>2 DEF Typed
<1>4. KnownInv'
  BY <1>0, <1>1, <1>2, KnownFrame DEF KnownInv
<1>5. ReceiptInv'
  BY <1>0, <1>2 DEF ReceiptInv, Stored
<1>6. LoopInv'
  BY <1>0, <1>1, <1>2, LoopFrame DEF Typed, Disk, Rows
<1>7. CloseInv'
  BY <1>0, <1>1, <1>2 DEF CloseInv
<1>8. OverInv' /\ AliveInv'
  BY <1>0, <1>1, <1>2, OverFrame DEF AliveInv
<1> QED
  BY <1>3, <1>4, <1>5, <1>6, <1>7, <1>8 DEF AccInv

\* A snapshot that is taken is the attempt's latest, and no earlier one is final.
LEMMA KeepsTake ==
  ASSUME AccInv, NEW a \in Attempt, NEW final \in BOOLEAN, Take(a, final) PROVE AccInv'
<1>0. Typed /\ KnownInv /\ ReceiptInv /\ LoopInv /\ CloseInv /\ OverInv /\ AliveInv
  BY DEF AccInv
<1>1. /\ prod \in Producers /\ prod.rev \in [Attempt -> 0..MaxRevision]
      /\ prod.over \in [Attempt -> BOOLEAN] /\ prod.unsent \subseteq Snapshot
  BY <1>0 DEF Typed, Producers
<1>2. /\ alive /\ prod.live /\ prod.over[a] = FALSE
      /\ \E r \in 1..MaxRevision : r = prod.rev[a] + 1
  BY <1>1, AccountingAssumption DEF Take
<1>3. PICK r \in 1..MaxRevision, s \in Snapshot :
        r = prod.rev[a] + 1 /\ s = [id |-> a, rev |-> r, final |-> final]
        /\ s.id = a /\ s.rev = r /\ s.final = final
  <2>1. \A r \in 1..MaxRevision : [id |-> a, rev |-> r, final |-> final] \in Snapshot
    BY DEF Snapshot
  <2> QED
    BY <1>2, <2>1
<1> DEFINE revs == [prod.rev EXCEPT ![a] = r]
           overs == [prod.over EXCEPT ![a] = final]
<1>4. /\ revs \in [Attempt -> 0..MaxRevision] /\ revs[a] = r
      /\ \A b \in Attempt \ {a} : revs[b] = prod.rev[b]
  BY <1>1, <1>3
<1>5. /\ overs \in [Attempt -> BOOLEAN] /\ overs[a] = final
      /\ \A b \in Attempt \ {a} : overs[b] = prod.over[b]
  BY <1>1
<1>6. prod' = [prod EXCEPT !.rev = revs, !.over = overs, !.unsent = @ \cup {s}]
  BY <1>1, <1>3 DEF Take, Producers
<1>7. /\ prod' \in Producers /\ prod'.rev = revs /\ prod'.over = overs
      /\ prod'.unsent = prod.unsent \cup {s} /\ prod'.live = prod.live
  <2> HIDE DEF revs, overs
  <2> QED
    BY <1>1, <1>3, <1>4, <1>5, <1>6 DEF Producers
<1>8. UNCHANGED <<col, fin, wr, net, host, disk, alive, faults, persisted>>
  BY DEF Take
<1> HIDE DEF revs, overs
<1>9. Typed'
  BY <1>0, <1>7, <1>8 DEF Typed
<1>10. KnownInv'
  <2>1. ASSUME NEW t \in Snapshot, Known(t) PROVE Known(t)'
    <3>1. t.id \in Attempt /\ t.rev \in Nat
      BY DEF Snapshot
    <3>2. CASE t.id = a
      BY <1>1, <1>2, <1>3, <1>4, <1>5, <1>7, <2>1, <3>1, <3>2 DEF Known
    <3>3. CASE t.id # a
      BY <1>1, <1>4, <1>5, <1>7, <2>1, <3>1, <3>3 DEF Known
    <3> QED
      BY <3>2, <3>3
  <2>2. Known(s)'
    BY <1>3, <1>4, <1>5, <1>7 DEF Known
  <2>3. ASSUME NEW obs \in Seq(Snapshot), AllKnown(obs) PROVE \A i \in 1..Len(obs) : Known(obs[i])'
    BY <2>1, <2>3 DEF AllKnown
  <2>4. \A t \in prod'.unsent : Known(t)'
    BY <1>0, <1>1, <1>7, <2>1, <2>2 DEF KnownInv
  <2>5. AllKnown(col.queue)' /\ AllKnown(col.batch)'
    BY <1>0, <1>8, <2>3, SeqFields DEF AllKnown, KnownInv
  <2>6. \A i \in 1..Len(net'.up) : AllKnown(net.up[i].obs)'
    BY <1>0, <1>8, <2>3, OnTheWay DEF AllKnown, KnownInv
  <2>7. \A i \in 1..Len(disk'.inbox) : AllKnown(disk.inbox[i].msg.obs)'
    BY <1>0, <1>8, <2>3, OnTheWay DEF AllKnown, KnownInv
  <2>8. ASSUME NEW b \in Attempt PROVE RowKnown(disk.row, b)'
    <3>1. disk.row[b].rev \in Nat /\ RowKnown(disk.row, b) /\ disk.row[b].final \in BOOLEAN
      BY <1>0 DEF Typed, Disk, Rows, KnownInv
    <3>2. CASE b = a
      BY <1>1, <1>2, <1>3, <1>4, <1>5, <1>7, <1>8, <3>1, <3>2 DEF RowKnown
    <3>3. CASE b # a
      BY <1>1, <1>4, <1>5, <1>7, <1>8, <3>1, <3>3 DEF RowKnown
    <3> QED
      BY <3>2, <3>3
  <2> QED
    BY <2>4, <2>5, <2>6, <2>7, <2>8 DEF KnownInv
<1>11. ReceiptInv'
  BY <1>0, <1>8 DEF ReceiptInv, Stored
<1>12. LoopInv'
  <2>1. ASSUME NEW b \in Attempt, prod'.rev[b] > 0, ~col.bad PROVE Held(b)'
    <3>1. CASE b = a
      BY <1>3, <1>4, <1>7, <3>1 DEF Held, Latest
    <3>2. CASE b # a
      BY <1>0, <1>2, <1>4, <1>7, <1>8, <2>1, <3>2 DEF LoopInv, Held, Latest
    <3> QED
      BY <3>1, <3>2
  <2> QED
    BY <1>0, <1>8, <2>1 DEF LoopInv
<1>13. CloseInv'
  BY <1>0, <1>2, <1>7, <1>8 DEF CloseInv
<1>14. OverInv' /\ AliveInv'
  BY <1>0, <1>2, <1>8 DEF OverInv, AliveInv
<1> QED
  BY <1>9, <1>10, <1>11, <1>12, <1>13, <1>14 DEF AccInv

\* A snapshot that is emitted is in the channel, or the collector says that it lost it.
LEMMA KeepsEmit ==
  ASSUME AccInv, NEW s \in prod.unsent, Emit(s) PROVE AccInv'
<1>0. Typed /\ KnownInv /\ ReceiptInv /\ LoopInv /\ CloseInv /\ OverInv /\ AliveInv
  BY DEF AccInv
<1>1. s \in Snapshot /\ Known(s)
  BY <1>0 DEF Typed, Producers, KnownInv
<1>2. /\ prod' \in Producers /\ prod'.rev = prod.rev /\ prod'.over = prod.over
      /\ prod'.unsent = prod.unsent \ {s} /\ prod'.live = prod.live
  BY <1>0 DEF Emit, Typed, Producers
<1>3. col.queue \in Seq(Snapshot) /\ Append(col.queue, s) \in Seq(Snapshot)
      /\ Len(Append(col.queue, s)) = Len(col.queue) + 1
      /\ \A i \in 1..Len(col.queue) : Append(col.queue, s)[i] = col.queue[i]
      /\ Append(col.queue, s)[Len(col.queue) + 1] = s
      /\ Len(col.queue) \in Nat
  BY <1>0, <1>1, SeqFields, Appended
<1>4. /\ col' \in Collector /\ col'.at = col.at /\ col'.batch = col.batch /\ col'.closed = col.closed
      /\ \/ col'.bad = TRUE /\ col'.queue = col.queue
         \/ col'.bad = col.bad /\ col'.queue = Append(col.queue, s) /\ ~col.closed
  <2>1. col \in Collector
    BY <1>0 DEF Typed
  <2>2. col' = [col EXCEPT !.bad = TRUE] \/ (~col.closed /\ col' = [col EXCEPT !.queue = Append(@, s)])
    BY DEF Emit
  <2> QED
    BY <1>3, <2>1, <2>2 DEF Collector
<1>5. UNCHANGED <<fin, wr, net, host, disk, alive, faults, persisted>>
  BY DEF Emit
<1>6. Typed'
  BY <1>0, <1>2, <1>4, <1>5 DEF Typed
<1>7. KnownInv'
  <2>1. AllKnown(col'.queue) /\ AllKnown(col'.batch)
    BY <1>0, <1>1, <1>3, <1>4, SMTT(30) DEF KnownInv, AllKnown
  <2> QED
    BY <1>0, <1>2, <1>5, <2>1, KnownFrame DEF KnownInv
<1>8. ReceiptInv'
  BY <1>0, <1>5 DEF ReceiptInv, Stored
<1>9. LoopInv'
  <2>1. ASSUME NEW a \in Attempt, prod.rev[a] > 0, ~col'.bad, alive PROVE Held(a)'
    <3>1. Held(a)
      BY <1>0, <1>4, <2>1 DEF LoopInv, Typed, Collector
    <3>2. col'.queue = Append(col.queue, s)
      BY <1>4, <2>1
    <3>3. ASSUME NEW t \in prod.unsent, Latest(a, t) PROVE Held(a)'
      <4>1. CASE t = s
        BY <1>2, <1>3, <3>2, <3>3, <4>1 DEF Held, Latest
      <4>2. CASE t # s
        BY <1>2, <3>3, <4>2 DEF Held, Latest
      <4> QED
        BY <4>1, <4>2
    <3>4. ASSUME NEW i \in 1..Len(col.queue), Latest(a, col.queue[i]) PROVE Held(a)'
      BY <1>2, <1>3, <3>2, <3>4 DEF Held, Latest
    <3> QED
      BY <1>2, <1>4, <1>5, <3>1, <3>3, <3>4 DEF Held, Latest
  <2> QED
    BY <1>0, <1>2, <1>4, <1>5, <2>1 DEF LoopInv
<1>10. CloseInv'
  BY <1>0, <1>2, <1>4, <1>5 DEF CloseInv
<1>11. OverInv' /\ AliveInv'
  BY <1>0, <1>2, <1>5, OverFrame DEF AliveInv
<1> QED
  BY <1>6, <1>7, <1>8, <1>9, <1>10, <1>11 DEF AccInv

\* The batch and the rest of the channel are what the channel was.
LEMMA KeepsTakeBatch ==
  ASSUME AccInv, TakeBatch PROVE AccInv'
<1>0. Typed /\ KnownInv /\ ReceiptInv /\ LoopInv /\ CloseInv /\ OverInv /\ AliveInv
  BY DEF AccInv
<1>1. PICK n \in Nat :
        /\ n <= Len(col.queue)
        /\ col' = [col EXCEPT !.at = "write", !.batch = SubSeq(col.queue, 1, n),
                              !.queue = SubSeq(col.queue, n + 1, Len(col.queue))]
  <2>1. BatchSize \in Nat
    BY AccountingAssumption
  <2>2. Len(col.queue) \in Nat
    BY <1>0, SeqFields
  <2>3. \E n \in Nat : n <= Len(col.queue) /\
           n = (IF Len(col.queue) < BatchSize THEN Len(col.queue) ELSE BatchSize)
    BY <2>1, <2>2
  <2> QED
    BY <2>3 DEF TakeBatch
<1> DEFINE batch == SubSeq(col.queue, 1, n)
           rest == SubSeq(col.queue, n + 1, Len(col.queue))
<1>2. /\ batch \in Seq(Snapshot) /\ Len(batch) = n /\ \A i \in 1..n : batch[i] = col.queue[i]
      /\ rest \in Seq(Snapshot) /\ Len(rest) = Len(col.queue) - n /\ Len(col.queue) \in Nat
      /\ \A i \in 1..Len(rest) : rest[i] = col.queue[i + n]
  <2>1. col.queue \in Seq(Snapshot) /\ Len(col.queue) \in Nat
    BY <1>0, SeqFields
  <2> QED
    BY <1>1, <2>1, SMTT(30)
<1>3. /\ col' \in Collector /\ col'.at = "write" /\ col'.batch = batch /\ col'.queue = rest
      /\ col'.bad = col.bad /\ col'.closed = col.closed
  <2> HIDE DEF batch, rest
  <2>1. col' = [col EXCEPT !.at = "write", !.batch = batch, !.queue = rest]
    BY <1>1 DEF batch, rest
  <2> QED
    BY <1>0, <1>2, <2>1 DEF Typed, Collector
<1> HIDE DEF batch, rest
<1>4. UNCHANGED <<prod, fin, wr, net, host, disk, alive, faults, persisted>>
      /\ col.at = "tick" /\ col.batch = << >>
  BY <1>0 DEF TakeBatch, LoopInv
<1>5. Typed'
  BY <1>0, <1>3, <1>4 DEF Typed
<1>6. KnownInv'
  <2>0. \A i \in 1..Len(col.queue) : Known(col.queue[i])
    BY <1>0 DEF KnownInv, AllKnown
  <2>1. ASSUME NEW i \in 1..n PROVE Known(batch[i])
    <3>1. i \in 1..Len(col.queue) /\ batch[i] = col.queue[i]
      BY <1>1, <1>2
    <3> QED
      BY <2>0, <3>1
  <2>2. ASSUME NEW i \in 1..Len(rest) PROVE Known(rest[i])
    <3>1. i + n \in 1..Len(col.queue)
      <4>1. n \in Nat /\ Len(rest) = Len(col.queue) - n /\ Len(col.queue) \in Nat
        BY <1>1, <1>2
      <4> QED
        BY <4>1
    <3>2. rest[i] = col.queue[i + n]
      BY <1>2
    <3> QED
      BY <2>0, <3>1, <3>2
  <2>3. AllKnown(col'.queue) /\ AllKnown(col'.batch)
    BY <1>2, <1>3, <2>1, <2>2 DEF AllKnown
  <2> QED
    BY <1>0, <1>4, <2>3, KnownFrame DEF KnownInv
<1>7. ReceiptInv'
  BY <1>0, <1>4 DEF ReceiptInv, Stored
<1>8. LoopInv'
  <2>1. ASSUME NEW a \in Attempt, Held(a) PROVE Held(a)'
    <3>1. ASSUME NEW i \in 1..Len(col.queue), Latest(a, col.queue[i]) PROVE Held(a)'
      <4>1. CASE i <= n
        <5>1. i \in 1..Len(batch) /\ batch[i] = col.queue[i]
          <6>1. i \in 1..n
            BY <1>1, <4>1
          <6> QED
            BY <1>2, <6>1
        <5> QED
          BY <1>3, <1>4, <3>1, <5>1 DEF Held, Latest
      <4>2. CASE i > n
        <5>1. PICK k \in Nat : k = i - n /\ k >= 1 /\ i = k + n /\ k <= Len(col.queue) - n
          BY <1>1, <1>2, <4>2
        <5>2. k \in 1..Len(rest)
          BY <1>1, <1>2, <5>1
        <5>3. rest[k] = col.queue[i]
          BY <1>2, <5>1, <5>2
        <5> QED
          BY <1>3, <1>4, <3>1, <5>2, <5>3 DEF Held, Latest
      <4> QED
        BY <1>1, <4>1, <4>2
    <3> QED
      BY <1>4, <2>1, <3>1 DEF Held, Latest
  <2> QED
    BY <1>0, <1>3, <1>4, <2>1 DEF LoopInv
<1>9. CloseInv'
  BY <1>0, <1>3, <1>4 DEF CloseInv
<1>10. OverInv' /\ AliveInv'
  BY <1>0, <1>4, OverFrame DEF AliveInv
<1> QED
  BY <1>5, <1>6, <1>7, <1>8, <1>9, <1>10 DEF AccInv

-----------------------------------------------------------------------------
(* The writer and the run loop                                             *)

\* A write that begins: its message is known, and it is not answered.
LEMMA RegisterKeeps ==
  ASSUME AccInv, NEW w \in Writer, NEW m \in Message, Register(w, m), AllKnown(m.obs),
         m.kind # "result", disk' = disk, host' = host
  PROVE /\ \A i \in 1..Len(net'.up) : AllKnown(net'.up[i].obs)
        /\ \A i \in 1..Len(net'.up) : net'.up[i].kind = "result" =>
              \E j \in 1..Len(net.up) : net'.up[i] = net.up[j]
        /\ ReceiptInv'
<1>0. Typed /\ KnownInv /\ ReceiptInv
  BY DEF AccInv
<1>1. /\ wr'.call[w].answer = "none" /\ \A v \in Writer \ {w} : wr'.call[v] = wr.call[v]
      /\ net'.down = net.down /\ (net'.up = net.up \/ net'.up = Append(net.up, m))
  BY <1>0, Registered
<1>2. net.up \in Seq(Message) /\ Len(net.up) \in Nat
  BY <1>0, SeqFields
<1>3. \A i \in 1..Len(net'.up) : (i \in 1..Len(net.up) /\ net'.up[i] = net.up[i]) \/ net'.up[i] = m
  <2>1. CASE net'.up = net.up
    BY <2>1
  <2>2. CASE net'.up = Append(net.up, m)
    BY <1>2, <2>2, Appended
  <2> QED
    BY <1>1, <2>1, <2>2
<1>4. \A i \in 1..Len(net.up) : AllKnown(net.up[i].obs)
  BY <1>0 DEF KnownInv
<1>5. \A i \in 1..Len(net'.up) : AllKnown(net'.up[i].obs)
  BY <1>3, <1>4
<1>6. ReceiptInv'
  <2>1. \A v \in Writer : wr'.call[v].answer = "yes" => Stored(wr'.call[v].msg)
    BY <1>0, <1>1 DEF ReceiptInv
  <2> QED
    BY <1>0, <1>1, <2>1, ReceiptFrame DEF ReceiptInv
<1> QED
  BY <1>3, <1>5, <1>6

\* The message the loop waits for is its batch.
LEMMA KeepsWriteBatch ==
  ASSUME AccInv, WriteBatch PROVE AccInv'
<1>0. Typed /\ KnownInv /\ ReceiptInv /\ LoopInv /\ CloseInv /\ OverInv /\ AliveInv
  BY DEF AccInv
<1> DEFINE m == Obs(col.batch)
<1>1. m \in Message /\ m.kind = "obs" /\ m.obs = col.batch
  BY <1>0, SeqFields, MessageTypes
<1>2. /\ Register("loop", m) /\ col' = [col EXCEPT !.at = "await"] /\ col.at = "write" /\ alive
      /\ UNCHANGED <<prod, fin, host, disk, alive, faults, persisted>>
  BY DEF WriteBatch
<1> HIDE DEF m
<1>3. "loop" \in Writer /\ "drain" \in Writer \ {"loop"} /\ m.kind # "result"
  BY <1>1 DEF Writer
<1>4. AllKnown(m.obs)
  BY <1>0, <1>1 DEF KnownInv
<1>5. /\ wr' \in Writing /\ wr'.call["loop"].msg = m
      /\ wr'.call["drain"] = wr.call["drain"] /\ net' \in Network
  BY <1>0, <1>1, <1>2, <1>3, Registered
<1>6. /\ \A i \in 1..Len(net'.up) : AllKnown(net'.up[i].obs)
      /\ \A i \in 1..Len(net'.up) : net'.up[i].kind = "result" =>
              \E j \in 1..Len(net.up) : net'.up[i] = net.up[j]
      /\ ReceiptInv'
  BY <1>1, <1>2, <1>3, <1>4, RegisterKeeps
<1>7. /\ col' \in Collector /\ col'.at = "await" /\ col'.queue = col.queue /\ col'.batch = col.batch
      /\ col'.bad = col.bad /\ col'.closed = col.closed
  BY <1>0, <1>2 DEF Typed, Collector
<1>8. Typed'
  BY <1>0, <1>2, <1>5, <1>7 DEF Typed
<1>9. KnownInv'
  BY <1>0, <1>2, <1>6, <1>7, KnownFrame DEF KnownInv
<1>10. LoopInv'
  <2>1. \A a \in Attempt : Held(a) => Held(a)'
    BY <1>2, <1>7 DEF Held, Latest
  <2>2. wr'.call["loop"].msg = Obs(col'.batch)
    BY <1>5, <1>7 DEF m
  <2> QED
    BY <1>0, <1>2, <1>7, <2>1, <2>2 DEF LoopInv
<1>11. CloseInv'
  BY <1>0, <1>2, <1>5, <1>6, <1>7 DEF CloseInv
<1>12. OverInv' /\ AliveInv'
  BY <1>0, <1>2, OverFrame DEF AliveInv
<1> QED
  BY <1>6, <1>8, <1>9, <1>10, <1>11, <1>12 DEF AccInv

\* Health carries no snapshots.
LEMMA KeepsWriteHealth ==
  ASSUME AccInv, WriteHealth PROVE AccInv'
<1>0. Typed /\ KnownInv /\ ReceiptInv /\ LoopInv /\ CloseInv /\ OverInv /\ AliveInv
  BY DEF AccInv
<1> DEFINE m == Health(wr.status + 1, col.bad)
<1>1. m \in Message /\ m.kind = "health" /\ m.obs = << >>
  <2>1. wr.status + 1 \in Nat /\ col.bad \in BOOLEAN
    BY <1>0 DEF Typed, Writing, Collector
  <2> QED
    BY <2>1, MessageTypes
<1>2. /\ Register("loop", m) /\ col' = [col EXCEPT !.at = "told"] /\ alive
      /\ col.at \in {"health", "tick"}
      /\ UNCHANGED <<prod, fin, host, disk, alive, faults, persisted>>
  BY DEF WriteHealth
<1> HIDE DEF m
<1>3. "loop" \in Writer /\ "drain" \in Writer \ {"loop"} /\ m.kind # "result"
  BY <1>1 DEF Writer
<1>4. AllKnown(m.obs)
  BY <1>1 DEF AllKnown
<1>5. /\ wr' \in Writing /\ wr'.call["drain"] = wr.call["drain"] /\ net' \in Network
  BY <1>0, <1>1, <1>2, <1>3, Registered
<1>6. /\ \A i \in 1..Len(net'.up) : AllKnown(net'.up[i].obs)
      /\ \A i \in 1..Len(net'.up) : net'.up[i].kind = "result" =>
              \E j \in 1..Len(net.up) : net'.up[i] = net.up[j]
      /\ ReceiptInv'
  BY <1>1, <1>2, <1>3, <1>4, RegisterKeeps
<1>7. /\ col' \in Collector /\ col'.at = "told" /\ col'.queue = col.queue /\ col'.batch = col.batch
      /\ col'.bad = col.bad /\ col'.closed = col.closed
  BY <1>0, <1>2 DEF Typed, Collector
<1>8. Typed'
  BY <1>0, <1>2, <1>5, <1>7 DEF Typed
<1>9. KnownInv'
  BY <1>0, <1>2, <1>6, <1>7, KnownFrame DEF KnownInv
<1>10. LoopInv'
  <2>1. \A a \in Attempt : Held(a) => Held(a)'
    BY <1>2, <1>7 DEF Held, Latest
  <2> QED
    BY <1>0, <1>2, <1>7, <2>1 DEF LoopInv
<1>11. CloseInv'
  BY <1>0, <1>2, <1>5, <1>6, <1>7 DEF CloseInv
<1>12. OverInv' /\ AliveInv'
  BY <1>0, <1>2, OverFrame DEF AliveInv
<1> QED
  BY <1>6, <1>8, <1>9, <1>10, <1>11, <1>12 DEF AccInv

\* The final health says what the collector says, which no step changes any more.
LEMMA KeepsFinalHealth ==
  ASSUME AccInv, FinalHealth PROVE AccInv'
<1>0. Typed /\ KnownInv /\ ReceiptInv /\ LoopInv /\ CloseInv /\ OverInv /\ AliveInv
  BY DEF AccInv
<1> DEFINE m == Health(wr.status + 1, col.bad)
<1>1. m \in Message /\ m.kind = "health" /\ m.obs = << >> /\ m.bad = col.bad
  <2>1. wr.status + 1 \in Nat /\ col.bad \in BOOLEAN
    BY <1>0 DEF Typed, Writing, Collector
  <2> QED
    BY <2>1, MessageTypes
<1>2. /\ fin.at = "closed" /\ alive /\ fin.ask = "wait"
      /\ UNCHANGED <<prod, col, host, disk, alive, faults, persisted>>
      /\ \/ Register("drain", m) /\ fin' = [fin EXCEPT !.ask = "await"]
         \/ fin' = [fin EXCEPT !.ask = "failed"] /\ UNCHANGED <<wr, net>>
  BY DEF FinalHealth
<1> HIDE DEF m
<1>3. fin' \in Closing /\ fin'.at = "closed" /\ fin'.err = fin.err /\ fin'.ask \in {"await", "failed"}
  BY <1>0, <1>2 DEF Typed, Closing
<1>4. OverInv' /\ AliveInv'
  BY <1>0, <1>2, OverFrame DEF AliveInv
<1>5. CASE fin' = [fin EXCEPT !.ask = "failed"] /\ UNCHANGED <<wr, net>>
  <2>1. Typed'
    BY <1>0, <1>2, <1>3, <1>5 DEF Typed
  <2>2. KnownInv'
    BY <1>0, <1>2, <1>5, KnownFrame DEF KnownInv
  <2>3. ReceiptInv'
    BY <1>0, <1>2, <1>5, ReceiptFrame DEF ReceiptInv
  <2>4. LoopInv'
    BY <1>0, <1>2, <1>5, LoopFrame DEF Typed, Disk, Rows
  <2>5. fin'.ask = "failed"
    BY <1>0, <1>5 DEF Typed, Closing
  <2>6. CloseInv'
    BY <1>0, <1>2, <1>3, <1>5, <2>5 DEF CloseInv
  <2> QED
    BY <1>4, <2>1, <2>2, <2>3, <2>4, <2>6 DEF AccInv
<1>6. CASE Register("drain", m) /\ fin' = [fin EXCEPT !.ask = "await"]
  <2>1. "drain" \in Writer /\ "loop" \in Writer \ {"drain"} /\ m.kind # "result"
    BY <1>1 DEF Writer
  <2>2. AllKnown(m.obs)
    BY <1>1 DEF AllKnown
  <2>3. /\ wr' \in Writing /\ wr'.call["loop"] = wr.call["loop"] /\ wr'.call["drain"].msg = m
        /\ net' \in Network
    BY <1>0, <1>1, <1>6, <2>1, Registered
  <2>4. /\ \A i \in 1..Len(net'.up) : AllKnown(net'.up[i].obs)
        /\ \A i \in 1..Len(net'.up) : net'.up[i].kind = "result" =>
              \E j \in 1..Len(net.up) : net'.up[i] = net.up[j]
        /\ ReceiptInv'
    BY <1>1, <1>2, <1>6, <2>1, <2>2, RegisterKeeps
  <2>5. Typed'
    BY <1>0, <1>2, <1>3, <2>3 DEF Typed
  <2>6. KnownInv'
    BY <1>0, <1>2, <2>4, KnownFrame DEF KnownInv
  <2>7. LoopInv'
    BY <1>0, <1>2, <2>3, LoopFrame DEF Typed, Disk, Rows
  <2>8. fin'.ask = "await"
    BY <1>0, <1>6 DEF Typed, Closing
  <2>9. CloseInv'
    BY <1>0, <1>1, <1>2, <1>3, <2>3, <2>4, <2>8 DEF CloseInv
  <2> QED
    BY <1>4, <2>4, <2>5, <2>6, <2>7, <2>9 DEF AccInv
<1> QED
  BY <1>2, <1>5, <1>6

\* A write that ends.
LEMMA LeaveKeeps ==
  ASSUME AccInv, NEW w \in Writer, Leave(w), disk' = disk, host' = host, net' = net
  PROVE ReceiptInv'
<1>0. Typed /\ ReceiptInv
  BY DEF AccInv
<1>1. wr'.call[w].answer = "none" /\ \A v \in Writer \ {w} : wr'.call[v] = wr.call[v]
  BY <1>0, WriteLeft
<1>2. \A v \in Writer : wr'.call[v].answer = "yes" => Stored(wr'.call[v].msg)
  BY <1>0, <1>1 DEF ReceiptInv
<1> QED
  BY <1>0, <1>2, ReceiptFrame DEF ReceiptInv

\* A write that ends costs at most one fault.
LEMMA FaultsStay ==
  ASSUME Typed, NEW w \in Writer
  PROVE Succeeds(w) \/ Fails(w) \/ UNCHANGED faults => faults' \in Nat
  BY DEF Typed, Succeeds, Fails

\* The receipt of the batch says that it is stored.
LEMMA KeepsBatchWritten ==
  ASSUME AccInv, BatchWritten PROVE AccInv'
<1>0. Typed /\ KnownInv /\ ReceiptInv /\ LoopInv /\ CloseInv /\ OverInv /\ AliveInv
  BY DEF AccInv
<1>1. /\ Leave("loop") /\ alive /\ col.at = "await" /\ wr.call["loop"].answer = "yes"
      /\ col' = [col EXCEPT !.at = "health", !.batch = << >>, !.tries = 0]
      /\ persisted' = persisted \cup ToSet(col.batch)
      /\ UNCHANGED <<prod, fin, net, host, disk, alive>> /\ UNCHANGED faults
  BY DEF BatchWritten, Succeeds
<1>2. "loop" \in Writer /\ "drain" \in Writer \ {"loop"}
  BY DEF Writer
<1>3. wr' \in Writing /\ wr'.call["drain"] = wr.call["drain"]
  BY <1>0, <1>1, <1>2, WriteLeft
<1>4. ReceiptInv'
  BY <1>1, <1>2, LeaveKeeps
<1>5. /\ col' \in Collector /\ col'.at = "health" /\ col'.batch = << >> /\ col'.queue = col.queue
      /\ col'.bad = col.bad /\ col'.closed = col.closed
  <2>1. << >> \in Seq(Snapshot) /\ 0 \in 0..MaxRetries
    BY AccountingAssumption
  <2> QED
    BY <1>0, <1>1, <2>1 DEF Typed, Collector
<1>6. col.batch \in Seq(Snapshot)
  BY <1>0, SeqFields
<1>7. ToSet(col.batch) = {col.batch[i] : i \in 1..Len(col.batch)}
  BY <1>6 DEF ToSet
<1>8. persisted' \subseteq Snapshot
  BY <1>0, <1>1, <1>6, <1>7 DEF Typed
<1>9. Typed'
  BY <1>0, <1>1, <1>3, <1>5, <1>8 DEF Typed
<1>10. KnownInv'
  <2>1. AllKnown(col'.batch)
    BY <1>5 DEF AllKnown
  <2> QED
    BY <1>0, <1>1, <1>5, <2>1, KnownFrame DEF KnownInv
<1>11. LoopInv'
  <2>1. ASSUME NEW i \in 1..Len(col.batch)
        PROVE disk.row[col.batch[i].id].rev >= col.batch[i].rev
    <3>1. wr.call["loop"].msg = Obs(col.batch) /\ Stored(wr.call["loop"].msg)
      BY <1>0, <1>1, <1>2 DEF LoopInv, ReceiptInv
    <3>2. wr.call["loop"].msg.obs = col.batch
      BY <1>6, <3>1, MessageTypes
    <3> QED
      BY <3>1, <3>2 DEF Stored
  <2>2. \A s \in persisted' : disk.row[s.id].rev >= s.rev
    BY <1>0, <1>1, <1>7, <2>1 DEF LoopInv
  <2>3. ASSUME NEW a \in Attempt, Held(a) PROVE Held(a)'
    <3>1. ASSUME NEW i \in 1..Len(col.batch), Latest(a, col.batch[i]) PROVE Held(a)'
      BY <1>1, <1>7, <3>1 DEF Held, Latest
    <3>2. ASSUME NEW s \in persisted, Latest(a, s) PROVE Held(a)'
      BY <1>1, <3>2 DEF Held, Latest
    <3> QED
      BY <1>1, <1>5, <2>3, <3>1, <3>2 DEF Held, Latest
  <2> QED
    BY <1>0, <1>1, <1>5, <2>2, <2>3 DEF LoopInv
<1>12. CloseInv'
  BY <1>0, <1>1, <1>3, <1>5 DEF CloseInv
<1>13. OverInv' /\ AliveInv'
  BY <1>0, <1>1, OverFrame DEF AliveInv
<1> QED
  BY <1>4, <1>9, <1>10, <1>11, <1>12, <1>13 DEF AccInv

\* A batch that is dropped is uncertain; a loop that returns with one was told to.
LEMMA KeepsBatchFailed ==
  ASSUME AccInv, BatchFailed PROVE AccInv'
<1>0. Typed /\ KnownInv /\ ReceiptInv /\ LoopInv /\ CloseInv /\ OverInv /\ AliveInv
  BY DEF AccInv
<1>1. /\ Leave("loop") /\ alive /\ BatchError
      /\ UNCHANGED <<prod, fin, net, host, disk, alive, persisted>>
      /\ \/ fin.at = "closed" /\ col' = [col EXCEPT !.at = "done"]
         \/ /\ fin.at # "closed" /\ col.tries < MaxRetries
            /\ col' = [col EXCEPT !.at = "write", !.tries = @ + 1]
         \/ /\ fin.at # "closed"
            /\ col' = [col EXCEPT !.at = "health", !.batch = << >>, !.tries = 0, !.bad = TRUE]
  BY DEF BatchFailed
<1>2. "loop" \in Writer /\ "drain" \in Writer \ {"loop"}
  BY DEF Writer
<1>3. wr' \in Writing /\ wr'.call["drain"] = wr.call["drain"]
  BY <1>0, <1>1, <1>2, WriteLeft
<1>4. ReceiptInv'
  BY <1>1, <1>2, LeaveKeeps
<1>5. faults' \in Nat
  BY <1>0, <1>1, <1>2, FaultsStay DEF BatchError, Typed
<1>6. col.at \in {"write", "await"}
  BY <1>1 DEF BatchError
<1>7. /\ col' \in Collector /\ col'.queue = col.queue /\ col'.closed = col.closed
      /\ \/ fin.at = "closed" /\ col'.at = "done" /\ col'.batch = col.batch /\ col'.bad = col.bad
         \/ fin.at # "closed" /\ col'.at = "write" /\ col'.batch = col.batch /\ col'.bad = col.bad
         \/ fin.at # "closed" /\ col'.at = "health" /\ col'.batch = << >> /\ col'.bad = TRUE
  <2>1. << >> \in Seq(Snapshot) /\ 0 \in 0..MaxRetries /\ col \in Collector
    BY <1>0, AccountingAssumption DEF Typed
  <2>2. col.tries \in 0..MaxRetries /\ MaxRetries \in Nat
    BY <2>1, AccountingAssumption DEF Collector
  <2>3. CASE fin.at = "closed" /\ col' = [col EXCEPT !.at = "done"]
    BY <2>1, <2>3 DEF Collector
  <2>4. CASE /\ fin.at # "closed" /\ col.tries < MaxRetries
             /\ col' = [col EXCEPT !.at = "write", !.tries = @ + 1]
    <3>1. PICK t \in 0..MaxRetries : t = col.tries + 1
      BY <2>2, <2>4
    <3>2. col' = [col EXCEPT !.at = "write", !.tries = t]
      BY <2>1, <2>4, <3>1 DEF Collector
    <3> QED
      BY <2>1, <2>4, <3>2 DEF Collector
  <2>5. CASE /\ fin.at # "closed"
             /\ col' = [col EXCEPT !.at = "health", !.batch = << >>, !.tries = 0, !.bad = TRUE]
    BY <2>1, <2>5 DEF Collector
  <2> QED
    BY <1>1, <2>3, <2>4, <2>5
<1>8. Typed'
  BY <1>0, <1>1, <1>3, <1>5, <1>7 DEF Typed
<1>9. KnownInv'
  <2>1. AllKnown(col'.batch)
    BY <1>0, <1>7 DEF AllKnown, KnownInv
  <2> QED
    BY <1>0, <1>1, <1>7, <2>1, KnownFrame DEF KnownInv
<1>10. LoopInv'
  <2>1. ASSUME NEW a \in Attempt, Held(a), col'.batch = col.batch PROVE Held(a)'
    BY <1>1, <1>7, <2>1 DEF Held, Latest
  <2> QED
    BY <1>0, <1>1, <1>7, <2>1 DEF LoopInv
<1>11. CloseInv'
  BY <1>0, <1>1, <1>3, <1>6, <1>7 DEF CloseInv
<1>12. OverInv' /\ AliveInv'
  BY <1>0, <1>1, OverFrame DEF AliveInv
<1> QED
  BY <1>4, <1>8, <1>9, <1>10, <1>11, <1>12 DEF AccInv

\* Health is not tried again.
LEMMA KeepsHealthDone ==
  ASSUME AccInv, HealthDone PROVE AccInv'
<1>0. Typed /\ KnownInv /\ ReceiptInv /\ LoopInv /\ CloseInv /\ OverInv /\ AliveInv
  BY DEF AccInv
<1>1. /\ Leave("loop") /\ alive /\ col.at \in {"health", "told"}
      /\ col' = [col EXCEPT !.at = "tick"]
      /\ UNCHANGED <<prod, fin, net, host, disk, alive, persisted>>
      /\ Succeeds("loop") \/ Fails("loop") \/ UNCHANGED faults
  BY DEF HealthDone
<1>2. "loop" \in Writer /\ "drain" \in Writer \ {"loop"}
  BY DEF Writer
<1>3. wr' \in Writing /\ wr'.call["drain"] = wr.call["drain"]
  BY <1>0, <1>1, <1>2, WriteLeft
<1>4. ReceiptInv'
  BY <1>1, <1>2, LeaveKeeps
<1>5. faults' \in Nat
  BY <1>0, <1>1, <1>2, FaultsStay
<1>6. /\ col' \in Collector /\ col'.at = "tick" /\ col'.queue = col.queue /\ col'.batch = col.batch
      /\ col'.bad = col.bad /\ col'.closed = col.closed
  BY <1>0, <1>1 DEF Typed, Collector
<1>7. Typed'
  BY <1>0, <1>1, <1>3, <1>5, <1>6 DEF Typed
<1>8. KnownInv'
  BY <1>0, <1>1, <1>6, KnownFrame DEF KnownInv
<1>9. LoopInv'
  <2>1. \A a \in Attempt : Held(a) => Held(a)'
    BY <1>1, <1>6 DEF Held, Latest
  <2> QED
    BY <1>0, <1>1, <1>6, <2>1 DEF LoopInv
<1>10. CloseInv'
  BY <1>0, <1>1, <1>3, <1>6 DEF CloseInv
<1>11. OverInv' /\ AliveInv'
  BY <1>0, <1>1, OverFrame DEF AliveInv
<1> QED
  BY <1>4, <1>7, <1>8, <1>9, <1>10, <1>11 DEF AccInv

\* The loop ends with an empty channel and no batch.
LEMMA KeepsLoopEnds ==
  ASSUME AccInv, LoopEnds PROVE AccInv'
<1>0. Typed /\ KnownInv /\ ReceiptInv /\ LoopInv /\ CloseInv /\ OverInv /\ AliveInv
  BY DEF AccInv
<1>1. /\ alive /\ col.at = "tick" /\ col.queue = << >> /\ col.closed /\ col.batch = << >>
      /\ col' = [col EXCEPT !.at = "done"]
      /\ UNCHANGED <<prod, fin, wr, net, host, disk, alive, faults, persisted>>
  BY <1>0 DEF LoopEnds, LoopInv
<1>2. /\ col' \in Collector /\ col'.at = "done" /\ col'.queue = col.queue /\ col'.batch = col.batch
      /\ col'.bad = col.bad /\ col'.closed = col.closed
  BY <1>0, <1>1 DEF Typed, Collector
<1>3. Typed'
  BY <1>0, <1>1, <1>2 DEF Typed
<1>4. KnownInv'
  BY <1>0, <1>1, <1>2, KnownFrame DEF KnownInv
<1>5. ReceiptInv'
  BY <1>0, <1>1, ReceiptFrame DEF ReceiptInv
<1>6. LoopInv'
  <2>1. \A a \in Attempt : Held(a) => Held(a)'
    BY <1>1, <1>2 DEF Held, Latest
  <2> QED
    BY <1>0, <1>1, <1>2, <2>1 DEF LoopInv
<1>7. CloseInv'
  BY <1>0, <1>1, <1>2 DEF CloseInv
<1>8. OverInv' /\ AliveInv'
  BY <1>0, <1>1, OverFrame DEF AliveInv
<1> QED
  BY <1>3, <1>4, <1>5, <1>6, <1>7, <1>8 DEF AccInv

-----------------------------------------------------------------------------
(* The close and the drain                                                 *)

\* The producers are asked to end; those that do not leave an error.
LEMMA KeepsCloseCollector ==
  ASSUME AccInv, CloseCollector PROVE AccInv'
<1>0. Typed /\ KnownInv /\ ReceiptInv /\ LoopInv /\ CloseInv /\ OverInv /\ AliveInv
  BY DEF AccInv
<1>1. /\ alive /\ fin.at = "producers"
      /\ fin' = [fin EXCEPT !.at = "collector", !.err = prod.live]
      /\ col' = [col EXCEPT !.closed = TRUE, !.bad = col.bad \/ prod.live]
      /\ UNCHANGED <<prod, wr, net, host, disk, alive, faults, persisted>>
  BY <1>0 DEF CloseCollector, Typed, Collector
<1>2. prod.live \in BOOLEAN /\ col.bad \in BOOLEAN /\ (col.bad \/ prod.live) \in BOOLEAN
  BY <1>0 DEF Typed, Producers, Collector
<1>3. fin' \in Closing /\ fin'.at = "collector" /\ fin'.err = prod.live /\ fin'.ask = fin.ask
  BY <1>0, <1>1, <1>2 DEF Typed, Closing
<1>4. /\ col' \in Collector /\ col'.at = col.at /\ col'.queue = col.queue /\ col'.batch = col.batch
      /\ col'.closed = TRUE /\ col'.bad = (col.bad \/ prod.live)
  BY <1>0, <1>1, <1>2 DEF Typed, Collector
<1>5. Typed'
  BY <1>0, <1>1, <1>3, <1>4 DEF Typed
<1>6. KnownInv'
  BY <1>0, <1>1, <1>4, KnownFrame DEF KnownInv
<1>7. ReceiptInv'
  BY <1>0, <1>1, ReceiptFrame DEF ReceiptInv
<1>8. LoopInv'
  <2>1. \A a \in Attempt : disk'.row[a].rev >= disk.row[a].rev
    BY <1>0, <1>1 DEF Typed, Disk, Rows
  <2> QED
    BY <1>0, <1>1, <1>4, <2>1, LoopFrame DEF Typed
<1>9. CloseInv'
  BY <1>0, <1>1, <1>2, <1>3, <1>4 DEF CloseInv
<1>10. OverInv' /\ AliveInv'
  BY <1>0, <1>1, OverFrame DEF AliveInv
<1> QED
  BY <1>5, <1>6, <1>7, <1>8, <1>9, <1>10 DEF AccInv

\* A loop that is not done in time leaves an error.
LEMMA KeepsCloseEnds ==
  ASSUME AccInv, CloseEnds PROVE AccInv'
<1>0. Typed /\ KnownInv /\ ReceiptInv /\ LoopInv /\ CloseInv /\ OverInv /\ AliveInv
  BY DEF AccInv
<1>1. PICK err \in BOOLEAN, bad \in BOOLEAN :
      /\ err = (fin.err \/ col.at # "done") /\ (col.bad => bad)
      /\ fin' = [fin EXCEPT !.at = "closed", !.err = err]
      /\ col' = [col EXCEPT !.bad = bad]
  <2>1. /\ fin' = [fin EXCEPT !.at = "closed", !.err = fin.err \/ col.at # "done"]
        /\ col' = [col EXCEPT !.bad = col.bad \/ (col.at # "done" /\ Pending > 0)]
    BY <1>0 DEF CloseEnds, Typed, Closing, Collector
  <2> QED
    BY <2>1
<1>2. alive /\ fin.at = "collector" /\ UNCHANGED <<prod, wr, net, host, disk, alive, faults, persisted>>
  BY DEF CloseEnds
<1>3. fin' \in Closing /\ fin'.at = "closed" /\ fin'.err = err /\ fin'.ask = fin.ask
  BY <1>0, <1>1 DEF Typed, Closing
<1>4. /\ col' \in Collector /\ col'.at = col.at /\ col'.queue = col.queue /\ col'.batch = col.batch
      /\ col'.closed = col.closed /\ (col.bad => col'.bad)
  BY <1>0, <1>1 DEF Typed, Collector
<1>5. Typed'
  BY <1>0, <1>2, <1>3, <1>4 DEF Typed
<1>6. KnownInv'
  BY <1>0, <1>2, <1>4, KnownFrame DEF KnownInv
<1>7. ReceiptInv'
  BY <1>0, <1>2, ReceiptFrame DEF ReceiptInv
<1>8. LoopInv'
  <2>1. \A a \in Attempt : disk'.row[a].rev >= disk.row[a].rev
    BY <1>0, <1>2 DEF Typed, Disk, Rows
  <2> QED
    BY <1>0, <1>2, <1>4, <2>1, LoopFrame DEF Typed
<1>9. CloseInv'
  BY <1>0, <1>1, <1>2, <1>3, <1>4 DEF CloseInv
<1>10. OverInv' /\ AliveInv'
  BY <1>0, <1>2, OverFrame DEF AliveInv
<1> QED
  BY <1>5, <1>6, <1>7, <1>8, <1>9, <1>10 DEF AccInv

\* The final health is acknowledged: the host has marked what the collector lost.
LEMMA KeepsFinalAnswer ==
  ASSUME AccInv, FinalAnswer PROVE AccInv'
<1>0. Typed /\ KnownInv /\ ReceiptInv /\ LoopInv /\ CloseInv /\ OverInv /\ AliveInv
  BY DEF AccInv
<1>1. /\ Leave("drain") /\ alive /\ fin.ask = "await"
      /\ UNCHANGED <<prod, col, net, host, disk, alive, persisted>>
      /\ \/ Succeeds("drain") /\ fin' = [fin EXCEPT !.ask = "told"]
         \/ Fails("drain") /\ fin' = [fin EXCEPT !.ask = "failed"]
  BY DEF FinalAnswer
<1>2. "drain" \in Writer /\ "loop" \in Writer \ {"drain"}
  BY DEF Writer
<1>3. wr' \in Writing /\ wr'.call["loop"] = wr.call["loop"]
  BY <1>0, <1>1, <1>2, WriteLeft
<1>4. ReceiptInv'
  BY <1>1, <1>2, LeaveKeeps
<1>5. faults' \in Nat
  BY <1>0, <1>1, <1>2, FaultsStay
<1>6. /\ fin' \in Closing /\ fin'.at = fin.at /\ fin'.err = fin.err
      /\ (fin'.ask = "told" /\ Succeeds("drain")) \/ fin'.ask = "failed"
  BY <1>0, <1>1 DEF Typed, Closing
<1>7. Typed'
  BY <1>0, <1>1, <1>3, <1>5, <1>6 DEF Typed
<1>8. KnownInv'
  BY <1>0, <1>1, KnownFrame DEF KnownInv
<1>9. LoopInv'
  BY <1>0, <1>1, <1>3, LoopFrame DEF Typed, Disk, Rows
<1>10. CloseInv'
  <2>1. Succeeds("drain") => (wr.call["drain"].msg.bad => host.marked)
    BY <1>0, <1>2 DEF Succeeds, ReceiptInv, Stored
  <2> QED
    BY <1>0, <1>1, <1>6, <2>1 DEF CloseInv
<1>11. OverInv' /\ AliveInv'
  BY <1>0, <1>1, OverFrame DEF AliveInv
<1> QED
  BY <1>4, <1>7, <1>8, <1>9, <1>10, <1>11 DEF AccInv

\* A result without an error follows an acknowledged final health.
LEMMA KeepsSendResult ==
  ASSUME AccInv, SendResult PROVE AccInv'
<1>0. Typed /\ KnownInv /\ ReceiptInv /\ LoopInv /\ CloseInv /\ OverInv /\ AliveInv
  BY DEF AccInv
<1>1. PICK err \in BOOLEAN : err = (fin.err \/ fin.ask = "failed")
  OBVIOUS
<1> DEFINE m == Result(err)
<1>2. m \in Message /\ m.kind = "result" /\ m.obs = << >> /\ m.bad = err
  BY MessageTypes
<1>3. /\ alive /\ fin.ask \in {"told", "failed"}
      /\ net' = [net EXCEPT !.up = Append(net.up, m)]
      /\ wr' = [wr EXCEPT !.link = 0] /\ fin' = [fin EXCEPT !.ask = "none"]
      /\ UNCHANGED <<prod, col, host, disk, alive, faults, persisted>>
  BY <1>0, <1>1 DEF SendResult, Up, Typed, Network
<1> HIDE DEF m
<1>4. net.up \in Seq(Message) /\ Len(net.up) \in Nat /\ Append(net.up, m) \in Seq(Message)
  BY <1>0, <1>2, SeqFields, Appended
<1>5. net' \in Network /\ net'.up = Append(net.up, m) /\ net'.down = net.down
  BY <1>0, <1>3, <1>4 DEF Typed, Network
<1>6. wr' \in Writing /\ wr'.call = wr.call
  BY <1>0, <1>3 DEF Typed, Writing
<1>7. fin' \in Closing /\ fin'.at = fin.at /\ fin'.err = fin.err /\ fin'.ask = "none"
  BY <1>0, <1>3 DEF Typed, Closing
<1>8. \A i \in 1..Len(net'.up) : (i \in 1..Len(net.up) /\ net'.up[i] = net.up[i]) \/ net'.up[i] = m
  BY <1>2, <1>4, <1>5, Appended
<1>9. Typed'
  BY <1>0, <1>3, <1>5, <1>6, <1>7 DEF Typed
<1>10. KnownInv'
  <2>1. AllKnown(m.obs)
    BY <1>2 DEF AllKnown
  <2>2. \A i \in 1..Len(net'.up) : AllKnown(net'.up[i].obs)
    BY <1>0, <1>8, <2>1 DEF KnownInv
  <2> QED
    BY <1>0, <1>3, <2>2, KnownFrame DEF KnownInv
<1>11. ReceiptInv'
  BY <1>0, <1>3, <1>5, <1>6, ReceiptFrame DEF ReceiptInv
<1>12. LoopInv'
  BY <1>0, <1>3, <1>6, LoopFrame DEF Typed, Disk, Rows
<1>13. CloseInv'
  <2>1. ~m.bad => fin.at = "closed" /\ ~fin.err /\ (col.bad => host.marked)
    BY <1>0, <1>1, <1>2, <1>3 DEF CloseInv
  <2>2. \A i \in 1..Len(net'.up) : net'.up[i].kind = "result" /\ ~net'.up[i].bad =>
           fin.at = "closed" /\ ~fin.err /\ (col.bad => host.marked)
    BY <1>0, <1>8, <2>1 DEF CloseInv
  <2> QED
    BY <1>0, <1>3, <1>7, <2>2 DEF CloseInv
<1>14. OverInv' /\ AliveInv'
  BY <1>0, <1>3, OverFrame DEF AliveInv
<1> QED
  BY <1>9, <1>10, <1>11, <1>12, <1>13, <1>14 DEF AccInv

\* With the stream its drain is gone, and no result without an error follows.
LEMMA KeepsDetach ==
  ASSUME AccInv, Detach PROVE AccInv'
<1>0. Typed /\ KnownInv /\ ReceiptInv /\ LoopInv /\ CloseInv /\ OverInv /\ AliveInv
  BY DEF AccInv
<1> DEFINE calls == [wr.call EXCEPT !["drain"] = NoCall]
<1>1. calls \in [Writer -> Call] /\ calls["drain"].answer = "none" /\ calls["loop"] = wr.call["loop"]
  BY <1>0, CallType DEF Typed, Writing, Writer
<1>2. /\ wr' = [wr EXCEPT !.link = 0, !.call = calls] /\ fin' = [fin EXCEPT !.ask = "none"] /\ alive
      /\ UNCHANGED <<prod, col, net, host, disk, alive, faults, persisted>>
  BY <1>0 DEF Detach, Typed, Writing
<1> HIDE DEF calls
<1>3. wr' \in Writing /\ wr'.call = calls
  BY <1>0, <1>1, <1>2 DEF Typed, Writing
<1>4. fin' \in Closing /\ fin'.at = fin.at /\ fin'.err = fin.err /\ fin'.ask = "none"
  BY <1>0, <1>2 DEF Typed, Closing
<1>5. Typed'
  BY <1>0, <1>2, <1>3, <1>4 DEF Typed
<1>6. KnownInv'
  BY <1>0, <1>2, KnownFrame DEF KnownInv
<1>7. ReceiptInv'
  <2>1. \A w \in Writer : wr'.call[w].answer = "yes" => Stored(wr'.call[w].msg)
    BY <1>0, <1>1, <1>3 DEF ReceiptInv, Writer
  <2> QED
    BY <1>0, <1>2, <2>1, ReceiptFrame DEF ReceiptInv
<1>8. LoopInv'
  BY <1>0, <1>1, <1>2, <1>3, LoopFrame DEF Typed, Disk, Rows
<1>9. CloseInv'
  BY <1>0, <1>2, <1>4 DEF CloseInv
<1>10. OverInv' /\ AliveInv'
  BY <1>0, <1>2, OverFrame DEF AliveInv
<1> QED
  BY <1>5, <1>6, <1>7, <1>8, <1>9, <1>10 DEF AccInv

\* A receipt answers the write whose message it names.
LEMMA KeepsDeliver ==
  ASSUME AccInv, Deliver PROVE AccInv'
<1>0. Typed /\ KnownInv /\ ReceiptInv /\ LoopInv /\ CloseInv /\ OverInv /\ AliveInv
  BY DEF AccInv
<1>1. /\ net.down \in Seq(Answer) /\ net.down # << >>
      /\ Tail(net.down) \in Seq(Answer) /\ Head(net.down) \in Answer
      /\ Head(net.down) = net.down[1] /\ 1 \in 1..Len(net.down)
      /\ \A i \in 1..Len(Tail(net.down)) :
            i + 1 \in 1..Len(net.down) /\ Tail(net.down)[i] = net.down[i + 1]
  <2>1. net.down \in Seq(Answer) /\ net.down # << >>
    BY <1>0, SeqFields DEF Deliver
  <2>2. Len(net.down) \in Nat \ {0}
    BY <2>1, HeadTaken
  <2> QED
    BY <2>1, <2>2, HeadTaken
<1>2. PICK r \in Answer : r = Head(net.down)
  BY <1>1
<1>3. /\ alive /\ net' = [net EXCEPT !.down = Tail(net.down)]
      /\ UNCHANGED <<prod, col, host, disk, alive, faults, persisted>>
      /\ \/ fin' = DrainAsked /\ UNCHANGED wr
         \/ /\ wr' = [wr EXCEPT !.call = [w \in Writer |->
                        IF Waiting(w) /\ wr.call[w].answer = "none" /\ wr.call[w].msg = r.id
                        THEN [wr.call[w] EXCEPT !.answer = IF r.ok THEN "yes" ELSE "no"]
                        ELSE wr.call[w]]]
            /\ UNCHANGED fin
  BY <1>0, <1>2 DEF Deliver, Up, Typed, Network, Writing
<1>4. net' \in Network /\ net'.up = net.up /\ net'.down = Tail(net.down)
  BY <1>0, <1>1, <1>3 DEF Typed, Network
<1>5. /\ wr' \in Writing
      /\ \A w \in Writer : /\ wr'.call[w].msg = wr.call[w].msg
                           /\ \/ wr'.call[w].answer = wr.call[w].answer
                              \/ wr'.call[w].answer = "no"
                              \/ wr'.call[w].answer = "yes" /\ r.ok /\ wr.call[w].msg = r.id
  <2> DEFINE calls == [w \in Writer |->
                        IF Waiting(w) /\ wr.call[w].answer = "none" /\ wr.call[w].msg = r.id
                        THEN [wr.call[w] EXCEPT !.answer = IF r.ok THEN "yes" ELSE "no"]
                        ELSE wr.call[w]]
  <2>1. wr \in Writing /\ \A w \in Writer : wr.call[w] \in Call
    BY <1>0 DEF Typed, Writing
  <2>2. ASSUME NEW w \in Writer
        PROVE /\ calls[w] \in Call /\ calls[w].msg = wr.call[w].msg
              /\ \/ calls[w].answer = wr.call[w].answer
                 \/ calls[w].answer = "no"
                 \/ calls[w].answer = "yes" /\ r.ok /\ wr.call[w].msg = r.id
    <3>1. \A c \in Call : \A x \in {"yes", "no"} :
             LET d == [c EXCEPT !.answer = x] IN d \in Call /\ d.msg = c.msg /\ d.answer = x
      BY DEF Call
    <3>2. calls[w] = IF Waiting(w) /\ wr.call[w].answer = "none" /\ wr.call[w].msg = r.id
                        THEN [wr.call[w] EXCEPT !.answer = IF r.ok THEN "yes" ELSE "no"]
                        ELSE wr.call[w]
      OBVIOUS
    <3> HIDE DEF calls
    <3>3. CASE Waiting(w) /\ wr.call[w].answer = "none" /\ wr.call[w].msg = r.id
      <4>1. PICK x \in {"yes", "no"} : x = IF r.ok THEN "yes" ELSE "no"
        OBVIOUS
      <4>2. calls[w] = [wr.call[w] EXCEPT !.answer = x] /\ (x = "yes" => r.ok)
        BY <3>2, <3>3, <4>1
      <4>3. PICK c \in Call : c = wr.call[w]
        BY <2>1
      <4>4. PICK d \in Call : d = [c EXCEPT !.answer = x] /\ d.msg = c.msg /\ d.answer = x
        BY <3>1
      <4>5. calls[w] = d
        BY <4>2, <4>3, <4>4
      <4> QED
        BY <3>3, <4>2, <4>3, <4>4, <4>5
    <3>4. CASE ~(Waiting(w) /\ wr.call[w].answer = "none" /\ wr.call[w].msg = r.id)
      BY <2>1, <3>2, <3>4
    <3> QED
      BY <3>3, <3>4
  <2>3. calls \in [Writer -> Call]
    BY <2>2
  <2>4. CASE UNCHANGED wr
    BY <2>1, <2>4
  <2>5. CASE wr' = [wr EXCEPT !.call = calls]
    <3>1. wr' \in Writing /\ wr'.call = calls
      <4> HIDE DEF calls
      <4> QED
        BY <2>1, <2>3, <2>5 DEF Writing
    <3> QED
      BY <2>2, <3>1
  <2> QED
    BY <1>3, <2>4, <2>5
<1>6. /\ fin' \in Closing /\ fin'.err = fin.err
      /\ \/ fin' = fin
         \/ /\ fin'.ask = "wait" /\ fin'.at # "open"
            /\ \/ fin'.at = fin.at
               \/ fin.at = "open" /\ fin'.at = "producers"
  <2>1. fin \in Closing
    BY <1>0 DEF Typed
  <2>2. CASE fin' = DrainAsked
    BY <2>1, <2>2 DEF DrainAsked, Closing
  <2> QED
    BY <1>3, <2>1, <2>2
<1>7. Typed'
  BY <1>0, <1>3, <1>4, <1>5, <1>6 DEF Typed
<1>8. KnownInv'
  BY <1>0, <1>3, <1>4, KnownFrame DEF KnownInv
<1>9. ReceiptInv'
  <2>1. \A i \in 1..Len(net'.down) : net'.down[i].ok => Stored(net'.down[i].id)
    BY <1>0, <1>1, <1>4 DEF ReceiptInv
  <2>2. r.ok => Stored(r.id)
    BY <1>0, <1>1, <1>2 DEF ReceiptInv
  <2>3. ASSUME NEW w \in Writer, wr'.call[w].answer = "yes" PROVE Stored(wr'.call[w].msg)
    BY <1>0, <1>5, <2>2, <2>3 DEF ReceiptInv
  <2> QED
    BY <1>0, <1>3, <2>1, <2>3, ReceiptFrame
<1>10. LoopInv'
  <2>1. "loop" \in Writer
    BY DEF Writer
  <2>2. \A a \in Attempt : disk'.row[a].rev >= disk.row[a].rev
    BY <1>0, <1>3 DEF Typed, Disk, Rows
  <2> QED
    BY <1>0, <1>3, <1>5, <2>1, <2>2, LoopFrame DEF Typed
<1>11. CloseInv'
  <2>1. wr'.call["drain"].msg = wr.call["drain"].msg
    BY <1>5 DEF Writer
  <2>2. CASE fin' = fin
    BY <1>0, <1>3, <1>4, <2>1, <2>2, CloseFrame
  <2>3. CASE fin'.ask = "wait" /\ fin'.at # "open"
             /\ (fin'.at = fin.at \/ (fin.at = "open" /\ fin'.at = "producers"))
    BY <1>0, <1>3, <1>4, <1>6, <2>3 DEF CloseInv
  <2> QED
    BY <1>6, <2>2, <2>3
<1>12. OverInv' /\ AliveInv'
  BY <1>0, <1>3, <1>4, OverFrame DEF AliveInv
<1> QED
  BY <1>7, <1>8, <1>9, <1>10, <1>11, <1>12 DEF AccInv

-----------------------------------------------------------------------------
(* The host                                                                *)

\* The rows and the mark only grow, so a receipt stays true.
LEMMA StoredStays ==
  ASSUME Typed, disk' \in Disk, \A a \in Attempt : disk'.row[a].rev >= disk.row[a].rev,
         host.marked => host'.marked, NEW m \in Message, Stored(m)
  PROVE Stored(m)'
<1>1. \A a \in Attempt : disk.row[a].rev \in Nat /\ disk'.row[a].rev \in Nat
  BY DEF Typed, Disk, Rows
<1>2. ASSUME NEW i \in 1..Len(m.obs) PROVE disk'.row[m.obs[i].id].rev >= m.obs[i].rev
  <2>1. m.obs[i] \in Snapshot
    BY MessageFields
  <2>2. m.obs[i].id \in Attempt /\ m.obs[i].rev \in Nat
    BY <2>1 DEF Snapshot
  <2>3. disk.row[m.obs[i].id].rev >= m.obs[i].rev
    BY DEF Stored
  <2> QED
    BY <1>1, <2>2, <2>3, SMTT(30)
<1> QED
  BY <1>2 DEF Stored

\* A receipt that is new is true, and the others stay true.
LEMMA ReceiptStep ==
  ASSUME AccInv, disk' \in Disk, \A a \in Attempt : disk'.row[a].rev >= disk.row[a].rev,
         host.marked => host'.marked,
         \A w \in Writer : wr'.call[w].answer = "yes" =>
            wr.call[w].answer = "yes" /\ wr'.call[w].msg = wr.call[w].msg,
         \A i \in 1..Len(net'.down) : net'.down[i].ok =>
            \/ \E j \in 1..Len(net.down) : net'.down[i] = net.down[j]
            \/ \E m \in Message : net'.down[i].id = m /\ Stored(m)',
         \A i \in 1..Len(disk'.inbox) : disk'.inbox[i].waited =>
            i = Len(disk'.inbox) /\ host'.at = "commit" /\ host'.msg = disk'.inbox[i].msg,
         host'.at = "commit" => (host'.msg.bad => host'.marked)
  PROVE ReceiptInv'
<1>0. Typed /\ ReceiptInv
  BY DEF AccInv
<1>1. ASSUME NEW m \in Message, Stored(m) PROVE Stored(m)'
  BY <1>0, <1>1, StoredStays
<1>2. ASSUME NEW w \in Writer, wr'.call[w].answer = "yes"
      PROVE \E m \in Message : wr'.call[w].msg = m /\ Stored(m)'
  <2>1. wr.call[w].msg \in Message
    BY <1>0 DEF Typed, Writing, Call
  <2>2. Stored(wr.call[w].msg) /\ wr'.call[w].msg = wr.call[w].msg
    BY <1>0, <1>2 DEF ReceiptInv
  <2> QED
    BY <1>1, <2>1, <2>2
<1>3. ASSUME NEW i \in 1..Len(net'.down), net'.down[i].ok
      PROVE \E m \in Message : net'.down[i].id = m /\ Stored(m)'
  <2>1. ASSUME NEW j \in 1..Len(net.down), net'.down[i] = net.down[j]
        PROVE \E m \in Message : net'.down[i].id = m /\ Stored(m)'
    <3>1. net.down[j].id \in Message /\ Stored(net.down[j].id)
      BY <1>0, <1>3, <2>1, OnTheWay DEF ReceiptInv
    <3> QED
      BY <1>1, <2>1, <3>1
  <2> QED
    BY <1>3, <2>1
<1>4. \A w \in Writer : (wr.call[w].answer = "yes" => Stored(wr.call[w].msg))'
  BY <1>2 DEF Stored
<1>5. \A i \in 1..Len(net'.down) : (net.down[i].ok => Stored(net.down[i].id))'
  BY <1>3 DEF Stored
<1> QED
  BY <1>4, <1>5 DEF ReceiptInv

\* The messages stay admitted when nobody waits for them.
LEMMA GivenUp ==
  ASSUME Typed, GiveUp
  PROVE /\ disk' \in Disk /\ disk'.row = disk.row /\ Len(disk'.inbox) = Len(disk.inbox)
        /\ \A i \in 1..Len(disk'.inbox) : /\ disk'.inbox[i].msg = disk.inbox[i].msg
                                          /\ ~disk'.inbox[i].waited
<1>1. disk \in Disk /\ disk.inbox \in Seq(Entry)
  BY DEF Typed, Disk
<1> DEFINE inbox == [i \in DOMAIN disk.inbox |-> [disk.inbox[i] EXCEPT !.waited = FALSE]]
<1>2. \A e \in Entry : LET f == [e EXCEPT !.waited = FALSE] IN
        f \in Entry /\ f.msg = e.msg /\ f.waited = FALSE
  BY DEF Entry
<1>3. DOMAIN disk.inbox = 1..Len(disk.inbox) /\ Len(disk.inbox) \in Nat
      /\ \A i \in 1..Len(disk.inbox) : disk.inbox[i] \in Entry
  BY <1>1
<1>4. \A i \in 1..Len(disk.inbox) :
        inbox[i] \in Entry /\ inbox[i].msg = disk.inbox[i].msg /\ ~inbox[i].waited
  BY <1>2, <1>3
<1>5. inbox \in Seq(Entry) /\ Len(inbox) = Len(disk.inbox)
  <2>1. inbox \in [1..Len(disk.inbox) -> Entry]
    BY <1>3, <1>4
  <2>2. DOMAIN inbox = 1..Len(disk.inbox)
    BY <1>3
  <2> HIDE DEF inbox
  <2> QED
    BY <1>3, <2>1, <2>2
<1>6. disk' = [disk EXCEPT !.inbox = inbox]
  BY <1>1 DEF GiveUp, Disk
<1> HIDE DEF inbox
<1> QED
  BY <1>1, <1>4, <1>5, <1>6 DEF Disk

\* The process is gone: nothing of it is on its way any more.
LEMMA RetireKeeps ==
  ASSUME AccInv, Retire, disk' \in Disk, disk'.row = disk.row, persisted' = persisted,
         \A i \in 1..Len(disk'.inbox) : AllKnown(disk'.inbox[i].msg.obs)
  PROVE /\ prod' \in Producers /\ col' \in Collector /\ fin' \in Closing /\ wr' \in Writing
        /\ net' \in Network /\ net'.down = << >> /\ net'.up = << >> /\ alive' = FALSE
        /\ prod'.rev = prod.rev
        /\ \A w \in Writer : wr'.call[w].answer = "none"
        /\ KnownInv' /\ LoopInv' /\ CloseInv' /\ AliveInv'
<1>0. Typed /\ KnownInv /\ ReceiptInv /\ LoopInv /\ CloseInv /\ OverInv /\ AliveInv
  BY DEF AccInv
<1>1. /\ prod' \in Producers /\ prod'.rev = prod.rev /\ prod'.over = prod.over
      /\ prod'.unsent = {} /\ prod'.live = FALSE
  BY <1>0 DEF Retire, Typed, Producers
<1>2. << >> \in Seq(Snapshot) /\ << >> \in Seq(Message) /\ << >> \in Seq(Answer)
  OBVIOUS
<1>3. /\ col' \in Collector /\ col'.queue = << >> /\ col'.batch = << >> /\ col'.at = "tick"
  BY <1>2, AccountingAssumption DEF Retire, NewCollector, Collector
<1>4. fin' \in Closing /\ fin'.at = "open" /\ fin'.ask = "none"
  BY DEF Retire, NotClosing, Closing
<1>5. wr' \in Writing /\ \A w \in Writer : wr'.call[w].answer = "none"
  BY CallType DEF Retire, NewWriter, Writing
<1>6. net' \in Network /\ net'.up = << >> /\ net'.down = << >>
  BY <1>0, <1>2 DEF Retire, Cut, Typed, Network
<1>7. alive' = FALSE
  BY DEF Retire
<1>8. KnownInv'
  BY <1>0, <1>1, <1>3, <1>6, KnownDisk DEF AllKnown
<1>9. LoopInv'
  BY <1>0, <1>3, <1>7 DEF LoopInv
<1>10. CloseInv' /\ AliveInv'
  BY <1>1, <1>3, <1>4, <1>6 DEF CloseInv, AliveInv
<1> QED
  BY <1>1, <1>3, <1>4, <1>5, <1>6, <1>7, <1>8, <1>9, <1>10

\* A killed process leaves its revisions behind, and the rows.
LEMMA KeepsKill ==
  ASSUME AccInv, Kill PROVE AccInv'
<1>0. Typed /\ KnownInv /\ ReceiptInv /\ LoopInv /\ CloseInv /\ OverInv /\ AliveInv
  BY DEF AccInv
<1>1. alive /\ Retire /\ UNCHANGED <<host, disk, faults, persisted>>
  BY DEF Kill
<1>2. disk' \in Disk /\ disk'.row = disk.row
      /\ \A i \in 1..Len(disk'.inbox) : AllKnown(disk'.inbox[i].msg.obs)
  BY <1>0, <1>1 DEF Typed, KnownInv
<1>3. /\ prod' \in Producers /\ col' \in Collector /\ fin' \in Closing /\ wr' \in Writing
      /\ net' \in Network /\ net'.down = << >> /\ net'.up = << >> /\ alive' = FALSE
      /\ prod'.rev = prod.rev
      /\ \A w \in Writer : wr'.call[w].answer = "none"
      /\ KnownInv' /\ LoopInv' /\ CloseInv' /\ AliveInv'
  BY <1>1, <1>2, RetireKeeps
<1>4. Typed'
  BY <1>0, <1>1, <1>3 DEF Typed
<1>5. ReceiptInv'
  BY <1>0, <1>1, <1>3, ReceiptFrame
<1>6. OverInv'
  BY <1>0, <1>1 DEF OverInv
<1> QED
  BY <1>3, <1>4, <1>5, <1>6 DEF AccInv

\* What was on its way is lost, and with it its receipts.
LEMMA KeepsBreak ==
  ASSUME AccInv, Break PROVE AccInv'
<1>0. Typed /\ KnownInv /\ ReceiptInv /\ LoopInv /\ CloseInv /\ OverInv /\ AliveInv
  BY DEF AccInv
<1>1. Cut /\ UNCHANGED <<prod, col, fin, wr, host, disk, alive, faults, persisted>>
  BY DEF Break
<1>2. net' \in Network /\ net'.up = << >> /\ net'.down = << >>
  <2>1. << >> \in Seq(Message) /\ << >> \in Seq(Answer)
    OBVIOUS
  <2> QED
    BY <1>0, <1>1, <2>1 DEF Cut, Typed, Network
<1>3. Typed'
  BY <1>0, <1>1, <1>2 DEF Typed
<1>4. KnownInv'
  BY <1>0, <1>1, <1>2, KnownFrame DEF KnownInv
<1>5. ReceiptInv'
  BY <1>0, <1>1, <1>2, ReceiptFrame DEF ReceiptInv
<1>6. LoopInv'
  BY <1>0, <1>1, LoopFrame DEF Typed, Disk, Rows
<1>7. CloseInv'
  BY <1>0, <1>1, <1>2, CloseFrame
<1>8. OverInv' /\ AliveInv'
  BY <1>0, <1>1, <1>2, OverFrame DEF AliveInv
<1> QED
  BY <1>3, <1>4, <1>5, <1>6, <1>7, <1>8 DEF AccInv

\* A new stream starts with nothing on its way.
LEMMA KeepsConnect ==
  ASSUME AccInv, Connect PROVE AccInv'
<1>0. Typed /\ KnownInv /\ ReceiptInv /\ LoopInv /\ CloseInv /\ OverInv /\ AliveInv
  BY DEF AccInv
<1>1. net.n \in Nat /\ net.n + 1 \in Nat /\ << >> \in Seq(Message) /\ << >> \in Seq(Answer)
  BY <1>0 DEF Typed, Network
<1>2. /\ host.at = "connect" /\ alive /\ host' = [host EXCEPT !.at = "receive"]
      /\ wr' = [wr EXCEPT !.link = net.n + 1]
      /\ UNCHANGED <<prod, col, fin, disk, alive, faults, persisted>>
  BY <1>0 DEF Connect, Typed, Writing
<1>3. net' \in Network /\ net'.up = << >> /\ net'.down = << >>
  BY <1>1 DEF Connect, Network
<1>4. wr' \in Writing /\ wr'.call = wr.call
  BY <1>0, <1>1, <1>2 DEF Typed, Writing
<1>5. /\ host' \in HostSession /\ host'.at = "receive" /\ host'.msg = host.msg
      /\ host'.marked = host.marked
  BY <1>0, <1>2 DEF Typed, HostSession
<1>6. Typed'
  BY <1>0, <1>2, <1>3, <1>4, <1>5 DEF Typed
<1>7. KnownInv'
  BY <1>0, <1>2, <1>3, KnownFrame DEF KnownInv
<1>8. ReceiptInv'
  <2>1. disk' \in Disk /\ \A a \in Attempt : disk'.row[a].rev >= disk.row[a].rev
    BY <1>0, <1>2 DEF Typed, Disk, Rows
  <2>2. \A i \in 1..Len(disk'.inbox) : ~disk'.inbox[i].waited
    BY <1>0, <1>2 DEF ReceiptInv
  <2> QED
    BY <1>3, <1>4, <1>5, <2>1, <2>2, ReceiptStep
<1>9. LoopInv'
  BY <1>0, <1>2, <1>4, LoopFrame DEF Typed, Disk, Rows
<1>10. CloseInv'
  BY <1>0, <1>2, <1>3, <1>4, <1>5, CloseFrame
<1>11. OverInv' /\ AliveInv'
  BY <1>0, <1>2, <1>5 DEF OverInv, AliveInv
<1> QED
  BY <1>6, <1>7, <1>8, <1>9, <1>10, <1>11 DEF AccInv

\* A drain that is asked for changes nothing yet.
LEMMA KeepsRequestDrain ==
  ASSUME AccInv, RequestDrain PROVE AccInv'
<1>0. Typed /\ KnownInv /\ ReceiptInv /\ LoopInv /\ CloseInv /\ OverInv /\ AliveInv
  BY DEF AccInv
<1>1. /\ host' \in HostSession /\ host'.at = host.at /\ host'.msg = host.msg
      /\ host'.marked = host.marked
  BY <1>0 DEF RequestDrain, Typed, HostSession
<1>2. UNCHANGED <<prod, col, fin, wr, net, disk, alive, faults, persisted>>
  BY DEF RequestDrain
<1>3. Typed'
  BY <1>0, <1>1, <1>2 DEF Typed
<1>4. KnownInv'
  BY <1>0, <1>2, KnownFrame DEF KnownInv
<1>5. ReceiptInv'
  BY <1>0, <1>1, <1>2 DEF ReceiptInv, Stored
<1>6. LoopInv'
  BY <1>0, <1>2, LoopFrame DEF Typed, Disk, Rows
<1>7. CloseInv'
  BY <1>0, <1>1, <1>2, CloseFrame
<1>8. OverInv' /\ AliveInv'
  BY <1>0, <1>1, <1>2, OverFrame DEF AliveInv
<1> QED
  BY <1>3, <1>4, <1>5, <1>6, <1>7, <1>8 DEF AccInv

\* The request is no receipt.
LEMMA KeepsSendDrain ==
  ASSUME AccInv, SendDrain PROVE AccInv'
<1>0. Typed /\ KnownInv /\ ReceiptInv /\ LoopInv /\ CloseInv /\ OverInv /\ AliveInv
  BY DEF AccInv
<1>1. /\ host' \in HostSession /\ host'.at = host.at /\ host'.msg = host.msg
      /\ host'.marked = host.marked
  BY <1>0 DEF SendDrain, Typed, HostSession
<1>2. /\ net' = [net EXCEPT !.down = Append(net.down, Drain)]
      /\ UNCHANGED <<prod, col, fin, wr, disk, alive, faults, persisted>>
  BY <1>0 DEF SendDrain, Typed, Network
<1>3. Drain \in Answer /\ ~Drain.ok
  BY MessageTypes DEF Drain, Receipt, Answer
<1>4. net.down \in Seq(Answer)
  BY <1>0, SeqFields
<1>5. /\ Append(net.down, Drain) \in Seq(Answer)
      /\ \A i \in 1..Len(Append(net.down, Drain)) :
            \/ i \in 1..Len(net.down) /\ Append(net.down, Drain)[i] = net.down[i]
            \/ Append(net.down, Drain)[i] = Drain
  BY <1>3, <1>4
<1>6. net' \in Network /\ net'.up = net.up /\ net'.down = Append(net.down, Drain)
  BY <1>0, <1>2, <1>5 DEF Typed, Network
<1>7. Typed'
  BY <1>0, <1>1, <1>2, <1>6 DEF Typed
<1>8. KnownInv'
  BY <1>0, <1>2, <1>6, KnownFrame DEF KnownInv
<1>9. ReceiptInv'
  <2>1. disk' \in Disk /\ \A a \in Attempt : disk'.row[a].rev >= disk.row[a].rev
    BY <1>0, <1>2 DEF Typed, Disk, Rows
  <2>2. \A i \in 1..Len(net'.down) : net'.down[i].ok =>
            \E j \in 1..Len(net.down) : net'.down[i] = net.down[j]
    BY <1>3, <1>5, <1>6
  <2>3. \A i \in 1..Len(disk'.inbox) : disk'.inbox[i].waited =>
            i = Len(disk'.inbox) /\ host'.at = "commit" /\ host'.msg = disk'.inbox[i].msg
    BY <1>0, <1>1, <1>2 DEF ReceiptInv
  <2>4. host'.at = "commit" => (host'.msg.bad => host'.marked)
    BY <1>0, <1>1 DEF ReceiptInv
  <2> QED
    BY <1>1, <1>2, <2>1, <2>2, <2>3, <2>4, ReceiptStep
<1>10. LoopInv'
  BY <1>0, <1>2, LoopFrame DEF Typed, Disk, Rows
<1>11. CloseInv'
  BY <1>0, <1>1, <1>2, <1>6, CloseFrame
<1>12. OverInv' /\ AliveInv'
  BY <1>0, <1>1, <1>2, <1>6, OverFrame DEF AliveInv
<1> QED
  BY <1>7, <1>8, <1>9, <1>10, <1>11, <1>12 DEF AccInv

\* Nothing is lost that the collector has, has written or has admitted to be lost.
LEMMA ClosedIsComplete ==
  ASSUME AccInv, alive, fin.at = "closed", ~fin.err, ~col.bad PROVE Complete
<1>0. Typed /\ KnownInv /\ LoopInv /\ CloseInv
  BY DEF AccInv
<1>1. prod.unsent = {} /\ col.queue = << >> /\ col.batch = << >>
  BY <1>0 DEF CloseInv
<1>2. ASSUME NEW a \in Attempt PROVE disk.row[a].rev = prod.rev[a]
  <2>1. /\ disk.row[a].rev \in Nat /\ prod.rev[a] \in Nat /\ disk.row[a].rev <= prod.rev[a]
    BY <1>0, AccountingAssumption DEF Typed, Disk, Rows, Producers, KnownInv, RowKnown
  <2>2. CASE prod.rev[a] > 0
    <3>1. Held(a)
      BY <1>0, <2>2 DEF LoopInv
    <3>2. \E s \in persisted : Latest(a, s)
      BY <1>1, <3>1 DEF Held
    <3>3. disk.row[a].rev >= prod.rev[a]
      BY <1>0, <3>2 DEF LoopInv, Latest
    <3> QED
      BY <2>1, <3>3
  <2>3. CASE prod.rev[a] = 0
    BY <2>1, <2>3
  <2> QED
    BY <2>1, <2>2, <2>3
<1> QED
  BY <1>2 DEF Complete

\* A session that ends with a result without an error is complete or marked.
LEMMA KeepsReceiveResult ==
  ASSUME AccInv, ReceiveResult PROVE AccInv'
<1>0. Typed /\ KnownInv /\ ReceiptInv /\ LoopInv /\ CloseInv /\ OverInv /\ AliveInv
  BY DEF AccInv
<1>1. net.up \in Seq(Message) /\ net.up # << >> /\ Len(net.up) \in Nat \ {0}
  BY <1>0, SeqFields, HeadTaken DEF ReceiveResult
<1>2. PICK m \in Message : m = Head(net.up) /\ m = net.up[1] /\ 1 \in 1..Len(net.up)
  BY <1>1, HeadTaken
<1>3. /\ host.at = "receive" /\ m.kind = "result" /\ Retire
      /\ host' = [host EXCEPT !.at = "over", !.marked = host.marked \/ m.bad]
      /\ UNCHANGED <<disk, faults, persisted>>
  BY <1>0, <1>2 DEF ReceiveResult, Typed, HostSession
<1>4. (host.marked \/ m.bad) \in BOOLEAN
  BY <1>0 DEF Typed, HostSession, Message
<1>5. /\ host' \in HostSession /\ host'.at = "over" /\ host'.marked = (host.marked \/ m.bad)
  BY <1>0, <1>3, <1>4 DEF Typed, HostSession
<1>6. disk' \in Disk /\ disk'.row = disk.row
      /\ \A i \in 1..Len(disk'.inbox) : AllKnown(disk'.inbox[i].msg.obs)
  BY <1>0, <1>3 DEF Typed, KnownInv
<1>7. /\ prod' \in Producers /\ col' \in Collector /\ fin' \in Closing /\ wr' \in Writing
      /\ net' \in Network /\ net'.down = << >> /\ net'.up = << >> /\ alive' = FALSE
      /\ prod'.rev = prod.rev
      /\ \A w \in Writer : wr'.call[w].answer = "none"
      /\ KnownInv' /\ LoopInv' /\ CloseInv' /\ AliveInv'
  BY <1>3, <1>6, RetireKeeps
<1>8. Typed'
  BY <1>0, <1>3, <1>5, <1>7 DEF Typed
<1>9. ReceiptInv'
  <2>1. \A i \in 1..Len(disk'.inbox) : ~disk'.inbox[i].waited
    BY <1>0, <1>3 DEF ReceiptInv
  <2> QED
    BY <1>5, <1>7, <2>1 DEF ReceiptInv
<1>10. OverInv'
  <2>1. ASSUME ~host'.marked PROVE Complete
    <3>1. fin.at = "closed" /\ ~fin.err /\ ~col.bad
      BY <1>0, <1>2, <1>3, <1>5, <2>1 DEF CloseInv
    <3>2. alive
      BY <1>0, <1>1 DEF AliveInv
    <3> QED
      BY <3>1, <3>2, ClosedIsComplete
  <2> QED
    BY <1>3, <1>7, <2>1 DEF OverInv, Complete
<1> QED
  BY <1>7, <1>8, <1>9, <1>10 DEF AccInv

\* A session that is given up is marked.
LEMMA KeepsBudget ==
  ASSUME AccInv, Budget PROVE AccInv'
<1>0. Typed /\ KnownInv /\ ReceiptInv /\ LoopInv /\ CloseInv /\ OverInv /\ AliveInv
  BY DEF AccInv
<1>1. /\ GiveUp /\ Retire /\ UNCHANGED <<faults, persisted>>
      /\ host' = [host EXCEPT !.at = "over", !.marked = TRUE]
  BY DEF Budget
<1>2. host' \in HostSession /\ host'.at = "over" /\ host'.marked = TRUE
  BY <1>0, <1>1 DEF Typed, HostSession
<1>3. /\ disk' \in Disk /\ disk'.row = disk.row /\ Len(disk'.inbox) = Len(disk.inbox)
      /\ \A i \in 1..Len(disk'.inbox) : /\ disk'.inbox[i].msg = disk.inbox[i].msg
                                        /\ ~disk'.inbox[i].waited
  BY <1>0, <1>1, GivenUp
<1>4. \A i \in 1..Len(disk'.inbox) : AllKnown(disk'.inbox[i].msg.obs)
  BY <1>0, <1>3 DEF KnownInv
<1>5. /\ prod' \in Producers /\ col' \in Collector /\ fin' \in Closing /\ wr' \in Writing
      /\ net' \in Network /\ net'.down = << >> /\ net'.up = << >> /\ alive' = FALSE
      /\ prod'.rev = prod.rev
      /\ \A w \in Writer : wr'.call[w].answer = "none"
      /\ KnownInv' /\ LoopInv' /\ CloseInv' /\ AliveInv'
  BY <1>1, <1>3, <1>4, RetireKeeps
<1>6. Typed'
  BY <1>0, <1>1, <1>2, <1>3, <1>5 DEF Typed
<1>7. ReceiptInv'
  BY <1>2, <1>3, <1>5 DEF ReceiptInv
<1>8. OverInv'
  BY <1>2, <1>5 DEF OverInv
<1> QED
  BY <1>5, <1>6, <1>7, <1>8 DEF AccInv

\* A session whose worker is gone is marked.
LEMMA KeepsStreamLost ==
  ASSUME AccInv, StreamLost PROVE AccInv'
<1>0. Typed /\ KnownInv /\ ReceiptInv /\ LoopInv /\ CloseInv /\ OverInv /\ AliveInv
  BY DEF AccInv
<1>1. UNCHANGED <<prod, col, fin, wr, net, disk, alive, faults, persisted>>
  BY DEF StreamLost
<1>2. /\ host' \in HostSession /\ host.at # "commit" /\ host'.at # "commit"
      /\ host'.marked = host.marked \/ host'.marked = TRUE
      /\ host'.at = "over" => ~alive /\ host'.marked = TRUE
  BY <1>0 DEF StreamLost, Typed, HostSession
<1>3. Typed'
  BY <1>0, <1>1, <1>2 DEF Typed
<1>4. KnownInv'
  BY <1>0, <1>1, KnownFrame DEF KnownInv
<1>5. ReceiptInv'
  <2>1. disk' \in Disk /\ \A a \in Attempt : disk'.row[a].rev >= disk.row[a].rev
    BY <1>0, <1>1 DEF Typed, Disk, Rows
  <2>2. \A i \in 1..Len(disk'.inbox) : ~disk'.inbox[i].waited
    BY <1>0, <1>1, <1>2 DEF ReceiptInv
  <2> QED
    BY <1>1, <1>2, <2>1, <2>2, ReceiptStep
<1>6. LoopInv'
  BY <1>0, <1>1, LoopFrame DEF Typed, Disk, Rows
<1>7. CloseInv'
  BY <1>0, <1>1, <1>2, CloseFrame
<1>8. OverInv' /\ AliveInv'
  BY <1>0, <1>1, <1>2 DEF OverInv, AliveInv
<1> QED
  BY <1>3, <1>4, <1>5, <1>6, <1>7, <1>8 DEF AccInv

-----------------------------------------------------------------------------
(* The rows of the database                                                *)

\* Induction over the numbers, for a set of them.
LEMMA NatSets ==
  ASSUME NEW S \in SUBSET Nat, 0 \in S, \A n \in S : n + 1 \in S PROVE S = Nat
<1> DEFINE R == {p \in Nat \X Nat : p[1] < p[2]}
           T == Nat \ S
<1>1. IsWellFoundedOn(R, Nat)
  <2>1. R = OpToRel(<, Nat)
    BY DEF OpToRel
  <2> QED BY <2>1, NatLessThanWellFounded
<1>2. ASSUME T # {} PROVE FALSE
  <2>1. PICK x \in T : \A y \in T : ~(<<y, x>> \in R)
     <3> HIDE DEF R
     <3> QED BY <1>1, <1>2, WFMin
  <2>2. x \in Nat /\ x # 0 /\ x - 1 \in Nat /\ (x - 1) + 1 = x
    OBVIOUS
  <2>3. <<x - 1, x>> \in R
    BY <2>2
  <2>4. x - 1 \in S
    BY <2>1, <2>2, <2>3
  <2> QED BY <2>2, <2>4
<1> QED BY <1>2

\* One row: no revision is taken back, and a known snapshot is never refused wrongly.
LEMMA UpsertOne ==
  ASSUME prod \in Producers, NEW r \in Rows, NEW o \in Snapshot,
         \A a \in Attempt : RowKnown(r, a), Known(o)
  PROVE /\ Upsert(r, o) \in Rows
        /\ \A a \in Attempt : Upsert(r, o)[a].rev >= r[a].rev
        /\ \A a \in Attempt : RowKnown(Upsert(r, o), a)
        /\ Upsert(r, o)[o.id].rev >= o.rev
<1>1. /\ o.id \in Attempt /\ o.rev \in 1..MaxRevision /\ o.final \in BOOLEAN /\ o.rev \in Nat
      /\ \A a \in Attempt : r[a] \in [rev : 0..MaxRevision, final : BOOLEAN] /\ r[a].rev \in Nat
                            /\ prod.rev[a] \in Nat
  BY AccountingAssumption DEF Snapshot, Rows, Producers
<1>2. CASE o.rev > r[o.id].rev /\ (o.final \/ ~r[o.id].final)
  <2> DEFINE e == [rev |-> o.rev, final |-> o.final]
  <2>1. e \in [rev : 0..MaxRevision, final : BOOLEAN] /\ e.rev = o.rev /\ e.final = o.final
    BY <1>1, AccountingAssumption
  <2>2. Upsert(r, o) = [r EXCEPT ![o.id] = e]
    BY <1>2 DEF Upsert
  <2> HIDE DEF e
  <2>3. /\ Upsert(r, o) \in Rows /\ Upsert(r, o)[o.id] = e
        /\ \A a \in Attempt \ {o.id} : Upsert(r, o)[a] = r[a]
    BY <1>1, <2>1, <2>2 DEF Rows
  <2>4. RowKnown(Upsert(r, o), o.id)
    BY <2>1, <2>3 DEF RowKnown, Known
  <2>5. \A a \in Attempt \ {o.id} : RowKnown(Upsert(r, o), a)
    BY <2>3 DEF RowKnown
  <2> QED
    BY <1>1, <1>2, <2>1, <2>3, <2>4, <2>5
<1>3. CASE ~(o.rev > r[o.id].rev /\ (o.final \/ ~r[o.id].final))
  <2>1. Upsert(r, o) = r
    BY <1>3 DEF Upsert
  <2>2. r[o.id].rev >= o.rev
    BY <1>1, <1>3 DEF RowKnown, Known
  <2> QED
    BY <1>1, <2>1, <2>2
<1> QED
  BY <1>2, <1>3

\* The recursion of Upserted: its value exists, one row after the other.
LEMMA UpsertedSteps ==
  ASSUME NEW rows, NEW obs \in Seq(Snapshot)
  PROVE /\ Upserted(rows, obs)[0] = rows
        /\ \A n \in 1..Len(obs) : Upserted(rows, obs)[n] = Upsert(Upserted(rows, obs)[n - 1], obs[n])
<1> DEFINE N == Len(obs)
           Body(f, k) == [n \in 0..k |-> IF n = 0 THEN rows ELSE Upsert(f[n - 1], obs[n])]
           S == {k \in Nat : \E f : f = Body(f, k)}
<1>1. N \in Nat
  OBVIOUS
<1> HIDE DEF N
<1>2. 0 \in S
  <2>1. \A f : Body(f, 0) = [n \in 0..0 |-> rows]
    OBVIOUS
  <2> QED
    BY <2>1
<1>3. ASSUME NEW k \in S PROVE k + 1 \in S
  <2>1. k \in Nat /\ k + 1 \in Nat
    OBVIOUS
  <2>2. PICK f : f = Body(f, k)
    OBVIOUS
  <2> DEFINE g == [n \in 0..(k + 1) |-> IF n = 0 THEN rows ELSE Upsert(f[n - 1], obs[n])]
  <2>3. ASSUME NEW n \in 0..k PROVE g[n] = f[n]
    <3>1. n \in 0..(k + 1)
      BY <2>1
    <3>2. f[n] = IF n = 0 THEN rows ELSE Upsert(f[n - 1], obs[n])
      BY <2>2
    <3>3. g[n] = IF n = 0 THEN rows ELSE Upsert(f[n - 1], obs[n])
      BY <3>1
    <3> QED
      BY <3>2, <3>3
  <2>4. ASSUME NEW n \in 0..(k + 1), n # 0 PROVE f[n - 1] = g[n - 1]
    <3>1. n - 1 \in 0..k
      BY <2>1, <2>4
    <3> HIDE DEF g
    <3> QED
      BY <2>3, <3>1
  <2>5. g = Body(g, k + 1)
    <3> DEFINE h == Body(g, k + 1)
    <3>1. ASSUME NEW n \in 0..(k + 1) PROVE g[n] = h[n]
      <4>1. g[n] = IF n = 0 THEN rows ELSE Upsert(f[n - 1], obs[n])
        OBVIOUS
      <4>2. h[n] = IF n = 0 THEN rows ELSE Upsert(g[n - 1], obs[n])
        OBVIOUS
      <4> HIDE DEF g, h
      <4> QED
        BY <2>4, <4>1, <4>2
    <3>2. DOMAIN g = 0..(k + 1) /\ DOMAIN h = 0..(k + 1)
          /\ g = [n \in 0..(k + 1) |-> g[n]] /\ h = [n \in 0..(k + 1) |-> h[n]]
      OBVIOUS
    <3> HIDE DEF g, h
    <3>3. [n \in 0..(k + 1) |-> g[n]] = [n \in 0..(k + 1) |-> h[n]]
      BY <3>1
    <3>4. g = h
      BY <3>2, <3>3
    <3> QED
      BY <3>4 DEF h
  <2> QED
    BY <2>1, <2>5
<1>4. N \in S
  <2> HIDE DEF S
  <2>1. S \in SUBSET Nat
    BY DEF S
  <2> QED
    BY <1>1, <1>2, <1>3, <2>1, NatSets
<1> DEFINE F == CHOOSE f : f = Body(f, N)
<1>5. F = Body(F, N)
  BY <1>4
<1>6. Upserted(rows, obs) = F
  BY DEF Upserted, N
<1> HIDE DEF F
<1>7. F[0] = rows
  BY <1>1, <1>5
<1>8. ASSUME NEW n \in 1..N PROVE F[n] = Upsert(F[n - 1], obs[n])
  <2>1. n \in 0..N /\ n # 0
    BY <1>1
  <2> QED
    BY <1>5, <2>1
<1> QED
  BY <1>6, <1>7, <1>8 DEF N

\* The rows of a transaction: nothing is taken back, and what was written is there.
LEMMA UpsertMany ==
  ASSUME prod \in Producers, NEW rows \in Rows, NEW obs \in Seq(Snapshot),
         \A a \in Attempt : RowKnown(rows, a), AllKnown(obs), NEW n \in 0..Len(obs)
  PROVE LET r == Upserted(rows, obs)[n] IN
        /\ r \in Rows
        /\ \A a \in Attempt : r[a].rev >= rows[a].rev
        /\ \A a \in Attempt : RowKnown(r, a)
        /\ \A i \in 1..n : r[obs[i].id].rev >= obs[i].rev
<1> DEFINE U == Upserted(rows, obs)
           Good(k) == /\ U[k] \in Rows
                      /\ \A a \in Attempt : U[k][a].rev >= rows[a].rev
                      /\ \A a \in Attempt : RowKnown(U[k], a)
                      /\ \A i \in 1..k : U[k][obs[i].id].rev >= obs[i].rev
           S == {k \in Nat : k <= Len(obs) => Good(k)}
<1>1. Len(obs) \in Nat
  OBVIOUS
<1>2. /\ U[0] = rows
      /\ \A k \in 1..Len(obs) : U[k] = Upsert(U[k - 1], obs[k])
  BY UpsertedSteps
<1> HIDE DEF U
<1>3. \A r \in Rows : \A a \in Attempt : r[a].rev \in Nat
  BY DEF Rows
<1>4. Good(0)
  BY <1>2, <1>3
<1>5. ASSUME NEW k \in Nat, k + 1 <= Len(obs), Good(k) PROVE Good(k + 1)
  <2>1. k + 1 \in 1..Len(obs) /\ (k + 1) - 1 = k
    BY <1>1, <1>5
  <2>2. U[k + 1] = Upsert(U[k], obs[k + 1])
    BY <1>2, <2>1
  <2>3. PICK o \in Snapshot : o = obs[k + 1] /\ Known(o)
    BY <2>1 DEF AllKnown
  <2>4. PICK r \in Rows : r = U[k]
    BY <1>5
  <2>5. PICK q : q = U[k + 1]
    OBVIOUS
  <2>6. q = Upsert(r, o)
    BY <2>2, <2>3, <2>4, <2>5
  <2>7. \A a \in Attempt : RowKnown(r, a)
    BY <1>5, <2>4
  <2>8. /\ q \in Rows /\ \A a \in Attempt : q[a].rev >= r[a].rev
        /\ \A a \in Attempt : RowKnown(q, a)
        /\ q[o.id].rev >= o.rev
    BY <2>3, <2>6, <2>7, UpsertOne
  <2>9. \A a \in Attempt : q[a].rev >= rows[a].rev
    <3>1. \A a \in Attempt : r[a].rev >= rows[a].rev
      BY <1>5, <2>4
    <3> QED
      BY <1>3, <2>8, <3>1
  <2>10. ASSUME NEW i \in 1..(k + 1) PROVE q[obs[i].id].rev >= obs[i].rev
    <3>1. CASE i = k + 1
      BY <2>3, <2>8, <3>1
    <3>2. CASE i # k + 1
      <4>1. i \in 1..k /\ i \in 1..Len(obs)
        BY <1>1, <1>5, <3>2
      <4>2. r[obs[i].id].rev >= obs[i].rev
        BY <1>5, <2>4, <4>1
      <4>3. obs[i] \in Snapshot
        BY <4>1
      <4>4. obs[i].id \in Attempt /\ obs[i].rev \in Nat
        BY <4>3 DEF Snapshot
      <4> QED
        BY <1>3, <2>8, <4>2, <4>4
    <3> QED
      BY <3>1, <3>2
  <2> QED
    BY <2>5, <2>8, <2>9, <2>10
<1>6. 0 \in S
  BY <1>4
<1> HIDE DEF Good
<1>7. ASSUME NEW k \in S PROVE k + 1 \in S
  <2>1. k \in Nat /\ k + 1 \in Nat /\ (k + 1 <= Len(obs) => k <= Len(obs))
    BY <1>1
  <2> QED
    BY <1>5, <2>1
<1>8. n \in S
  <2>1. S \in SUBSET Nat
    OBVIOUS
  <2> HIDE DEF S
  <2>2. S = Nat
    BY <1>6, <1>7, <2>1, NatSets
  <2> QED
    BY <2>2
<1>9. Good(n)
  BY <1>1, <1>8
<1> QED
  BY <1>9 DEF Good, U

-----------------------------------------------------------------------------
(* The host, again: what it admits and what it decides                     *)

\* A message is refused, or admitted and waited for; its bad health is marked first.
LEMMA KeepsReceiveBatch ==
  ASSUME AccInv, ReceiveBatch PROVE AccInv'
<1>0. Typed /\ KnownInv /\ ReceiptInv /\ LoopInv /\ CloseInv /\ OverInv /\ AliveInv
  BY DEF AccInv
<1>1. net.up \in Seq(Message) /\ net.up # << >> /\ Len(net.up) \in Nat \ {0}
  BY <1>0, SeqFields, HeadTaken DEF ReceiveBatch
<1>2. PICK m \in Message : m = Head(net.up) /\ m = net.up[1] /\ 1 \in 1..Len(net.up)
  BY <1>1, HeadTaken
<1>3. PICK up \in Seq(Message) :
        up = Tail(net.up)
        /\ \A i \in 1..Len(up) : i + 1 \in 1..Len(net.up) /\ up[i] = net.up[i + 1]
  BY <1>1, HeadTaken
<1>4. PICK marked \in BOOLEAN : marked = (host.marked \/ m.bad)
  OBVIOUS
<1> DEFINE e == [msg |-> m, waited |-> TRUE]
           r == Receipt(m, FALSE)
<1>5. e \in Entry /\ e.msg = m /\ r \in Answer /\ ~r.ok
  BY DEF Entry, Answer, Receipt
<1>6. net.down \in Seq(Answer) /\ disk.inbox \in Seq(Entry) /\ Len(disk.inbox) \in Nat
  BY <1>0, SeqFields
<1>7. /\ Append(net.down, r) \in Seq(Answer)
      /\ \A i \in 1..Len(Append(net.down, r)) :
            \/ i \in 1..Len(net.down) /\ Append(net.down, r)[i] = net.down[i]
            \/ Append(net.down, r)[i] = r
  <2> HIDE DEF r
  <2> QED
    BY <1>5, <1>6
<1>8. /\ Append(disk.inbox, e) \in Seq(Entry) /\ Len(Append(disk.inbox, e)) = Len(disk.inbox) + 1
      /\ \A i \in 1..Len(Append(disk.inbox, e)) :
            \/ i \in 1..Len(disk.inbox) /\ Append(disk.inbox, e)[i] = disk.inbox[i]
            \/ i = Len(Append(disk.inbox, e)) /\ Append(disk.inbox, e)[i] = e
  <2> HIDE DEF e
  <2> QED
    BY <1>5, <1>6
<1>9. /\ host.at = "receive" /\ m.kind # "result"
      /\ UNCHANGED <<prod, col, fin, wr, alive, faults, persisted>>
      /\ \/ /\ host' = [host EXCEPT !.marked = marked] /\ disk' = disk
            /\ net' = [net EXCEPT !.up = up, !.down = Append(net.down, r)]
         \/ /\ host' = [host EXCEPT !.marked = marked, !.msg = m, !.at = "commit"]
            /\ disk' = [disk EXCEPT !.inbox = Append(disk.inbox, e)]
            /\ net' = [net EXCEPT !.up = up]
  <2>1. host \in HostSession /\ net \in Network /\ disk \in Disk
    BY <1>0 DEF Typed
  <2> DEFINE full == Len(disk.inbox) >= HostCapacity
  <2>2. /\ host' = [host EXCEPT !.marked = marked, !.msg = IF full THEN host.msg ELSE m,
                               !.at = IF full THEN host.at ELSE "commit"]
        /\ disk' = IF full THEN disk
                   ELSE [disk EXCEPT !.inbox = Append(disk.inbox, e)]
        /\ net' = [net EXCEPT !.up = up, !.down = IF full THEN Append(net.down, r) ELSE net.down]
    BY <1>2, <1>3, <1>4, <2>1 DEF ReceiveBatch, HostSession, Network, Disk
  <2>3. host.at = "receive" /\ m.kind # "result"
        /\ UNCHANGED <<prod, col, fin, wr, alive, faults, persisted>>
    BY <1>2 DEF ReceiveBatch
  <2> HIDE DEF full, e, r
  <2>4. CASE full
    BY <2>1, <2>2, <2>3, <2>4 DEF HostSession
  <2>5. CASE ~full
    BY <2>1, <2>2, <2>3, <2>5 DEF Network
  <2> QED
    BY <2>4, <2>5
<1> HIDE DEF e, r
<1>10. /\ host' \in HostSession /\ host'.marked = marked
       /\ disk' \in Disk /\ disk'.row = disk.row
       /\ net' \in Network /\ net'.up = up
       /\ \/ /\ host'.at = "receive" /\ disk'.inbox = disk.inbox
             /\ net'.down = Append(net.down, r)
          \/ /\ host'.at = "commit" /\ host'.msg = m /\ disk'.inbox = Append(disk.inbox, e)
             /\ net'.down = net.down
  <2>1. host \in HostSession /\ net \in Network /\ disk \in Disk
    BY <1>0 DEF Typed
  <2>2. CASE /\ host' = [host EXCEPT !.marked = marked] /\ disk' = disk
             /\ net' = [net EXCEPT !.up = up, !.down = Append(net.down, r)]
    <3>1. host' \in HostSession /\ host'.marked = marked /\ host'.at = "receive"
      BY <1>9, <2>1, <2>2 DEF HostSession
    <3>2. net' \in Network /\ net'.up = up /\ net'.down = Append(net.down, r)
      BY <1>7, <2>1, <2>2 DEF Network
    <3> QED
      BY <2>1, <2>2, <3>1, <3>2
  <2>3. CASE /\ host' = [host EXCEPT !.marked = marked, !.msg = m, !.at = "commit"]
             /\ disk' = [disk EXCEPT !.inbox = Append(disk.inbox, e)]
             /\ net' = [net EXCEPT !.up = up]
    <3>1. host' \in HostSession /\ host'.marked = marked /\ host'.at = "commit" /\ host'.msg = m
      BY <2>1, <2>3 DEF HostSession
    <3>2. net' \in Network /\ net'.up = up /\ net'.down = net.down
      BY <2>1, <2>3 DEF Network
    <3>3. disk' \in Disk /\ disk'.row = disk.row /\ disk'.inbox = Append(disk.inbox, e)
      BY <1>8, <2>1, <2>3 DEF Disk
    <3> QED
      BY <3>1, <3>2, <3>3
  <2> QED
    BY <1>9, <2>2, <2>3
<1>11. Typed'
  BY <1>0, <1>9, <1>10 DEF Typed
<1>12. KnownInv'
  <2>1. AllKnown(m.obs)
    BY <1>0, <1>2 DEF KnownInv
  <2>2. \A i \in 1..Len(net'.up) : AllKnown(net'.up[i].obs)
    BY <1>0, <1>3, <1>10 DEF KnownInv
  <2>3. \A i \in 1..Len(disk'.inbox) : AllKnown(disk'.inbox[i].msg.obs)
    BY <1>0, <1>5, <1>8, <1>10, <2>1 DEF KnownInv
  <2> QED
    BY <1>0, <1>9, <1>10, <2>2, <2>3, KnownDisk DEF KnownInv
<1>13. ReceiptInv'
  <2>1. \A a \in Attempt : disk'.row[a].rev >= disk.row[a].rev
    BY <1>0, <1>10 DEF Typed, Disk, Rows
  <2>2. \A i \in 1..Len(net'.down) : net'.down[i].ok =>
            \E j \in 1..Len(net.down) : net'.down[i] = net.down[j]
    BY <1>5, <1>7, <1>10
  <2>3. \A i \in 1..Len(disk.inbox) : ~disk.inbox[i].waited
    BY <1>0, <1>9 DEF ReceiptInv
  <2>4. \A i \in 1..Len(disk'.inbox) : disk'.inbox[i].waited =>
            i = Len(disk'.inbox) /\ host'.at = "commit" /\ host'.msg = disk'.inbox[i].msg
    BY <1>5, <1>8, <1>10, <2>3
  <2>5. host'.at = "commit" => (host'.msg.bad => host'.marked)
    BY <1>4, <1>10
  <2> QED
    BY <1>4, <1>9, <1>10, <2>1, <2>2, <2>4, <2>5, ReceiptStep
<1>14. LoopInv'
  BY <1>0, <1>9, <1>10, LoopFrame DEF Typed, Disk, Rows
<1>15. CloseInv'
  <2>1. \A i \in 1..Len(net'.up) : \E j \in 1..Len(net.up) : net'.up[i] = net.up[j]
    BY <1>3, <1>10
  <2>2. host.marked => host'.marked
    BY <1>4, <1>10
  <2>3. UNCHANGED <<prod, col, fin, wr>>
    BY <1>9
  <2> QED
    BY <1>0, <2>1, <2>2, <2>3, CloseFrame
<1>16. OverInv'
  BY <1>0, <1>10 DEF OverInv
<1>17. AliveInv'
  <2>1. alive
    BY <1>0, <1>1 DEF AliveInv
  <2> QED
    BY <1>9, <2>1 DEF AliveInv
<1> QED
  BY <1>11, <1>12, <1>13, <1>14, <1>15, <1>16, <1>17 DEF AccInv

\* A receipt that comes too late is a refusal.
LEMMA KeepsReceiptTimeout ==
  ASSUME AccInv, ReceiptTimeout PROVE AccInv'
<1>0. Typed /\ KnownInv /\ ReceiptInv /\ LoopInv /\ CloseInv /\ OverInv /\ AliveInv
  BY DEF AccInv
<1>1. /\ GiveUp /\ host' = [host EXCEPT !.at = "receive", !.msg = NoMsg] /\ faults' = faults + 1
      /\ net' = net \/ net' = [net EXCEPT !.down = Append(net.down, Receipt(host.msg, FALSE))]
      /\ UNCHANGED <<prod, col, fin, wr, alive, persisted>>
  BY <1>0 DEF ReceiptTimeout, GoOn, Reply, Typed, Network
<1> DEFINE r == Receipt(host.msg, FALSE)
<1>2. r \in Answer /\ ~r.ok
  BY <1>0 DEF Typed, HostSession, Receipt, Answer
<1>3. net.down \in Seq(Answer)
  BY <1>0, SeqFields
<1>4. /\ Append(net.down, r) \in Seq(Answer)
      /\ \A i \in 1..Len(Append(net.down, r)) :
            \/ i \in 1..Len(net.down) /\ Append(net.down, r)[i] = net.down[i]
            \/ Append(net.down, r)[i] = r
  <2> HIDE DEF r
  <2> QED
    BY <1>2, <1>3
<1> HIDE DEF r
<1>5. /\ net' \in Network /\ net'.up = net.up
      /\ net'.down = net.down \/ net'.down = Append(net.down, r)
  <2>1. net' = net \/ net' = [net EXCEPT !.down = Append(net.down, r)]
    BY <1>1 DEF r
  <2> QED
    BY <1>0, <1>4, <2>1 DEF Typed, Network
<1>6. host' \in HostSession /\ host'.at = "receive" /\ host'.marked = host.marked
  BY <1>0, <1>1, MessageTypes DEF Typed, HostSession
<1>7. /\ disk' \in Disk /\ disk'.row = disk.row /\ Len(disk'.inbox) = Len(disk.inbox)
      /\ \A i \in 1..Len(disk'.inbox) : /\ disk'.inbox[i].msg = disk.inbox[i].msg
                                        /\ ~disk'.inbox[i].waited
  BY <1>0, <1>1, GivenUp
<1>8. Typed'
  <2>1. faults' \in Nat
    BY <1>0, <1>1 DEF Typed
  <2> QED
    BY <1>0, <1>1, <1>5, <1>6, <1>7, <2>1 DEF Typed
<1>9. KnownInv'
  <2>1. \A i \in 1..Len(disk'.inbox) : AllKnown(disk'.inbox[i].msg.obs)
    BY <1>0, <1>7 DEF KnownInv
  <2> QED
    BY <1>0, <1>1, <1>5, <1>7, <2>1, KnownDisk DEF KnownInv
<1>10. ReceiptInv'
  <2>1. \A a \in Attempt : disk'.row[a].rev >= disk.row[a].rev
    BY <1>0, <1>7 DEF Typed, Disk, Rows
  <2>2. \A i \in 1..Len(net'.down) : net'.down[i].ok =>
            \E j \in 1..Len(net.down) : net'.down[i] = net.down[j]
    BY <1>2, <1>4, <1>5
  <2> QED
    BY <1>1, <1>6, <1>7, <2>1, <2>2, ReceiptStep
<1>11. LoopInv'
  BY <1>0, <1>1, <1>7, LoopFrame DEF Typed, Disk, Rows
<1>12. CloseInv'
  BY <1>0, <1>1, <1>5, <1>6, CloseFrame
<1>13. OverInv' /\ AliveInv'
  BY <1>0, <1>1, <1>5, <1>6 DEF OverInv, AliveInv
<1> QED
  BY <1>8, <1>9, <1>10, <1>11, <1>12, <1>13 DEF AccInv

\* The host has stored what it confirms, and rows known to the producers only grow.
LEMMA KeepsCommit ==
  ASSUME AccInv, NEW ok \in BOOLEAN, Commit(ok) PROVE AccInv'
<1>0. Typed /\ KnownInv /\ ReceiptInv /\ LoopInv /\ CloseInv /\ OverInv /\ AliveInv
  BY DEF AccInv
<1>1. /\ disk.inbox \in Seq(Entry) /\ disk.inbox # << >> /\ Len(disk.inbox) \in Nat \ {0}
      /\ disk.inbox[1] \in Entry /\ 1 \in 1..Len(disk.inbox)
  <2>1. disk.inbox \in Seq(Entry) /\ disk.inbox # << >>
    BY <1>0, SeqFields DEF Commit
  <2> QED
    BY <2>1, HeadTaken
<1>2. PICK e \in Entry, inbox \in Seq(Entry) :
        /\ e = Head(disk.inbox) /\ e = disk.inbox[1] /\ inbox = Tail(disk.inbox)
        /\ Len(inbox) = Len(disk.inbox) - 1
        /\ \A i \in 1..Len(inbox) : i + 1 \in 1..Len(disk.inbox) /\ inbox[i] = disk.inbox[i + 1]
  BY <1>1, HeadTaken
<1>3. PICK m \in Message, obs \in Seq(Snapshot) : m = e.msg /\ obs = m.obs
  BY MessageFields DEF Entry
<1>4. AllKnown(obs) /\ disk.row \in Rows /\ prod \in Producers
      /\ \A a \in Attempt : RowKnown(disk.row, a)
  BY <1>0, <1>1, <1>2, <1>3 DEF KnownInv, Typed, Disk
<1>5. PICK n \in 0..Len(obs) :
        (ok => n = Len(obs)) /\ disk' = [inbox |-> inbox, row |-> Upserted(disk.row, obs)[n]]
  BY <1>2, <1>3 DEF Commit
<1>6. PICK row \in Rows :
        /\ row = Upserted(disk.row, obs)[n]
        /\ \A a \in Attempt : row[a].rev >= disk.row[a].rev
        /\ \A a \in Attempt : RowKnown(row, a)
        /\ \A i \in 1..n : row[obs[i].id].rev >= obs[i].rev
  BY <1>4, UpsertMany
<1>7. disk' \in Disk /\ disk'.inbox = inbox /\ disk'.row = row
  BY <1>5, <1>6 DEF Disk
<1> DEFINE r == Receipt(host.msg, ok)
<1>8. /\ UNCHANGED <<prod, col, fin, wr, alive, persisted>>
      /\ faults' = faults \/ faults' = faults + 1
      /\ \/ /\ e.waited /\ host' = [host EXCEPT !.at = "receive", !.msg = NoMsg]
            /\ net' = net \/ net' = [net EXCEPT !.down = Append(net.down, r)]
         \/ ~e.waited /\ UNCHANGED <<host, net>>
  BY <1>0, <1>2 DEF Commit, GoOn, Reply, Typed, Network
<1>9. r \in Answer /\ r.ok = ok /\ r.id = host.msg
  BY <1>0 DEF Typed, HostSession, Receipt, Answer
<1>10. net.down \in Seq(Answer)
  BY <1>0, SeqFields
<1> HIDE DEF r
<1>11. /\ Append(net.down, r) \in Seq(Answer)
       /\ \A i \in 1..Len(Append(net.down, r)) :
            \/ i \in 1..Len(net.down) /\ Append(net.down, r)[i] = net.down[i]
            \/ Append(net.down, r)[i] = r
  BY <1>9, <1>10
<1>12. /\ net' \in Network /\ net'.up = net.up
       /\ net'.down = net.down \/ (e.waited /\ net'.down = Append(net.down, r))
  BY <1>0, <1>8, <1>11 DEF Typed, Network
<1>13. /\ host' \in HostSession /\ host'.marked = host.marked
       /\ \/ e.waited /\ host'.at = "receive"
          \/ ~e.waited /\ host' = host
  BY <1>0, <1>8, MessageTypes, ZenonT(40) DEF Typed, HostSession
<1>14. Typed'
  <2>1. faults' \in Nat
    BY <1>0, <1>8 DEF Typed
  <2> QED
    BY <1>0, <1>7, <1>8, <1>12, <1>13, <2>1 DEF Typed
<1>15. KnownInv'
  <2>1. ASSUME NEW s, Known(s) PROVE Known(s)'
    BY <1>8, <2>1 DEF Known
  <2>2. ASSUME NEW o, AllKnown(o) PROVE \A i \in 1..Len(o) : Known(o[i])'
    BY <2>1, <2>2 DEF AllKnown
  <2>3. \A s \in prod'.unsent : Known(s)'
    BY <1>0, <1>8, <2>1 DEF KnownInv
  <2>4. AllKnown(col.queue)' /\ AllKnown(col.batch)'
    BY <1>0, <1>8, <2>2 DEF AllKnown, KnownInv
  <2>5. \A i \in 1..Len(net'.up) : AllKnown(net.up[i].obs)'
    BY <1>0, <1>12, <2>2 DEF AllKnown, KnownInv
  <2>6. \A i \in 1..Len(disk'.inbox) : AllKnown(disk.inbox[i].msg.obs)'
    <3>1. \A i \in 1..Len(inbox) : AllKnown(inbox[i].msg.obs)
      BY <1>0, <1>2 DEF KnownInv
    <3> QED
      BY <1>7, <2>2, <3>1 DEF AllKnown
  <2>7. \A a \in Attempt : RowKnown(disk.row, a)'
    BY <1>6, <1>7, <1>8 DEF RowKnown
  <2> QED
    BY <2>3, <2>4, <2>5, <2>6, <2>7 DEF KnownInv
<1>16. ReceiptInv'
  <2>1. e.waited => /\ Len(disk.inbox) = 1 /\ host.at = "commit" /\ host.msg = m
    BY <1>0, <1>1, <1>2, <1>3 DEF ReceiptInv
  <2>2. ASSUME ok, e.waited PROVE Stored(m)'
    <3>1. \A i \in 1..Len(m.obs) : disk'.row[m.obs[i].id].rev >= m.obs[i].rev
      BY <1>3, <1>5, <1>6, <1>7, <2>2
    <3>2. m.bad => host'.marked
      BY <1>0, <1>13, <2>1, <2>2 DEF ReceiptInv
    <3> QED
      BY <3>1, <3>2 DEF Stored
  <2>3. \A i \in 1..Len(net'.down) : net'.down[i].ok =>
            \/ \E j \in 1..Len(net.down) : net'.down[i] = net.down[j]
            \/ \E k \in Message : net'.down[i].id = k /\ Stored(k)'
    <3>1. ASSUME NEW i \in 1..Len(net'.down), net'.down[i].ok, net'.down[i] = r, e.waited
          PROVE \E k \in Message : net'.down[i].id = k /\ Stored(k)'
      BY <1>9, <2>1, <2>2, <3>1
    <3> QED
      BY <1>11, <1>12, <3>1
  <2>4. \A i \in 1..Len(disk'.inbox) : disk'.inbox[i].waited =>
            i = Len(disk'.inbox) /\ host'.at = "commit" /\ host'.msg = disk'.inbox[i].msg
    <3>1. CASE e.waited
      <4>1. Len(inbox) = 0
        BY <1>2, <2>1, <3>1
      <4> QED
        BY <1>7, <4>1
    <3>2. CASE ~e.waited
      BY <1>0, <1>1, <1>2, <1>7, <1>13, <3>2 DEF ReceiptInv
    <3> QED
      BY <3>1, <3>2
  <2>5. host'.at = "commit" => (host'.msg.bad => host'.marked)
    BY <1>0, <1>13 DEF ReceiptInv
  <2> QED
    BY <1>6, <1>7, <1>8, <1>13, <2>3, <2>4, <2>5, ReceiptStep
<1>17. LoopInv'
  BY <1>0, <1>6, <1>7, <1>8, LoopFrame
<1>18. CloseInv'
  BY <1>0, <1>8, <1>12, <1>13, CloseFrame
<1>19. OverInv'
  <2>1. ASSUME Complete PROVE Complete'
    <3>1. ASSUME NEW a \in Attempt PROVE row[a].rev = prod.rev[a]
      <4>1. row[a].rev \in Nat /\ prod.rev[a] \in Nat /\ row[a].rev >= disk.row[a].rev
            /\ disk.row[a].rev = prod.rev[a] /\ row[a].rev <= prod.rev[a]
        <5>1. row[a].rev \in Nat /\ prod.rev[a] \in Nat
          BY <1>4 DEF Rows, Producers
        <5>2. row[a].rev <= prod.rev[a]
          BY <1>6 DEF RowKnown
        <5> QED
          BY <1>6, <2>1, <5>1, <5>2 DEF Complete
      <4> QED
        BY <4>1
    <3> QED
      BY <1>7, <1>8, <3>1 DEF Complete
  <2> QED
    BY <1>0, <1>8, <1>13, <2>1 DEF OverInv
<1>20. AliveInv'
  BY <1>0, <1>8, <1>12 DEF AliveInv
<1> QED
  BY <1>14, <1>15, <1>16, <1>17, <1>18, <1>19, <1>20 DEF AccInv

-----------------------------------------------------------------------------
(* The invariant, and what follows from it                                 *)

\* Nothing is held, on its way or stored at first.
LEMMA AccStarts == Init => AccInv
<1> SUFFICES ASSUME Init PROVE AccInv
  OBVIOUS
<1>1. << >> \in Seq(Snapshot) /\ << >> \in Seq(Message) /\ << >> \in Seq(Answer)
      /\ << >> \in Seq(Entry)
  OBVIOUS
<1>2. 0 \in 0..MaxRevision /\ 0 \in 0..MaxRetries
  BY AccountingAssumption
<1>3. /\ prod \in Producers /\ prod.unsent = {} /\ prod.live = FALSE
      /\ \A a \in Attempt : prod.rev[a] = 0 /\ prod.over[a] = FALSE
  BY <1>2 DEF Init, Producers
<1>4. /\ col \in Collector /\ col.queue = << >> /\ col.batch = << >> /\ col.at = "tick"
      /\ col.closed = FALSE
  BY <1>1, <1>2 DEF Init, NewCollector, Collector
<1>5. fin \in Closing /\ fin.at = "open" /\ fin.ask = "none"
  BY DEF Init, NotClosing, Closing
<1>6. wr \in Writing /\ \A w \in Writer : wr.call[w].answer = "none"
  BY CallType DEF Init, NewWriter, Writing
<1>7. net \in Network /\ net.up = << >> /\ net.down = << >>
  BY <1>1 DEF Init, Network
<1>8. host \in HostSession /\ host.at = "connect"
  BY MessageTypes DEF Init, HostSession
<1>9. /\ disk \in Disk /\ disk.inbox = << >>
      /\ \A a \in Attempt : disk.row[a].rev = 0 /\ disk.row[a].final = FALSE
  <2> DEFINE row == [a \in Attempt |-> [rev |-> 0, final |-> FALSE]]
  <2>1. row \in Rows /\ \A a \in Attempt : row[a].rev = 0 /\ row[a].final = FALSE
    BY <1>2 DEF Rows
  <2>2. disk = [inbox |-> << >>, row |-> row]
    BY DEF Init
  <2> HIDE DEF row
  <2> QED
    BY <1>1, <2>1, <2>2 DEF Disk
<1>10. alive = TRUE /\ faults = 0 /\ persisted = {}
  BY DEF Init
<1>11. Typed
  BY <1>3, <1>4, <1>5, <1>6, <1>7, <1>8, <1>9, <1>10 DEF Typed
<1>12. KnownInv
  <2>1. ASSUME NEW a \in Attempt PROVE RowKnown(disk.row, a)
    <3>1. disk.row[a].rev = 0 /\ prod.rev[a] = 0
      BY <1>3, <1>9
    <3>2. disk.row[a].rev <= prod.rev[a]
      BY <3>1
    <3>3. disk.row[a].final = FALSE /\ prod.over[a] = FALSE
      BY <1>3, <1>9
    <3> QED
      BY <3>1, <3>2, <3>3 DEF RowKnown
  <2>2. AllKnown(<< >>)
    BY DEF AllKnown
  <2>3. \A i \in 1..Len(net.up) : AllKnown(net.up[i].obs)
    BY <1>7
  <2>4. \A i \in 1..Len(disk.inbox) : AllKnown(disk.inbox[i].msg.obs)
    BY <1>9
  <2> QED
    BY <1>3, <1>4, <2>1, <2>2, <2>3, <2>4 DEF KnownInv
<1>13. ReceiptInv
  BY <1>6, <1>7, <1>8, <1>9 DEF ReceiptInv
<1>14. LoopInv
  BY <1>3, <1>4, <1>10 DEF LoopInv
<1>15. CloseInv /\ OverInv /\ AliveInv
  BY <1>3, <1>4, <1>5, <1>7, <1>8, <1>10 DEF CloseInv, OverInv, AliveInv
<1> QED
  BY <1>11, <1>12, <1>13, <1>14, <1>15 DEF AccInv

\* A step of nobody.
LEMMA AccStays ==
  ASSUME AccInv, UNCHANGED vars PROVE AccInv'
<1>0. Typed /\ KnownInv /\ ReceiptInv /\ LoopInv /\ CloseInv /\ OverInv /\ AliveInv
      /\ UNCHANGED <<prod, col, fin, wr, net, host, disk, alive, faults, persisted>>
  BY DEF AccInv, vars
<1>1. Typed'
  BY <1>0 DEF Typed
<1>2. KnownInv'
  BY <1>0, KnownFrame DEF KnownInv
<1>3. ReceiptInv'
  BY <1>0, ReceiptFrame DEF ReceiptInv
<1>4. LoopInv'
  BY <1>0, LoopFrame DEF Typed, Disk, Rows
<1>5. CloseInv'
  BY <1>0, CloseFrame
<1>6. OverInv' /\ AliveInv'
  BY <1>0, OverFrame DEF AliveInv
<1> QED
  BY <1>1, <1>2, <1>3, <1>4, <1>5, <1>6 DEF AccInv

\* One lemma per action.
LEMMA AccKept == AccInv /\ [Next]_vars => AccInv'
<1> SUFFICES ASSUME AccInv, [Next]_vars PROVE AccInv'
  OBVIOUS
<1>1. CASE Turns
  BY <1>1, KeepsBegin, KeepsEnd, KeepsTake, KeepsEmit DEF Turns
<1>2. CASE Loop
  BY <1>2, KeepsTakeBatch, KeepsWriteBatch, KeepsBatchWritten, KeepsBatchFailed,
     KeepsWriteHealth, KeepsHealthDone, KeepsLoopEnds DEF Loop
<1>3. CASE Close
  BY <1>3, KeepsCloseCollector, KeepsCloseEnds, KeepsFinalHealth, KeepsFinalAnswer DEF Close
<1>4. CASE Stream
  BY <1>4, KeepsSendResult, KeepsDeliver, KeepsDetach DEF Stream
<1>5. CASE Session
  BY <1>5, KeepsConnect, KeepsRequestDrain, KeepsSendDrain, KeepsReceiveResult,
     KeepsReceiveBatch, KeepsReceiptTimeout, KeepsStreamLost, KeepsBudget, KeepsCommit DEF Session
<1>6. CASE Break
  BY <1>6, KeepsBreak
<1>7. CASE Kill
  BY <1>7, KeepsKill
<1>8. CASE UNCHANGED vars
  BY <1>8, AccStays
<1> QED
  BY <1>1, <1>2, <1>3, <1>4, <1>5, <1>6, <1>7, <1>8 DEF Next

\* The host admits no more messages than it has room for.
Bounded == Len(disk.inbox) <= HostCapacity

\* A full collector refuses.
LEMMA BoundedKept == AccInv /\ Bounded /\ [Next]_vars => Bounded'
<1> SUFFICES ASSUME AccInv, Bounded, [Next]_vars PROVE Bounded'
  OBVIOUS
<1>0. Typed /\ disk \in Disk /\ disk.inbox \in Seq(Entry) /\ Len(disk.inbox) \in Nat
  BY SeqFields DEF AccInv, Typed
<1>1. CASE UNCHANGED disk
  BY <1>1 DEF Bounded
<1>2. CASE GiveUp
  BY <1>0, <1>2, GivenUp DEF Bounded
<1>3. ASSUME NEW ok \in BOOLEAN, Commit(ok) PROVE Bounded'
  <2>1. disk'.inbox = Tail(disk.inbox) /\ disk.inbox # << >>
    BY <1>3 DEF Commit
  <2>2. Len(Tail(disk.inbox)) = Len(disk.inbox) - 1
    BY <1>0, <2>1, HeadTaken
  <2> QED
    BY <1>0, <2>1, <2>2, AccountingAssumption DEF Bounded
<1>4. CASE ReceiveBatch
  <2>1. CASE Len(disk.inbox) >= HostCapacity
    BY <1>4, <2>1 DEF ReceiveBatch, Bounded
  <2>2. CASE ~(Len(disk.inbox) >= HostCapacity)
    <3>1. PICK e \in Entry : disk' = [disk EXCEPT !.inbox = Append(disk.inbox, e)]
      <4>1. net.up \in Seq(Message) /\ net.up # << >> /\ Head(net.up) \in Message
        BY <1>0, <1>4, SeqFields, HeadTaken DEF ReceiveBatch
      <4>2. [msg |-> Head(net.up), waited |-> TRUE] \in Entry
        BY <4>1 DEF Entry
      <4>3. disk' = [disk EXCEPT !.inbox = Append(disk.inbox, [msg |-> Head(net.up), waited |-> TRUE])]
        BY <1>0, <1>4, <2>2 DEF ReceiveBatch, Disk
      <4> QED
        BY <4>2, <4>3
    <3>2. disk'.inbox = Append(disk.inbox, e)
      BY <1>0, <3>1 DEF Disk
    <3>3. Len(disk'.inbox) = Len(disk.inbox) + 1
      BY <1>0, <3>2, Appended
    <3> QED
      BY <1>0, <2>2, <3>3, AccountingAssumption DEF Bounded
  <2> QED
    BY <2>1, <2>2
<1>5. CASE Turns \/ Loop
  <2>1. UNCHANGED disk
    BY <1>5 DEF Turns, Loop, BeginTurn, EndTurn, Take, Emit, TakeBatch, WriteBatch, BatchWritten,
       BatchFailed, WriteHealth, HealthDone, LoopEnds
  <2> QED
    BY <1>1, <2>1
<1>6. CASE Close \/ Stream \/ Break \/ Kill
  <2>1. UNCHANGED disk
    BY <1>6 DEF Close, Stream, CloseCollector, CloseEnds, FinalHealth, FinalAnswer, SendResult,
       Deliver, Detach, Break, Kill
  <2> QED
    BY <1>1, <2>1
<1>7. CASE Connect \/ RequestDrain \/ SendDrain \/ ReceiveResult \/ StreamLost
  <2>1. UNCHANGED disk
    BY <1>7 DEF Connect, RequestDrain, SendDrain, ReceiveResult, StreamLost
  <2> QED
    BY <1>1, <2>1
<1>8. CASE ReceiptTimeout \/ Budget
  BY <1>2, <1>8 DEF ReceiptTimeout, Budget
<1>9. CASE UNCHANGED vars
  BY <1>1, <1>9 DEF vars
<1> QED
  BY <1>3, <1>4, <1>5, <1>6, <1>7, <1>8, <1>9 DEF Next, Session

\* What a worker counts as persisted is in the database of the host: a receipt is
\* given after the commit and answers the write that named its message.
THEOREM AckedIsStored == Spec => []AckMeansStored
<1>1. AccInv /\ Bounded => AckMeansStored
  <2> SUFFICES ASSUME AccInv, Bounded PROVE AckMeansStored
    OBVIOUS
  <2>1. Typed /\ LoopInv
    BY DEF AccInv
  <2>2. TypeOK
    BY <2>1 DEF TypeOK, Typed, Producers, Collector, Closing, HostSession, Bounded
  <2> QED
    BY <2>1, <2>2 DEF AckMeansStored, LoopInv
<1>2. Init => Bounded
  BY AccountingAssumption DEF Init, Bounded
<1>3. AccInv /\ [Next]_vars => AccInv'
  BY AccKept
<1>4. AccInv /\ Bounded /\ [Next]_vars => Bounded'
  BY BoundedKept
<1> QED
  BY <1>1, <1>2, <1>3, <1>4, AccStarts, PTL DEF Spec

\* A session that ended unmarked has brought the latest snapshot of every attempt
\* into the database: its result came without an error, so the producers were done,
\* the loop had drained, and a collector that lost one had told the host before.
THEOREM NothingIsLostSilently == Spec => []NoSilentLoss
<1>1. AccInv => NoSilentLoss
  <2> SUFFICES ASSUME AccInv, host.at = "over", ~host.marked, NEW a \in Attempt
               PROVE disk.row[a] = [rev |-> prod.rev[a], final |-> prod.over[a]]
    BY DEF NoSilentLoss
  <2>1. disk.row[a].rev = prod.rev[a]
    BY DEF AccInv, OverInv, Complete
  <2>2. disk.row[a].final = prod.over[a]
    BY <2>1 DEF AccInv, KnownInv, RowKnown
  <2>3. disk.row[a] \in [rev : 0..MaxRevision, final : BOOLEAN]
    BY DEF AccInv, Typed, Disk, Rows
  <2> QED
    BY <2>1, <2>2, <2>3
<1>2. AccInv /\ [Next]_vars => AccInv'
  BY AccKept
<1> QED
  BY <1>1, <1>2, AccStarts, PTL DEF Spec
=============================================================================
