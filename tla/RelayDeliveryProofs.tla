------------------------- MODULE RelayDeliveryProofs -------------------------
(***************************************************************************)
(* The delivery of requests and answers through the relay, for any number   *)
(* of attempts, faults and envelopes and any limits.  RelayInv says what    *)
(* rows, connections, items on their way, tasks and counters have to do     *)
(* with each other; every step of relay, bridge and client and every fault  *)
(* keeps it.                                                                *)
(***************************************************************************)
EXTENDS RelayDelivery, FiniteSetTheorems, SequenceTheorems, WellFoundedInduction, TLAPS

Row == [msg : Message, state : RowStates]

LinkRecord == [open : BOOLEAN, hub : BOOLEAN, due : BOOLEAN, late : BOOLEAN,
               batch : SUBSET Message, inflight : SUBSET Message,
               recent : SUBSET Message, down : SUBSET Message]

Task == [attempt : Attempts, nth : Nat, phase : Phases]

-----------------------------------------------------------------------------
(* Messages and rows.                                                       *)

\* A set of numbers that is not empty has a smallest one.
LEMMA Least ==
  ASSUME NEW T \in SUBSET Nat, T # {}
  PROVE  \E x \in T : \A y \in T : x <= y
<1> DEFINE R == {ss \in Nat \X Nat : ss[1] < ss[2]}
<1>1. IsWellFoundedOn(R, Nat)
  BY NatLessThanWellFounded DEF OpToRel
<1> HIDE DEF R
<1>2. PICK x \in T : \A y \in T : ~ (<<y, x>> \in R)
  BY <1>1, WFMin
<1>3. \A y \in T : ~ (y < x)
  BY <1>2 DEF R
<1> QED  BY <1>3

\* Requests go to the daemon, answers to the client, and nothing else travels.
LEMMA Travelling ==
  /\ \A a \in Attempts : Req(a) \in MessagesTo("daemon")
  /\ \A a \in Attempts, n \in Nat \ {0} : Resp(a, n) \in MessagesTo("client")
  /\ \A m \in MessagesTo("daemon") : m.attempt \in Attempts /\ m = Req(m.attempt)
  /\ \A m \in MessagesTo("client") :
       m.attempt \in Attempts /\ m.nth \in Nat \ {0} /\ m = Resp(m.attempt, m.nth)
  /\ \A d \in Devices : \A m \in MessagesTo(d) : m \in Message /\ m.to = d
  BY DEF MessagesTo, Message, Req, Resp, Devices

\* What TypeOK says of single rows.
LEMMA RowFacts ==
  ASSUME TypeOK
  PROVE  /\ Len(rows) \in Nat /\ DOMAIN rows = 1..Len(rows)
         /\ \A i \in DOMAIN rows : rows[i] \in Row
<1>1. rows \in Seq(Row)
  BY DEF TypeOK, Row
<1> QED  BY <1>1, LenProperties

\* Rows keep their messages, and no row begins to wait.
Aged ==
  /\ DOMAIN rows' = DOMAIN rows
  /\ \A i \in DOMAIN rows :
       /\ rows'[i].msg = rows[i].msg /\ rows'[i].state \in RowStates
       /\ rows'[i].state = "waiting" => rows[i].state = "waiting"

LEMMA AgedFacts ==
  ASSUME TypeOK, Aged
  PROVE  \A m : (Stored(m)' <=> Stored(m)) /\ (Waiting(m)' => Waiting(m))
<1>1. \A i \in DOMAIN rows : rows[i].state \in RowStates
  BY RowFacts DEF Row
<1> QED  BY <1>1 DEF Aged, Stored, Waiting, RowIn

\* Rows that are written anew one by one are a sequence again.
LEMMA RowsTyped ==
  ASSUME TypeOK, NEW f, f = [i \in DOMAIN rows |-> f[i]],
         \A i \in DOMAIN rows : f[i] \in Row
  PROVE  f \in Seq(Row)
<1>1. f \in [1..Len(rows) -> Row] /\ Len(rows) \in Nat
  BY RowFacts
<1> QED  BY <1>1, SeqDef

\* What an acknowledgement does to the rows.
LEMMA MarkFacts ==
  ASSUME TypeOK, NEW m, rows' = Mark(m, "acked")
  PROVE  /\ rows' \in Seq(Row) /\ Aged /\ ~Waiting(m)'
         /\ \A i \in DOMAIN rows : rows'[i].state = "acked" =>
              rows[i].msg = m \/ rows[i].state = "acked"
<1>1. \A i \in DOMAIN rows : rows[i] \in Row
  BY RowFacts
<1>2. /\ rows' = [i \in DOMAIN rows |-> rows'[i]] /\ DOMAIN rows' = DOMAIN rows
      /\ \A i \in DOMAIN rows : rows'[i] =
           IF rows[i].msg = m THEN [rows[i] EXCEPT !.state = "acked"] ELSE rows[i]
  BY DEF Mark
<1>3. ASSUME NEW i \in DOMAIN rows
      PROVE  /\ rows'[i] \in Row /\ rows'[i].msg = rows[i].msg
             /\ rows[i].msg = m => rows'[i].state = "acked"
             /\ rows[i].msg # m => rows'[i] = rows[i]
  <2>1. rows[i] \in Row
    BY <1>1
  <2>2. CASE rows[i].msg = m
    <3>1. rows'[i] = [rows[i] EXCEPT !.state = "acked"]
      BY <1>2, <2>2
    <3> QED  BY <3>1, <2>1, <2>2 DEF Row, RowStates
  <2>3. CASE rows[i].msg # m
    BY <1>2, <2>1, <2>3
  <2> QED  BY <2>2, <2>3
<1>4. rows' \in Seq(Row)
  BY <1>2, <1>3, RowsTyped
<1>5. Aged
  BY <1>2, <1>3, <1>1 DEF Aged, Row
<1> QED  BY <1>2, <1>3, <1>4, <1>5 DEF Waiting, RowIn

-----------------------------------------------------------------------------
(* Connections.                                                             *)

\* The relay will look at the queue of this connection, or its device will
\* acknowledge something; or a previous connection spoilt the last read.
Attended(l) == l.due \/ l.batch \cup l.inflight # {} \/ l.late

LinksFit == \A d \in Devices : LinkFits(d)

\* A step that touches one connection leaves all of them fit, if what it leaves
\* of that one is.
LEMMA LinkMoves ==
  ASSUME TypeOK, TypeOK', LinksFit, NothingForgotten,
         NEW d \in Devices, NEW l \in LinkRecord, link' = [link EXCEPT ![d] = l],
         \A m : (Stored(m) => Stored(m)') /\ (Waiting(m)' => Waiting(m)),
         l.batch \cup l.inflight \cup l.recent \cup l.down \subseteq MessagesTo(d),
         ~l.open => l = NoLink,
         \A m \in l.recent : Stored(m)' /\ ~Waiting(m)',
         l.batch \cap l.recent # {} => l.late,
         \A m : Waiting(m)' /\ m.to = d /\ l.hub => m \in pushes' \/ Attended(l),
         \A m \in pushes : m.to # d => m \in pushes'
  PROVE  LinksFit' /\ NothingForgotten'
<1>1. link \in [Devices -> LinkRecord]
  BY DEF TypeOK, LinkRecord
<1>2. link'[d] = l /\ \A e \in Devices \ {d} : link'[e] = link[e]
  BY <1>1
<1>3. ASSUME NEW e \in Devices
      PROVE  LinkFits(e)'
  <2>1. CASE e = d
    BY <1>2, <2>1 DEF LinkFits
  <2>2. CASE e # d
    <3>1. LinkFits(e)
      BY DEF LinksFit
    <3> QED  BY <1>2, <2>2, <3>1 DEF LinkFits
  <2> QED  BY <2>1, <2>2
<1>4. ASSUME NEW i \in DOMAIN rows', rows'[i].state = "waiting", link'[rows'[i].msg.to].hub
      PROVE  rows'[i].msg \in pushes' \/ Attended(link'[rows'[i].msg.to])
  <2>0. PICK m : m = rows'[i].msg
    OBVIOUS
  <2>1. Waiting(m)' /\ Waiting(m)
    BY <2>0, <1>4 DEF Waiting, RowIn
  <2>2. m.to \in Devices
    <3>1. rows' \in Seq(Row)
      BY DEF TypeOK, Row
    <3>2. rows'[i] \in Row
      BY <3>1, LenProperties, ElementOfSeq
    <3> QED  BY <2>0, <3>2 DEF Row, Message
  <2>3. CASE m.to = d
    BY <2>0, <2>1, <2>3, <1>2, <1>4
  <2>4. CASE m.to # d
    <3>1. PICK j \in DOMAIN rows : rows[j].msg = m /\ rows[j].state = "waiting"
      BY <2>1 DEF Waiting, RowIn
    <3>2. link'[m.to] = link[m.to]
      BY <2>2, <2>4, <1>2
    <3>3. m \in pushes \/ Attended(link[m.to])
      BY <2>0, <3>1, <3>2, <1>4 DEF NothingForgotten, Attended
    <3> QED  BY <2>0, <3>2, <3>3, <2>4
  <2> QED  BY <2>3, <2>4
<1>5. NothingForgotten'
  BY <1>4 DEF NothingForgotten, Attended
<1> QED  BY <1>3, <1>5 DEF LinksFit

\* So does one that touches none, if no row begins to wait.
LEMMA LinksStay ==
  ASSUME TypeOK, LinksFit, NothingForgotten, UNCHANGED link, pushes \subseteq pushes',
         \A m : (Stored(m) => Stored(m)') /\ (Waiting(m)' => Waiting(m))
  PROVE  LinksFit' /\ NothingForgotten'
<1>1. LinksFit'
  BY DEF LinksFit, LinkFits
<1>2. ASSUME NEW i \in DOMAIN rows', rows'[i].state = "waiting", link'[rows'[i].msg.to].hub
      PROVE  rows'[i].msg \in pushes' \/ Attended(link'[rows'[i].msg.to])
  <2>1. Waiting(rows'[i].msg)
    BY <1>2 DEF Waiting, RowIn
  <2>2. PICK j \in DOMAIN rows : rows[j].msg = rows'[i].msg /\ rows[j].state = "waiting"
    BY <2>1 DEF Waiting, RowIn
  <2> QED  BY <2>2, <1>2 DEF NothingForgotten, Attended
<1> QED  BY <1>1, <1>2 DEF NothingForgotten, Attended

\* What RelayConnection.send leaves behind.
LEMMA SendFacts ==
  ASSUME NEW l \in LinkRecord, NEW m \in Message
  PROVE  /\ Send(l, m) \in LinkRecord
         /\ m \in l.inflight \cup l.recent => Send(l, m) = l
         /\ m \notin l.inflight \cup l.recent =>
              /\ Send(l, m).inflight = l.inflight \cup {m}
              /\ Send(l, m).down = l.down \cup {m}
         /\ Send(l, m).open = l.open /\ Send(l, m).hub = l.hub
         /\ Send(l, m).due = l.due /\ Send(l, m).late = l.late
         /\ Send(l, m).batch = l.batch /\ Send(l, m).recent = l.recent
  BY DEF Send, LinkRecord

-----------------------------------------------------------------------------
(* Items on their way, tasks and counters.                                  *)

\* Nothing is unstored, untaken or paired again.
Onward ==
  /\ \A m : Stored(m) => Stored(m)'
  /\ \A a \in Attempts : taken[a] <= taken'[a]
  /\ paired' => paired
  /\ client.attempt <= client'.attempt

LEMMA AnsweredStays ==
  ASSUME TypeOK, TypeOK', Onward
  PROVE  \A a \in Attempts : Answered(a) => Answered(a)'
<1>1. ASSUME NEW a \in Attempts, NEW n \in 1..taken[a], Stored(Resp(a, n))
      PROVE  n \in 1..taken'[a] /\ Stored(Resp(a, n))'
  <2>1. taken[a] \in Nat /\ taken'[a] \in Nat /\ taken[a] <= taken'[a]
    BY DEF TypeOK, Onward
  <2> QED  BY <2>1, <1>1 DEF Onward
<1> QED  BY <1>1 DEF Answered, Onward

LEMMA NumberedStays ==
  ASSUME TypeOK, TypeOK', Onward
  PROVE  \A m : Numbered(m) => Numbered(m)'
<1>1. ASSUME NEW m, Numbered(m)
      PROVE  Numbered(m)'
  <2>1. CASE m.to = "daemon"
    <3>1. client.attempt \in Nat /\ client'.attempt \in Nat /\ m.attempt \in Nat
      BY <1>1, RelayAssumption DEF TypeOK, Numbered, MessagesTo, Message, Attempts
    <3> QED  BY <1>1, <2>1, <3>1 DEF Numbered, Onward
  <2>2. CASE m.to # "daemon"
    <3>1. m.attempt \in Attempts /\ m.nth \in Nat
      BY <1>1 DEF Numbered, MessagesTo, Message
    <3>2. taken[m.attempt] \in Nat /\ taken'[m.attempt] \in Nat
      BY <3>1 DEF TypeOK
    <3> QED  BY <1>1, <2>2, <3>1, <3>2 DEF Numbered, Onward
  <2> QED  BY <2>1, <2>2
<1> QED  BY <1>1

\* What the relay may still read was on its way before.
Thinned ==
  /\ \A x \in up' : \E o \in up : o.by = x.by /\ o.kind = x.kind /\ o.msg = x.msg
  /\ \A x, y \in up' : x.kind = "submit" /\ y.kind = "submit" /\ x.msg = y.msg => x = y

LEMMA FewerThins ==
  ASSUME EnvelopesFit, up' \subseteq up
  PROVE  Thinned
<1>1. ASSUME NEW x \in up', NEW y \in up', x.kind = "submit", y.kind = "submit", x.msg = y.msg
      PROVE  x = y
  <2>1. Submits(x.msg) = {x}
    BY <1>1 DEF EnvelopesFit
  <2>2. y \in Submits(x.msg)
    BY <1>1 DEF Submits
  <2> QED  BY <2>1, <2>2
<1> QED  BY <1>1 DEF Thinned

LEMMA ClosingThins ==
  ASSUME TypeOK, EnvelopesFit, NEW d \in Devices, Closed(d)
  PROVE  Thinned
<1> DEFINE dead(it) == [it EXCEPT !.live = FALSE]
           sent == {it \in up : it.by = d}
<1>1. PICK read \in SUBSET sent : up' = (up \ sent) \cup {dead(it) : it \in read}
  BY DEF Closed
<1>2. ASSUME NEW x \in up'
      PROVE  \E o \in up : /\ o.by = x.by /\ o.kind = x.kind /\ o.msg = x.msg
                           /\ x = IF o.by = d THEN dead(o) ELSE o
  <2>1. CASE x \in up \ sent
    BY <2>1
  <2>2. CASE x \in {dead(it) : it \in read}
    <3>1. PICK o \in read : x = dead(o)
      BY <2>2
    <3>2. o \in up /\ o.by = d /\ o \in Item
      BY <1>1 DEF TypeOK
    <3> QED  BY <3>1, <3>2 DEF Item
  <2> QED  BY <1>1, <2>1, <2>2
<1>3. ASSUME NEW x \in up', NEW y \in up', x.kind = "submit", y.kind = "submit", x.msg = y.msg
      PROVE  x = y
  <2>1. PICK o \in up : o.kind = x.kind /\ o.msg = x.msg /\ x = IF o.by = d THEN dead(o) ELSE o
    BY <1>2
  <2>2. PICK q \in up : q.kind = y.kind /\ q.msg = y.msg /\ y = IF q.by = d THEN dead(q) ELSE q
    BY <1>2
  <2>3. Submits(o.msg) = {o}
    BY <1>3, <2>1 DEF EnvelopesFit
  <2>4. q \in Submits(o.msg)
    BY <1>3, <2>1, <2>2 DEF Submits
  <2>5. q = o
    BY <2>3, <2>4
  <2> QED  BY <2>1, <2>2, <2>5
<1> QED  BY <1>2, <1>3 DEF Thinned

\* A step that sends nothing and stores nothing leaves the envelopes fit.
LEMMA EnvelopesStay ==
  ASSUME TypeOK, TypeOK', Onward, EnvelopesFit, Thinned, pushes' \subseteq pushes,
         \A m : Stored(m)' => Stored(m)
  PROVE  EnvelopesFit'
<1>1. ASSUME NEW i \in DOMAIN rows'
      PROVE  Numbered(rows[i].msg)'
  <2>1. PICK m : m = rows'[i].msg
    OBVIOUS
  <2>2. rows'[i] \in Row
    <3>1. rows' \in Seq(Row)
      BY DEF TypeOK, Row
    <3> QED  BY <3>1, LenProperties, ElementOfSeq
  <2>3. Stored(m)'
    BY <2>1, <2>2 DEF Stored, RowIn, Row
  <2>4. Stored(m)
    BY <2>3
  <2>5. Numbered(m)
    BY <2>4 DEF Stored, RowIn, EnvelopesFit
  <2> QED  BY <2>1, <2>5, NumberedStays
<1>2. ASSUME NEW x \in up'
      PROVE  IF x.kind = "submit"
             THEN /\ Numbered(x.msg)' /\ x.by = Other(x.msg.to)
                  /\ ~Stored(x.msg)' /\ Submits(x.msg)' = {x}
             ELSE x.msg \in MessagesTo(x.by) /\ (x.by = "daemon" => Answered(x.msg.attempt)')
  <2>1. PICK o \in up : o.by = x.by /\ o.kind = x.kind /\ o.msg = x.msg
    BY DEF Thinned
  <2>2. CASE x.kind = "submit"
    <3>1. Numbered(o.msg) /\ o.by = Other(o.msg.to) /\ ~Stored(o.msg)
      BY <2>1, <2>2 DEF EnvelopesFit
    <3>2. Submits(x.msg)' = {x}
      BY <2>2 DEF Thinned, Submits
    <3> QED  BY <2>1, <2>2, <3>1, <3>2, NumberedStays
  <2>3. CASE x.kind # "submit"
    <3>1. o.msg \in MessagesTo(o.by) /\ (o.by = "daemon" => Answered(o.msg.attempt))
      BY <2>1, <2>3 DEF EnvelopesFit
    <3>2. o.msg.attempt \in Attempts
      BY <3>1 DEF MessagesTo, Message
    <3> QED  BY <2>1, <2>3, <3>1, <3>2, AnsweredStays
  <2> QED  BY <2>2, <2>3
<1> QED  BY <1>1, <1>2 DEF EnvelopesFit

\* One more item leaves them fit if it is.
LEMMA EnvelopesGrow ==
  ASSUME TypeOK, TypeOK', Onward, EnvelopesFit, UNCHANGED <<rows, pushes>>,
         NEW x, up' = up \cup {x},
         IF x.kind = "submit"
         THEN /\ Numbered(x.msg)' /\ x.by = Other(x.msg.to) /\ ~Stored(x.msg) /\ Submits(x.msg) = {}
         ELSE x.msg \in MessagesTo(x.by) /\ (x.by = "daemon" => Answered(x.msg.attempt)')
  PROVE  EnvelopesFit'
<1>1. \A i \in DOMAIN rows' : Numbered(rows[i].msg)'
  BY NumberedStays DEF EnvelopesFit
<1>2. ASSUME NEW it \in up'
      PROVE  IF it.kind = "submit"
             THEN /\ Numbered(it.msg)' /\ it.by = Other(it.msg.to)
                  /\ ~Stored(it.msg)' /\ Submits(it.msg)' = {it}
             ELSE it.msg \in MessagesTo(it.by) /\ (it.by = "daemon" => Answered(it.msg.attempt)')
  <2>1. ~Stored(it.msg) => ~Stored(it.msg)'
    BY DEF Stored, RowIn
  <2>2. CASE it = x /\ x.kind = "submit"
    <3>1. Submits(x.msg)' = {x}
      BY <2>2 DEF Submits
    <3> QED  BY <2>1, <2>2, <3>1
  <2>3. CASE it = x /\ x.kind # "submit"
    BY <2>3
  <2>4. CASE it # x /\ it.kind = "submit"
    <3>1. Numbered(it.msg) /\ it.by = Other(it.msg.to) /\ ~Stored(it.msg) /\ Submits(it.msg) = {it}
      BY <2>4 DEF EnvelopesFit
    <3>2. ~(x.kind = "submit" /\ x.msg = it.msg)
      BY <3>1
    <3>3. Submits(it.msg)' = {it}
      BY <3>1, <3>2 DEF Submits
    <3> QED  BY <2>1, <2>4, <3>1, <3>3, NumberedStays
  <2>5. CASE it # x /\ it.kind # "submit"
    <3>1. it.msg \in MessagesTo(it.by) /\ (it.by = "daemon" => Answered(it.msg.attempt))
      BY <2>5 DEF EnvelopesFit
    <3>2. it.msg.attempt \in Attempts
      BY <3>1 DEF MessagesTo, Message
    <3> QED  BY <2>5, <3>1, <3>2, AnsweredStays
  <2> QED  BY <2>2, <2>3, <2>4, <2>5
<1>3. pushes' \subseteq MessagesTo("client") \cup MessagesTo("daemon")
  BY DEF EnvelopesFit
<1> QED  BY <1>1, <1>2, <1>3 DEF EnvelopesFit

\* What TasksFit says of a task apart from the others.
TaskFits(t) ==
  /\ t.nth \in 1..taken[t.attempt]
  /\ t.phase \in {"deferred", "running"} =>
       ~Stored(Resp(t.attempt, t.nth)) /\ Submits(Resp(t.attempt, t.nth)) = {}
  /\ t.phase = "accepted" => Stored(Resp(t.attempt, t.nth))
  /\ t.phase = "refused" => ~paired

\* A task that is left alone stays fit if its response is not submitted.
LEMMA TaskStays ==
  ASSUME TypeOK, TypeOK', Onward, NEW t \in Task, TaskFits(t),
         t.phase \in {"deferred", "running"} =>
           ~Stored(Resp(t.attempt, t.nth))' /\ Submits(Resp(t.attempt, t.nth))' = {}
  PROVE  TaskFits(t)'
<1>1. t.attempt \in Attempts /\ t.nth \in Nat
  BY DEF Task
<1>2. taken[t.attempt] \in Nat /\ taken'[t.attempt] \in Nat /\ taken[t.attempt] <= taken'[t.attempt]
  BY <1>1 DEF TypeOK, Onward
<1>3. t.nth \in 1..taken'[t.attempt]
  BY <1>1, <1>2 DEF TaskFits
<1>4. (Stored(Resp(t.attempt, t.nth)) => Stored(Resp(t.attempt, t.nth))') /\ (~paired => ~paired')
  BY DEF Onward
<1> QED  BY <1>3, <1>4 DEF TaskFits

\* A step that begins no task and submits nothing leaves the tasks fit.
LEMMA TasksStay ==
  ASSUME TypeOK, TypeOK', Onward, TasksFit, tasks' \subseteq tasks,
         \A m : Stored(m)' => Stored(m),
         \A m : Submits(m) = {} => Submits(m)' = {}
  PROVE  TasksFit'
<1>1. ASSUME NEW t \in tasks'
      PROVE  TaskFits(t)'
  <2>1. t \in Task /\ TaskFits(t)
    BY DEF TypeOK, Task, TasksFit, TaskFits
  <2>2. t.phase \in {"deferred", "running"} =>
          ~Stored(Resp(t.attempt, t.nth))' /\ Submits(Resp(t.attempt, t.nth))' = {}
    BY <2>1 DEF TaskFits
  <2> QED  BY <2>1, <2>2, TaskStays
<1>2. \A t, u \in tasks' : u.attempt = t.attempt /\ u.nth = t.nth => u = t
  BY DEF TasksFit
<1> QED  BY <1>1, <1>2 DEF TasksFit, TaskFits

\* Nor does one that moves one task on, and submits no response but its own.
LEMMA TaskMoves ==
  ASSUME TypeOK, TypeOK', Onward, TasksFit, UNCHANGED rows,
         NEW t \in tasks, NEW u, u.attempt = t.attempt, u.nth = t.nth,
         tasks' = (tasks \ {t}) \cup {u}, TaskFits(u)',
         \A m : Submits(m)' \subseteq Submits(m) \/ m = Resp(t.attempt, t.nth)
  PROVE  TasksFit'
<1>1. ASSUME NEW v \in tasks \ {t}
      PROVE  TaskFits(v)'
  <2>1. v \in Task /\ TaskFits(v)
    BY DEF TypeOK, Task, TasksFit, TaskFits
  <2>2. Resp(v.attempt, v.nth) # Resp(t.attempt, t.nth)
    BY DEF TasksFit, Resp
  <2>3. v.phase \in {"deferred", "running"} =>
          ~Stored(Resp(v.attempt, v.nth))' /\ Submits(Resp(v.attempt, v.nth))' = {}
    <3>1. ~Stored(Resp(v.attempt, v.nth)) => ~Stored(Resp(v.attempt, v.nth))'
      BY DEF Stored, RowIn
    <3> QED  BY <2>1, <2>2, <3>1 DEF TaskFits
  <2> QED  BY <2>1, <2>3, TaskStays
<1>2. \A v, w \in tasks' : w.attempt = v.attempt /\ w.nth = v.nth => w = v
  BY DEF TasksFit
<1>3. \A v \in tasks' : TaskFits(v)'
  BY <1>1
<1> QED  BY <1>2, <1>3 DEF TasksFit, TaskFits

\* Rows that are acknowledged stay answered, and others become so only if they are.
LEMMA AckedStays ==
  ASSUME TypeOK, TypeOK', Onward, AckedMeansAnswered,
         \A i \in DOMAIN rows' : rows'[i].msg.to = "daemon" /\ rows'[i].state = "acked" =>
           \/ \E j \in DOMAIN rows : rows[j].msg = rows'[i].msg /\ rows[j].state = "acked"
           \/ Answered(rows'[i].msg.attempt)
  PROVE  AckedMeansAnswered'
<1>1. ASSUME NEW i \in DOMAIN rows', rows'[i].msg.to = "daemon", rows'[i].state = "acked"
      PROVE  Answered(rows[i].msg.attempt)'
  <2>1. rows' \in Seq(Row)
    BY DEF TypeOK, Row
  <2>2. rows'[i] \in Row
    BY <2>1, LenProperties, ElementOfSeq
  <2>3. PICK m : m = rows'[i].msg
    OBVIOUS
  <2>4. m.attempt \in Attempts
    BY <2>2, <2>3 DEF Row, Message
  <2>5. Answered(m.attempt)
    BY <1>1, <2>3 DEF AckedMeansAnswered, Answered
  <2>6. Answered(m.attempt)'
    BY <2>4, <2>5, AnsweredStays
  <2> QED  BY <2>3, <2>6
<1> QED  BY <1>1 DEF AckedMeansAnswered, Answered

\* Nothing is taken, and nothing may be taken that could not be before.
LEMMA TakenStays ==
  ASSUME TypeOK, TypeOK', TakenFits, UNCHANGED taken,
         spent'.connects = spent.connects, spent'.stalls = spent.stalls,
         spent.faults <= spent'.faults,
         link'["daemon"].down \subseteq link["daemon"].down,
         link'["daemon"].open => link["daemon"].open,
         link'["daemon"].open =>
           link["daemon"].inflight \cup link["daemon"].recent
             \subseteq link'["daemon"].inflight \cup link'["daemon"].recent
  PROVE  TakenFits'
<1>1. /\ spent \in [faults : 0..MaxFaults, stalls : 0..MaxFaults, connects : Nat]
      /\ spent' \in [faults : 0..MaxFaults, stalls : 0..MaxFaults, connects : Nat]
      /\ MaxFaults \in Nat
  BY RelayAssumption DEF TypeOK
<1>2. spent'.stalls <= spent'.faults
  BY <1>1 DEF TakenFits
<1>3. ASSUME NEW a \in Attempts
      PROVE  taken'[a] + Chances(a)' <= spent'.connects + spent'.stalls
  <2>1. Chances(a) \in 0..2 /\ Chances(a)' \in 0..2
    BY DEF Chances
  <2>2. Chances(a)' <= Chances(a)
    BY DEF Chances
  <2>3. taken[a] \in Nat /\ taken'[a] = taken[a]
    BY DEF TypeOK
  <2>4. taken[a] + Chances(a) <= spent.connects + spent.stalls
    BY DEF TakenFits
  <2> HIDE DEF Chances
  <2> QED  BY <1>1, <2>1, <2>2, <2>3, <2>4
<1> QED  BY <1>2, <1>3 DEF TakenFits

-----------------------------------------------------------------------------
(* The relay sends.                                                         *)

LEMMA SameRows ==
  ASSUME TypeOK, UNCHANGED rows
  PROVE  Aged
<1>1. \A i \in DOMAIN rows : rows[i].state \in RowStates
  BY RowFacts DEF Row
<1> QED  BY <1>1 DEF Aged

LEMMA LinkKinds ==
  ASSUME TypeOK
  PROVE  \A d \in Devices : link[d] \in LinkRecord
<1>1. link \in [Devices -> LinkRecord]
  BY DEF TypeOK, LinkRecord
<1> QED  BY <1>1

\* What a step keeps that begins no task, sends and stores nothing and
\* acknowledges nothing that is not answered.
LEMMA QuietStep ==
  ASSUME RelayInv, TypeOK', Thinned, Aged, pushes' \subseteq pushes, tasks' \subseteq tasks,
         UNCHANGED taken, paired' => paired, client'.attempt = client.attempt,
         \A i \in DOMAIN rows : rows[i].msg.to = "daemon" /\ rows'[i].state = "acked" =>
           rows[i].state = "acked" \/ Answered(rows[i].msg.attempt)
  PROVE  EnvelopesFit' /\ TasksFit' /\ AckedMeansAnswered'
<1>1. \A m : Stored(m)' <=> Stored(m)
  BY AgedFacts DEF RelayInv
<1>2. Onward
  <2>1. \A a \in Attempts : taken[a] <= taken'[a]
    BY DEF RelayInv, TypeOK
  <2>2. client.attempt <= client'.attempt
    BY RelayAssumption DEF RelayInv, TypeOK
  <2> QED  BY <1>1, <2>1, <2>2 DEF Onward
<1>3. EnvelopesFit'
  BY <1>1, <1>2, EnvelopesStay DEF RelayInv
<1>4. TasksFit'
  <2>1. \A m : Submits(m) = {} => Submits(m)' = {}
    BY DEF Submits, Thinned
  <2> QED  BY <1>1, <1>2, <2>1, TasksStay DEF RelayInv
<1>5. \A i \in DOMAIN rows' : rows'[i].msg.to = "daemon" /\ rows'[i].state = "acked" =>
        \/ \E j \in DOMAIN rows : rows[j].msg = rows'[i].msg /\ rows[j].state = "acked"
        \/ Answered(rows'[i].msg.attempt)
  BY DEF Aged
<1>6. AckedMeansAnswered'
  BY <1>2, <1>5, AckedStays DEF RelayInv
<1> QED  BY <1>3, <1>4, <1>6

\* A read of the queue finds something if anything waits for the device.
LEMMA PendingFacts ==
  ASSUME TypeOK, EnvelopesFit, NEW d \in Devices
  PROVE  /\ Pending(d) \subseteq MessagesTo(d)
         /\ \A m \in Pending(d) : Waiting(m)
         /\ \A m : Waiting(m) /\ m.to = d => Pending(d) # {}
<1>1. ASSUME NEW m \in Pending(d)
      PROVE  m \in MessagesTo(d) /\ Waiting(m)
  <2>1. PICK i \in DOMAIN rows : rows[i].msg = m /\ rows[i].state = "waiting" /\ m.to = d
    BY DEF Pending
  <2>2. Numbered(m)
    BY <2>1 DEF EnvelopesFit
  <2> QED  BY <2>1, <2>2 DEF Numbered, Waiting, RowIn
<1>2. ASSUME NEW m, Waiting(m), m.to = d
      PROVE  Pending(d) # {}
  <2> DEFINE W == {j \in DOMAIN rows : rows[j].state = "waiting" /\ rows[j].msg.to = d}
  <2>1. W # {} /\ W \subseteq Nat
    BY <1>2, RowFacts DEF Waiting, RowIn
  <2>2. PICK j \in W : \A k \in W : j <= k
    BY <2>1, Least
  <2>3. Earlier(j) = {}
    <3>1. ASSUME NEW k \in Earlier(j)
          PROVE  FALSE
      <4>1. k \in W /\ k < j
        BY <3>1 DEF Earlier
      <4>2. j <= k
        BY <2>2, <4>1
      <4>3. j \in Nat /\ k \in Nat
        BY <2>1, <4>1
      <4> QED  BY <4>1, <4>2, <4>3
    <3> QED  BY <3>1
  <2>4. Cardinality(Earlier(j)) < ReadLimit
    BY <2>3, FS_EmptySet, RelayAssumption
  <2>5. rows[j].msg \in Pending(d)
    BY <2>4 DEF Pending
  <2> QED  BY <2>5
<1> QED  BY <1>1, <1>2

LEMMA ReadPendingKeeps ==
  ASSUME RelayInv, NEW d \in Devices, ReadPending(d)
  PROVE  RelayInv'
<1> DEFINE l == [link[d] EXCEPT !.due = FALSE, !.batch = Pending(d)]
<1>0. /\ TypeOK /\ LinksFit /\ LinkFits(d) /\ EnvelopesFit /\ NothingForgotten /\ TakenFits
      /\ link[d] \in LinkRecord
  BY LinkKinds DEF RelayInv, LinksFit
<1>1. /\ Pending(d) \subseteq MessagesTo(d) /\ Pending(d) \subseteq Message
      /\ \A m \in Pending(d) : Waiting(m)
      /\ \A m : Waiting(m) /\ m.to = d => Pending(d) # {}
  BY <1>0, PendingFacts, Travelling
<1>2. /\ l \in LinkRecord /\ l.open = link[d].open /\ l.hub = link[d].hub /\ l.late = link[d].late
      /\ l.batch = Pending(d) /\ l.inflight = link[d].inflight /\ l.recent = link[d].recent
      /\ l.down = link[d].down /\ link[d].due
  BY <1>0, <1>1 DEF LinkRecord, ReadPending
<1>3. link' = [link EXCEPT ![d] = l] /\ UNCHANGED <<rows, up, pushes, tasks, taken, client, paired, spent>>
  BY DEF ReadPending
<1> HIDE DEF l
<1>4. TypeOK'
  BY <1>0, <1>2, <1>3 DEF TypeOK, LinkRecord
<1>5. \A m : (Stored(m)' <=> Stored(m)) /\ (Waiting(m)' <=> Waiting(m))
  BY <1>3 DEF Stored, Waiting, RowIn
<1>6. l.open
  BY <1>0, <1>2 DEF LinkFits, NoLink
<1>7. l.batch \cup l.inflight \cup l.recent \cup l.down \subseteq MessagesTo(d)
  BY <1>0, <1>1, <1>2 DEF LinkFits
<1>8. /\ \A m \in l.recent : Stored(m) /\ ~Waiting(m)
      /\ l.batch \cap l.recent = {}
  BY <1>0, <1>1, <1>2 DEF LinkFits
<1>9. \A m : Waiting(m) /\ m.to = d => Attended(l)
  BY <1>1, <1>2 DEF Attended
<1>10. LinksFit' /\ NothingForgotten'
  BY <1>0, <1>2, <1>3, <1>4, <1>5, <1>6, <1>7, <1>8, <1>9, LinkMoves
<1>11. EnvelopesFit' /\ TasksFit' /\ AckedMeansAnswered'
  <2>1. Thinned
    BY <1>0, <1>3, FewerThins
  <2> QED  BY <1>0, <1>3, <1>4, <2>1, SameRows, QuietStep
<1>12. TakenFits'
  <2>1. link'["daemon"] = link["daemon"] \/ (d = "daemon" /\ link'["daemon"] = l)
    BY <1>0, <1>3 DEF TypeOK, Devices
  <2>2. spent'.connects = spent.connects /\ spent'.stalls = spent.stalls /\ spent.faults <= spent'.faults
    BY <1>0, <1>3, RelayAssumption DEF TypeOK
  <2> QED  BY <1>0, <1>2, <1>3, <1>4, <2>1, <2>2, TakenStays
<1> QED  BY <1>4, <1>10, <1>11, <1>12 DEF RelayInv, LinksFit

\* To send an envelope uses up the chance that it is sent.
LEMMA TakenSends ==
  ASSUME TypeOK, TypeOK', TakenFits, UNCHANGED <<taken, spent>>, NEW m,
         m \notin link["daemon"].inflight \cup link["daemon"].recent,
         link["daemon"].open,
         link'["daemon"].inflight = link["daemon"].inflight \cup {m},
         link'["daemon"].recent = link["daemon"].recent,
         link'["daemon"].down = link["daemon"].down \cup {m}
  PROVE  TakenFits'
<1>1. /\ spent \in [faults : 0..MaxFaults, stalls : 0..MaxFaults, connects : Nat]
      /\ spent' = spent
  BY DEF TypeOK
<1>2. ASSUME NEW a \in Attempts
      PROVE  taken'[a] + Chances(a)' <= spent'.connects + spent'.stalls
  <2>1. Chances(a) \in 0..2 /\ Chances(a)' \in 0..2
    BY DEF Chances
  <2>2. Chances(a)' <= Chances(a)
    <3>1. CASE Req(a) = m
      BY <3>1 DEF Chances
    <3>2. CASE Req(a) # m
      BY <3>2 DEF Chances
    <3> QED  BY <3>1, <3>2
  <2>3. taken[a] \in Nat /\ taken'[a] = taken[a]
    BY DEF TypeOK
  <2>4. taken[a] + Chances(a) <= spent.connects + spent.stalls
    BY DEF TakenFits
  <2> HIDE DEF Chances
  <2> QED  BY <1>1, <2>1, <2>2, <2>3, <2>4
<1> QED  BY <1>1, <1>2 DEF TakenFits

\* What RelayConnection.send keeps of the counters, for whichever device.
LEMMA TakenAfterSend ==
  ASSUME TypeOK, TypeOK', TakenFits, UNCHANGED <<taken, spent>>,
         NEW d \in Devices, NEW m \in Message, NEW l \in LinkRecord,
         link' = [link EXCEPT ![d] = l], link[d].open,
         l.open = Send(link[d], m).open, l.inflight = Send(link[d], m).inflight,
         l.recent = Send(link[d], m).recent, l.down = Send(link[d], m).down
  PROVE  TakenFits'
<1>1. link[d] \in LinkRecord
  BY LinkKinds
<1>2. spent'.connects = spent.connects /\ spent'.stalls = spent.stalls /\ spent.faults <= spent'.faults
  BY RelayAssumption DEF TypeOK
<1>3. CASE d = "client"
  <2>1. link'["daemon"] = link["daemon"]
    BY <1>3 DEF TypeOK, Devices
  <2> QED  BY <1>2, <2>1, TakenStays
<1>4. CASE d = "daemon"
  <2>1. link'["daemon"] = l
    BY <1>4 DEF TypeOK, Devices
  <2>2. CASE m \in link[d].inflight \cup link[d].recent
    <3>1. /\ link'["daemon"].down = link["daemon"].down
          /\ link'["daemon"].inflight = link["daemon"].inflight
          /\ link'["daemon"].recent = link["daemon"].recent
      BY <1>1, <1>4, <2>1, <2>2, SendFacts
    <3> QED  BY <1>2, <1>4, <3>1, TakenStays
  <2>3. CASE m \notin link[d].inflight \cup link[d].recent
    <3>1. /\ link'["daemon"].down = link["daemon"].down \cup {m}
          /\ link'["daemon"].inflight = link["daemon"].inflight \cup {m}
          /\ link'["daemon"].recent = link["daemon"].recent
      BY <1>1, <1>4, <2>1, <2>3, SendFacts
    <3> QED  BY <1>4, <2>3, <3>1, TakenSends
  <2> QED  BY <2>2, <2>3
<1> QED  BY <1>3, <1>4 DEF Devices

LEMMA SendPendingKeeps ==
  ASSUME RelayInv, NEW d \in Devices, NEW m, SendPending(d, m)
  PROVE  RelayInv'
<1> DEFINE s == Send(link[d], m)
           l == SendNext(link[d], m)
<1>0. /\ TypeOK /\ LinksFit /\ LinkFits(d) /\ EnvelopesFit /\ NothingForgotten /\ TakenFits
      /\ link[d] \in LinkRecord /\ m \in link[d].batch
  BY LinkKinds DEF RelayInv, LinksFit, SendPending
<1>1. m \in Message /\ m \in MessagesTo(d) /\ link[d].open
  BY <1>0, Travelling DEF LinkFits, NoLink
<1>2. /\ s \in LinkRecord
      /\ m \in link[d].inflight \cup link[d].recent => s = link[d]
      /\ m \notin link[d].inflight \cup link[d].recent =>
           s.inflight = link[d].inflight \cup {m} /\ s.down = link[d].down \cup {m}
      /\ s.open = link[d].open /\ s.hub = link[d].hub /\ s.due = link[d].due
      /\ s.late = link[d].late /\ s.batch = link[d].batch /\ s.recent = link[d].recent
  BY <1>0, <1>1, SendFacts
<1>3. link' = [link EXCEPT ![d] = l] /\ UNCHANGED <<rows, up, pushes, tasks, taken, client, paired, spent>>
  BY DEF SendPending
<1>4. l = [s EXCEPT !.batch = @ \ {m}]
  BY DEF SendNext
<1> HIDE DEF s, l
<1>5. /\ l \in LinkRecord /\ l.open = link[d].open /\ l.hub = link[d].hub /\ l.late = link[d].late
      /\ l.batch = link[d].batch \ {m} /\ l.inflight = s.inflight /\ l.recent = link[d].recent
      /\ l.down = s.down /\ l.due = link[d].due
  BY <1>2, <1>4 DEF LinkRecord
<1>6. TypeOK'
  BY <1>0, <1>5, <1>3 DEF TypeOK, LinkRecord
<1>7. \A n : (Stored(n)' <=> Stored(n)) /\ (Waiting(n)' <=> Waiting(n))
  BY <1>3 DEF Stored, Waiting, RowIn
<1>8. l.batch \cup l.inflight \cup l.recent \cup l.down \subseteq MessagesTo(d)
  BY <1>0, <1>1, <1>2, <1>5 DEF LinkFits
<1>9. /\ \A n \in l.recent : Stored(n) /\ ~Waiting(n)
      /\ l.batch \cap l.recent # {} => l.late
  BY <1>0, <1>5 DEF LinkFits
<1>10. Attended(l)
  <2>1. CASE m \in link[d].recent
    BY <1>0, <1>5, <2>1 DEF LinkFits, Attended
  <2>2. CASE m \notin link[d].recent
    <3>1. m \in s.inflight
      BY <1>2, <2>2
    <3> QED  BY <1>5, <3>1 DEF Attended
  <2> QED  BY <2>1, <2>2
<1>11. LinksFit' /\ NothingForgotten'
  BY <1>0, <1>1, <1>5, <1>3, <1>6, <1>7, <1>8, <1>9, <1>10, LinkMoves
<1>12. EnvelopesFit' /\ TasksFit' /\ AckedMeansAnswered'
  <2>1. Thinned
    BY <1>0, <1>3, FewerThins
  <2> QED  BY <1>0, <1>3, <1>6, <2>1, SameRows, QuietStep
<1>13. TakenFits'
  BY <1>0, <1>1, <1>2, <1>5, <1>3, <1>6, TakenAfterSend DEF s
<1> QED  BY <1>6, <1>11, <1>12, <1>13 DEF RelayInv, LinksFit

\* A message that is pushed goes to one of the devices.
LEMMA PushedFacts ==
  ASSUME EnvelopesFit, NEW m \in pushes
  PROVE  m \in Message /\ m.to \in Devices /\ m \in MessagesTo(m.to)
<1>1. m \in MessagesTo("client") \/ m \in MessagesTo("daemon")
  BY DEF EnvelopesFit
<1> QED  BY <1>1 DEF MessagesTo, Devices

LEMMA PushKeeps ==
  ASSUME RelayInv, NEW m, Push(m)
  PROVE  RelayInv'
<1> DEFINE d == m.to
           s == Send(link[d], m)
           l == IF link[d].hub THEN s ELSE link[d]
<1>0. /\ TypeOK /\ LinksFit /\ EnvelopesFit /\ NothingForgotten /\ TakenFits /\ m \in pushes
  BY DEF RelayInv, LinksFit, Push
<1>1. m \in Message /\ d \in Devices /\ m \in MessagesTo(d)
  BY <1>0, PushedFacts
<1>2. LinkFits(d) /\ link[d] \in LinkRecord
  BY <1>0, <1>1, LinkKinds DEF LinksFit
<1>3. /\ s \in LinkRecord
      /\ m \in link[d].inflight \cup link[d].recent => s = link[d]
      /\ m \notin link[d].inflight \cup link[d].recent =>
           s.inflight = link[d].inflight \cup {m} /\ s.down = link[d].down \cup {m}
      /\ s.open = link[d].open /\ s.hub = link[d].hub /\ s.due = link[d].due
      /\ s.late = link[d].late /\ s.batch = link[d].batch /\ s.recent = link[d].recent
  BY <1>1, <1>2, SendFacts
<1>4. /\ link' = [link EXCEPT ![d] = l] /\ pushes' = pushes \ {m}
      /\ UNCHANGED <<rows, up, tasks, taken, client, paired, spent>>
  BY DEF Push
<1> HIDE DEF s
<1>5. /\ l \in LinkRecord /\ l.open = link[d].open /\ l.hub = link[d].hub /\ l.late = link[d].late
      /\ l.batch = link[d].batch /\ l.recent = link[d].recent /\ l.due = link[d].due
  BY <1>2, <1>3
<1>6. l.inflight \subseteq link[d].inflight \cup {m} /\ l.down \subseteq link[d].down \cup {m}
  BY <1>3
<1>7. l.hub => \/ m \in link[d].recent /\ l = link[d]
               \/ m \in l.inflight
  BY <1>3, <1>5
<1>8. TypeOK'
  BY <1>0, <1>1, <1>4, <1>5 DEF TypeOK, LinkRecord
<1>9. \A n : (Stored(n)' <=> Stored(n)) /\ (Waiting(n)' <=> Waiting(n))
  BY <1>4 DEF Stored, Waiting, RowIn
<1>10. TakenFits'
  <2>1. CASE link[d].hub
    <3>1. link[d].open
      BY <1>2, <2>1 DEF LinkFits, NoLink
    <3> QED  BY <1>0, <1>1, <1>4, <1>5, <1>8, <2>1, <3>1, TakenAfterSend DEF s
  <2>2. CASE ~link[d].hub
    <3>1. link' = link
      BY <1>0, <1>1, <1>4, <2>2 DEF TypeOK
    <3>2. spent'.connects = spent.connects /\ spent'.stalls = spent.stalls /\ spent.faults <= spent'.faults
      BY <1>0, <1>4, RelayAssumption DEF TypeOK
    <3> QED  BY <1>0, <1>4, <1>8, <3>1, <3>2, TakenStays
  <2> QED  BY <2>1, <2>2
<1>11. ~l.open => l = NoLink
  <2>1. SUFFICES ASSUME ~link[d].open
                 PROVE  l = NoLink
    BY <1>5
  <2>2. link[d] = NoLink
    BY <1>2, <2>1 DEF LinkFits
  <2>3. ~link[d].hub
    BY <2>2 DEF NoLink
  <2> QED  BY <2>2, <2>3
<1> HIDE DEF l
<1>12. /\ l.batch \cup l.inflight \cup l.recent \cup l.down \subseteq MessagesTo(d)
       /\ \A n \in l.recent : Stored(n) /\ ~Waiting(n)
       /\ l.batch \cap l.recent # {} => l.late
  BY <1>1, <1>2, <1>5, <1>6 DEF LinkFits
<1>13. \A n : Waiting(n) /\ n.to = d /\ l.hub => n \in pushes' \/ Attended(l)
  <2>1. ASSUME NEW n, Waiting(n), n.to = d, l.hub
        PROVE  n \in pushes' \/ Attended(l)
    <3>1. CASE m \in l.inflight
      BY <3>1 DEF Attended
    <3>2. CASE m \in link[d].recent /\ l = link[d]
      <4>1. n # m
        BY <1>2, <2>1, <3>2 DEF LinkFits
      <4>2. n \in pushes \/ Attended(link[d])
        BY <1>0, <1>5, <2>1 DEF NothingForgotten, Attended, Waiting, RowIn
      <4> QED  BY <1>4, <3>2, <4>1, <4>2
    <3> QED  BY <1>7, <2>1, <3>1, <3>2
  <2> QED  BY <2>1
<1>14. LinksFit' /\ NothingForgotten'
  <2>1. \A n \in pushes : n.to # d => n \in pushes'
    BY <1>4
  <2> QED  BY <1>0, <1>1, <1>4, <1>5, <1>8, <1>9, <1>11, <1>12, <1>13, <2>1, LinkMoves
<1>15. EnvelopesFit' /\ TasksFit' /\ AckedMeansAnswered'
  <2>1. Thinned
    BY <1>0, <1>4, FewerThins
  <2> QED  BY <1>0, <1>4, <1>8, <2>1, SameRows, QuietStep
<1> QED  BY <1>8, <1>10, <1>14, <1>15 DEF RelayInv, LinksFit

\* A push that stalls raises the bound for the chance that it leaves.
LEMMA PushStallsKeeps ==
  ASSUME RelayInv, NEW m, PushStalls(m)
  PROVE  RelayInv'
<1> DEFINE d == m.to
           l == [link[d] EXCEPT !.hub = FALSE, !.down = @ \cup {m}]
<1>0. /\ TypeOK /\ LinksFit /\ EnvelopesFit /\ NothingForgotten /\ TakenFits /\ m \in pushes
  BY DEF RelayInv, LinksFit, PushStalls
<1>1. m \in Message /\ d \in Devices /\ m \in MessagesTo(d)
  BY <1>0, PushedFacts
<1>2. /\ LinkFits(d) /\ link[d] \in LinkRecord /\ link[d].hub
      /\ m \notin link[d].inflight \cup link[d].recent
  BY <1>0, <1>1, LinkKinds DEF LinksFit, PushStalls
<1>3. /\ l \in LinkRecord /\ l.open = link[d].open /\ l.hub = FALSE /\ l.late = link[d].late
      /\ l.batch = link[d].batch /\ l.recent = link[d].recent /\ l.due = link[d].due
      /\ l.inflight = link[d].inflight /\ l.down = link[d].down \cup {m}
  BY <1>1, <1>2 DEF LinkRecord
<1>4. /\ link' = [link EXCEPT ![d] = l] /\ pushes' = pushes \ {m}
      /\ UNCHANGED <<rows, up, tasks, taken, client, paired>>
  BY DEF PushStalls
<1>5. /\ spent.faults < MaxFaults
      /\ spent' = [spent EXCEPT !.faults = @ + 1, !.stalls = @ + 1]
  BY DEF PushStalls
<1> HIDE DEF l
<1>6. /\ spent' \in [faults : 0..MaxFaults, stalls : 0..MaxFaults, connects : Nat]
      /\ spent'.stalls = spent.stalls + 1 /\ spent'.connects = spent.connects
      /\ spent'.stalls <= spent'.faults
  <2>1. /\ spent \in [faults : 0..MaxFaults, stalls : 0..MaxFaults, connects : Nat]
        /\ spent.stalls <= spent.faults /\ MaxFaults \in Nat
    BY <1>0, RelayAssumption DEF TypeOK, TakenFits
  <2>2. /\ spent'.faults = spent.faults + 1 /\ spent'.stalls = spent.stalls + 1
        /\ spent'.connects = spent.connects
    BY <1>5, <2>1
  <2>3. spent.faults + 1 \in 0..MaxFaults /\ spent.stalls + 1 \in 0..MaxFaults
    BY <1>5, <2>1
  <2>4. spent' \in [faults : 0..MaxFaults, stalls : 0..MaxFaults, connects : Nat]
    BY <1>5, <2>1, <2>3
  <2> QED  BY <2>1, <2>2, <2>4
<1>7. TypeOK'
  BY <1>0, <1>1, <1>3, <1>4, <1>6 DEF TypeOK, LinkRecord
<1>8. \A n : (Stored(n)' <=> Stored(n)) /\ (Waiting(n)' <=> Waiting(n))
  BY <1>4 DEF Stored, Waiting, RowIn
<1>9. link[d].open
  BY <1>2 DEF LinkFits, NoLink
<1>10. LinksFit' /\ NothingForgotten'
  <2>1. /\ l.batch \cup l.inflight \cup l.recent \cup l.down \subseteq MessagesTo(d)
        /\ \A n \in l.recent : Stored(n) /\ ~Waiting(n)
        /\ l.batch \cap l.recent # {} => l.late
    BY <1>1, <1>2, <1>3 DEF LinkFits
  <2>2. \A n \in pushes : n.to # d => n \in pushes'
    BY <1>4
  <2>3. l.open /\ ~l.hub
    BY <1>3, <1>9
  <2> QED  BY <1>0, <1>1, <1>3, <1>4, <1>7, <1>8, <2>1, <2>2, <2>3, LinkMoves
<1>11. EnvelopesFit' /\ TasksFit' /\ AckedMeansAnswered'
  <2>1. Thinned
    BY <1>0, <1>4, FewerThins
  <2> QED  BY <1>0, <1>4, <1>7, <2>1, SameRows, QuietStep
<1>12. TakenFits'
  <2>1. ASSUME NEW a \in Attempts
        PROVE  taken'[a] + Chances(a)' <= spent'.connects + spent'.stalls
    <3>1. Chances(a) \in 0..2 /\ Chances(a)' \in 0..2
      BY DEF Chances
    <3>2. Chances(a)' <= Chances(a) + 1
      <4>1. CASE d = "client"
        <5>1. link'["daemon"] = link["daemon"]
          BY <1>0, <1>4, <4>1 DEF TypeOK, Devices
        <5> QED  BY <5>1 DEF Chances
      <4>2. CASE d = "daemon"
        <5>1. link'["daemon"] = l
          BY <1>0, <1>4, <4>2 DEF TypeOK, Devices
        <5> QED  BY <5>1, <4>2, <1>3, <1>2, <1>9 DEF Chances
      <4> QED  BY <1>1, <4>1, <4>2 DEF Devices
    <3>3. taken[a] \in Nat /\ taken'[a] = taken[a] /\ spent.connects \in Nat /\ spent.stalls \in Nat
      BY <1>0, <1>4, RelayAssumption DEF TypeOK
    <3>4. taken[a] + Chances(a) <= spent.connects + spent.stalls
      BY <1>0 DEF TakenFits
    <3> HIDE DEF Chances
    <3> QED  BY <1>6, <3>1, <3>2, <3>3, <3>4
  <2> QED  BY <1>6, <2>1 DEF TakenFits
<1> QED  BY <1>7, <1>10, <1>11, <1>12 DEF RelayInv, LinksFit

-----------------------------------------------------------------------------
(* Connections open and close.                                              *)

\* A connection that opens reads the queue first.
LEMMA OpeningKeeps ==
  ASSUME RelayInv, TypeOK', NEW d \in Devices, link' = [link EXCEPT ![d] = Opened],
         UNCHANGED <<rows, up, pushes, tasks, taken, paired>>,
         client'.attempt = client.attempt
  PROVE  /\ LinksFit' /\ NothingForgotten'
         /\ EnvelopesFit' /\ TasksFit' /\ AckedMeansAnswered'
<1>0. /\ TypeOK /\ LinksFit /\ EnvelopesFit /\ NothingForgotten
  BY DEF RelayInv, LinksFit
<1>1. /\ Opened \in LinkRecord /\ Opened.open /\ Opened.due
      /\ Opened.batch = {} /\ Opened.inflight = {} /\ Opened.recent = {} /\ Opened.down = {}
  BY DEF Opened, NoLink, LinkRecord
<1>2. \A n : (Stored(n)' <=> Stored(n)) /\ (Waiting(n)' <=> Waiting(n))
  BY DEF Stored, Waiting, RowIn
<1>3. Attended(Opened)
  BY <1>1 DEF Attended
<1>4. LinksFit' /\ NothingForgotten'
  BY <1>0, <1>1, <1>2, <1>3, LinkMoves
<1>5. Thinned
  BY <1>0, FewerThins
<1> QED  BY <1>0, <1>4, <1>5, SameRows, QuietStep

LEMMA DaemonConnectKeeps ==
  ASSUME RelayInv, DaemonConnect
  PROVE  RelayInv'
<1>0. /\ TypeOK /\ TakenFits /\ LinkFits("daemon") /\ "daemon" \in Devices
  BY DEF RelayInv, Devices
<1>1. /\ link' = [link EXCEPT !["daemon"] = Opened] /\ ~link["daemon"].open
      /\ spent' = [spent EXCEPT !.connects = @ + 1]
      /\ UNCHANGED <<rows, up, pushes, tasks, taken, client, paired>>
  BY DEF DaemonConnect
<1>2. Opened \in LinkRecord /\ Opened.down = {}
  BY DEF Opened, NoLink, LinkRecord
<1>3. /\ spent' \in [faults : 0..MaxFaults, stalls : 0..MaxFaults, connects : Nat]
      /\ spent'.stalls = spent.stalls /\ spent'.connects = spent.connects + 1
      /\ spent'.stalls <= spent'.faults
  BY <1>0, <1>1, RelayAssumption DEF TypeOK, TakenFits
<1>4. TypeOK'
  BY <1>0, <1>1, <1>2, <1>3 DEF TypeOK, LinkRecord
<1>5. /\ LinksFit' /\ NothingForgotten' /\ EnvelopesFit' /\ TasksFit' /\ AckedMeansAnswered'
  BY <1>0, <1>1, <1>4, OpeningKeeps
<1>6. ASSUME NEW a \in Attempts
      PROVE  taken'[a] + Chances(a)' <= spent'.connects + spent'.stalls
  <2>1. link["daemon"].down = {} /\ ~link["daemon"].open
    BY <1>0, <1>1 DEF LinkFits, NoLink
  <2>2. Chances(a) = 0 /\ Chances(a)' \in 0..1
    <3>1. link'["daemon"] = Opened
      BY <1>0, <1>1 DEF TypeOK
    <3> QED  BY <1>2, <2>1, <3>1 DEF Chances
  <2>3. taken[a] \in Nat /\ taken'[a] = taken[a] /\ spent.connects \in Nat /\ spent.stalls \in Nat
    BY <1>0, <1>1, RelayAssumption DEF TypeOK
  <2>4. taken[a] + Chances(a) <= spent.connects + spent.stalls
    BY <1>0 DEF TakenFits
  <2> HIDE DEF Chances
  <2> QED  BY <1>3, <2>2, <2>3, <2>4
<1>7. TakenFits'
  BY <1>3, <1>6 DEF TakenFits
<1> QED  BY <1>4, <1>5, <1>7 DEF RelayInv, LinksFit

LEMMA ClientConnectKeeps ==
  ASSUME RelayInv, ClientConnect
  PROVE  RelayInv'
<1>0. /\ TypeOK /\ TakenFits /\ "client" \in Devices
  BY DEF RelayInv, Devices
<1>1. /\ link' = [link EXCEPT !["client"] = Opened]
      /\ client' = [client EXCEPT !.socket = TRUE]
      /\ UNCHANGED <<rows, up, pushes, tasks, taken, paired, spent>>
  BY DEF ClientConnect
<1>2. Opened \in LinkRecord
  BY DEF Opened, NoLink, LinkRecord
<1>3. /\ client' \in [phase : {"idle", "waiting"}, attempt : 0..MaxAttempts, socket : BOOLEAN]
      /\ client'.attempt = client.attempt
  BY <1>0, <1>1 DEF TypeOK
<1>4. TypeOK'
  BY <1>0, <1>1, <1>2, <1>3 DEF TypeOK, LinkRecord
<1>5. /\ LinksFit' /\ NothingForgotten' /\ EnvelopesFit' /\ TasksFit' /\ AckedMeansAnswered'
  BY <1>0, <1>1, <1>3, <1>4, OpeningKeeps
<1>6. TakenFits'
  <2>1. link'["daemon"] = link["daemon"]
    BY <1>0, <1>1 DEF TypeOK, Devices
  <2>2. spent'.connects = spent.connects /\ spent'.stalls = spent.stalls /\ spent.faults <= spent'.faults
    BY <1>0, <1>1, RelayAssumption DEF TypeOK
  <2> QED  BY <1>0, <1>1, <1>4, <2>1, <2>2, TakenStays
<1> QED  BY <1>4, <1>5, <1>6 DEF RelayInv, LinksFit

\* What a failure costs.
LEMMA FaultFacts ==
  ASSUME TypeOK, Fault
  PROVE  /\ spent' \in [faults : 0..MaxFaults, stalls : 0..MaxFaults, connects : Nat]
         /\ spent'.connects = spent.connects /\ spent'.stalls = spent.stalls
         /\ spent.faults <= spent'.faults
<1>1. /\ spent \in [faults : 0..MaxFaults, stalls : 0..MaxFaults, connects : Nat]
      /\ MaxFaults \in Nat
  BY RelayAssumption DEF TypeOK
<1>2. spent.faults < MaxFaults /\ spent' = [spent EXCEPT !.faults = @ + 1]
  BY DEF Fault
<1>3. spent.faults + 1 \in 0..MaxFaults
  BY <1>1, <1>2
<1> QED  BY <1>1, <1>2, <1>3

LEMMA SpentStays ==
  ASSUME TypeOK, UNCHANGED spent
  PROVE  /\ spent' \in [faults : 0..MaxFaults, stalls : 0..MaxFaults, connects : Nat]
         /\ spent'.connects = spent.connects /\ spent'.stalls = spent.stalls
         /\ spent.faults <= spent'.faults
  BY RelayAssumption DEF TypeOK

LEMMA ClosedTypes ==
  ASSUME TypeOK, NEW d \in Devices, Closed(d)
  PROVE  /\ link' \in [Devices -> LinkRecord] /\ up' \subseteq Item /\ tasks' \subseteq tasks
<1>1. link' = [link EXCEPT ![d] = NoLink] /\ NoLink \in LinkRecord
  BY DEF Closed, NoLink, LinkRecord
<1>2. link' \in [Devices -> LinkRecord]
  BY <1>1 DEF TypeOK, LinkRecord
<1>3. PICK read \in SUBSET {it \in up : it.by = d} :
        up' = (up \ {it \in up : it.by = d}) \cup {[it EXCEPT !.live = FALSE] : it \in read}
  BY DEF Closed
<1>4. \A it \in up : it \in Item /\ [it EXCEPT !.live = FALSE] \in Item
  BY DEF TypeOK, Item
<1>5. up' \subseteq Item
  BY <1>3, <1>4
<1>6. tasks' \subseteq tasks
  BY DEF Closed
<1> QED  BY <1>2, <1>5, <1>6

\* A connection that breaks takes with it what it remembered and the tasks of
\* the daemon; rows and counters stay.
LEMMA ClosingKeeps ==
  ASSUME RelayInv, TypeOK', NEW d \in Devices, Closed(d),
         UNCHANGED <<rows, pushes, taken, paired>>, client'.attempt = client.attempt,
         spent'.connects = spent.connects, spent'.stalls = spent.stalls,
         spent.faults <= spent'.faults
  PROVE  RelayInv'
<1>0. /\ TypeOK /\ LinksFit /\ EnvelopesFit /\ NothingForgotten /\ TakenFits
  BY DEF RelayInv, LinksFit
<1>1. link' = [link EXCEPT ![d] = NoLink] /\ tasks' \subseteq tasks
  BY <1>0, ClosedTypes DEF Closed
<1>2. /\ NoLink \in LinkRecord /\ ~NoLink.hub /\ ~NoLink.open
      /\ NoLink.batch = {} /\ NoLink.inflight = {} /\ NoLink.recent = {} /\ NoLink.down = {}
  BY DEF NoLink, LinkRecord
<1>3. \A n : (Stored(n)' <=> Stored(n)) /\ (Waiting(n)' <=> Waiting(n))
  BY DEF Stored, Waiting, RowIn
<1>4. LinksFit' /\ NothingForgotten'
  BY <1>0, <1>1, <1>2, <1>3, LinkMoves
<1>5. EnvelopesFit' /\ TasksFit' /\ AckedMeansAnswered'
  BY <1>0, <1>1, ClosingThins, SameRows, QuietStep
<1>6. link'["daemon"] = link["daemon"] \/ link'["daemon"] = NoLink
  BY <1>0, <1>1 DEF TypeOK, Devices
<1>7. TakenFits'
  BY <1>0, <1>2, <1>6, TakenStays
<1> QED  BY <1>4, <1>5, <1>7 DEF RelayInv, LinksFit

LEMMA LoseKeeps ==
  ASSUME RelayInv, NEW d \in Devices, Lose(d)
  PROVE  RelayInv'
<1>0. TypeOK /\ Closed(d) /\ Fault /\ UNCHANGED <<rows, pushes, taken, client, paired>>
  BY DEF RelayInv, Lose
<1>1. TypeOK'
  BY <1>0, ClosedTypes, FaultFacts DEF TypeOK, LinkRecord
<1> QED  BY <1>0, <1>1, FaultFacts, ClosingKeeps

LEMMA GiveUpKeeps ==
  ASSUME RelayInv, GiveUp
  PROVE  RelayInv'
<1>0. /\ TypeOK /\ "client" \in Devices /\ Closed("client") /\ (Fault \/ UNCHANGED spent)
      /\ client' = [client EXCEPT !.phase = "idle", !.socket = FALSE]
      /\ UNCHANGED <<rows, pushes, taken, paired>>
  BY DEF RelayInv, GiveUp, Devices
<1>1. /\ client' \in [phase : {"idle", "waiting"}, attempt : 0..MaxAttempts, socket : BOOLEAN]
      /\ client'.attempt = client.attempt
  BY <1>0 DEF TypeOK
<1>2. /\ spent' \in [faults : 0..MaxFaults, stalls : 0..MaxFaults, connects : Nat]
      /\ spent'.connects = spent.connects /\ spent'.stalls = spent.stalls
      /\ spent.faults <= spent'.faults
  BY <1>0, FaultFacts, SpentStays
<1>3. TypeOK'
  BY <1>0, <1>1, <1>2, ClosedTypes DEF TypeOK, LinkRecord
<1> QED  BY <1>0, <1>1, <1>2, <1>3, ClosingKeeps

LEMMA RelayRestartKeeps ==
  ASSUME RelayInv, RelayRestart
  PROVE  RelayInv'
<1>0. /\ TypeOK /\ EnvelopesFit /\ NothingForgotten /\ TakenFits
      /\ link' = [d \in Devices |-> NoLink] /\ up' = {} /\ pushes' = {} /\ tasks' = {}
      /\ UNCHANGED <<rows, taken, client, paired>> /\ Fault
  BY DEF RelayInv, RelayRestart
<1>1. /\ NoLink \in LinkRecord /\ ~NoLink.hub /\ ~NoLink.open
      /\ NoLink.batch = {} /\ NoLink.inflight = {} /\ NoLink.recent = {} /\ NoLink.down = {}
  BY DEF NoLink, LinkRecord
<1>2. TypeOK'
  BY <1>0, <1>1, FaultFacts DEF TypeOK, LinkRecord
<1>3. \A d \in Devices : link'[d] = NoLink
  BY <1>0
<1>4. LinksFit'
  BY <1>1, <1>3 DEF LinksFit, LinkFits
<1>5. NothingForgotten'
  <2>1. \A i \in DOMAIN rows : rows[i].msg.to \in Devices
    BY <1>0, RowFacts DEF Row, Message
  <2> QED  BY <1>0, <1>1, <1>3, <2>1 DEF NothingForgotten
<1>6. EnvelopesFit' /\ TasksFit' /\ AckedMeansAnswered'
  <2>1. Thinned
    BY <1>0, FewerThins
  <2> QED  BY <1>0, <1>2, <2>1, SameRows, QuietStep
<1>7. TakenFits'
  <2>1. link'["daemon"] = NoLink
    BY <1>3 DEF Devices
  <2> QED  BY <1>0, <1>1, <1>2, <2>1, FaultFacts, TakenStays
<1> QED  BY <1>2, <1>4, <1>5, <1>6, <1>7 DEF RelayInv, LinksFit

-----------------------------------------------------------------------------
(* Rows age.                                                                *)

LEMMA AgeingKeeps ==
  ASSUME RelayInv, rows' \in Seq(Row), Aged,
         \A i \in DOMAIN rows : rows'[i].state = "acked" => rows[i].state = "acked",
         Fault, UNCHANGED <<link, up, pushes, tasks, taken, client, paired>>
  PROVE  RelayInv'
<1>0. TypeOK /\ LinksFit /\ EnvelopesFit /\ NothingForgotten /\ TakenFits
  BY DEF RelayInv, LinksFit
<1>1. TypeOK'
  BY <1>0, FaultFacts DEF TypeOK, Row
<1>2. LinksFit' /\ NothingForgotten'
  BY <1>0, AgedFacts, LinksStay
<1>3. EnvelopesFit' /\ TasksFit' /\ AckedMeansAnswered'
  BY <1>0, <1>1, FewerThins, QuietStep
<1>4. TakenFits'
  BY <1>0, <1>1, FaultFacts, TakenStays
<1> QED  BY <1>1, <1>2, <1>3, <1>4 DEF RelayInv, LinksFit

LEMMA ExpireKeeps ==
  ASSUME RelayInv, NEW i, Expire(i)
  PROVE  RelayInv'
<1>0. /\ TypeOK /\ i \in DOMAIN rows /\ Fault
      /\ rows' = [rows EXCEPT ![i] = [rows[i] EXCEPT !.state = "expired"]]
      /\ UNCHANGED <<link, up, pushes, tasks, taken, client, paired>>
  BY DEF RelayInv, Expire
<1>1. rows[i] \in Row /\ [rows[i] EXCEPT !.state = "expired"] = [msg |-> rows[i].msg, state |-> "expired"]
  BY <1>0, RowFacts DEF Row
<1>2. rows' = [rows EXCEPT ![i] = [msg |-> rows[i].msg, state |-> "expired"]]
  BY <1>0, <1>1
<1>3. ASSUME NEW j \in DOMAIN rows
      PROVE  /\ rows'[j] \in Row /\ rows'[j].msg = rows[j].msg
             /\ j = i => rows'[j].state = "expired"
             /\ j # i => rows'[j] = rows[j]
  <2>1. rows[j] \in Row
    BY <1>0, RowFacts
  <2> QED  BY <1>1, <1>2, <2>1 DEF Row, RowStates
<1>4. rows' = [j \in DOMAIN rows |-> rows'[j]] /\ DOMAIN rows' = DOMAIN rows
  BY <1>2
<1>5. rows' \in Seq(Row)
  BY <1>0, <1>3, <1>4, RowsTyped
<1>6. Aged /\ \A j \in DOMAIN rows : rows'[j].state = "acked" => rows[j].state = "acked"
  BY <1>3, <1>4 DEF Aged, Row
<1> QED  BY <1>0, <1>5, <1>6, AgeingKeeps

LEMMA CleanupKeeps ==
  ASSUME RelayInv, Cleanup
  PROVE  RelayInv'
<1>0. TypeOK /\ Fault /\ UNCHANGED <<link, up, pushes, tasks, taken, client, paired>>
  BY DEF RelayInv, Cleanup
<1>1. PICK n \in 0..Len(rows) : rows' = [i \in DOMAIN rows |->
        IF i > n /\ rows[i].state = "waiting" THEN rows[i] ELSE [rows[i] EXCEPT !.state = "gone"]]
  BY DEF Cleanup
<1>2. rows' = [j \in DOMAIN rows |-> rows'[j]] /\ DOMAIN rows' = DOMAIN rows
  BY <1>1
<1>3. ASSUME NEW j \in DOMAIN rows
      PROVE  /\ rows'[j] \in Row /\ rows'[j].msg = rows[j].msg
             /\ rows'[j] = rows[j] \/ rows'[j].state = "gone"
  <2>1. rows[j] \in Row /\ [rows[j] EXCEPT !.state = "gone"] = [msg |-> rows[j].msg, state |-> "gone"]
    BY <1>0, RowFacts DEF Row
  <2>2. rows'[j] = rows[j] \/ rows'[j] = [msg |-> rows[j].msg, state |-> "gone"]
    BY <1>1, <2>1
  <2> QED  BY <2>1, <2>2 DEF Row, RowStates
<1>4. rows' \in Seq(Row)
  BY <1>0, <1>2, <1>3, RowsTyped
<1>5. Aged /\ \A j \in DOMAIN rows : rows'[j].state = "acked" => rows[j].state = "acked"
  BY <1>2, <1>3 DEF Aged, Row
<1> QED  BY <1>0, <1>4, <1>5, AgeingKeeps

-----------------------------------------------------------------------------
(* The bridge and the client.                                               *)

\* Rows, connections and counters stay as they are.
LEMMA RelayStays ==
  ASSUME RelayInv, TypeOK', UNCHANGED <<rows, link, pushes, taken>>,
         spent'.connects = spent.connects, spent'.stalls = spent.stalls,
         spent.faults <= spent'.faults
  PROVE  LinksFit' /\ NothingForgotten' /\ TakenFits'
<1>0. TypeOK /\ LinksFit /\ NothingForgotten /\ TakenFits
  BY DEF RelayInv, LinksFit
<1>1. \A n : (Stored(n)' <=> Stored(n)) /\ (Waiting(n)' <=> Waiting(n))
  BY DEF Stored, Waiting, RowIn
<1> QED  BY <1>0, <1>1, LinksStay, TakenStays

LEMMA OnwardAlone ==
  ASSUME TypeOK, TypeOK', UNCHANGED <<rows, taken>>, paired' => paired,
         client.attempt <= client'.attempt
  PROVE  Onward /\ \A m : Stored(m)' <=> Stored(m)
<1>1. \A m : Stored(m)' <=> Stored(m)
  BY DEF Stored, RowIn
<1>2. \A a \in Attempts : taken[a] <= taken'[a]
  BY DEF TypeOK
<1> QED  BY <1>1, <1>2 DEF Onward

LEMMA UnpairKeeps ==
  ASSUME RelayInv, Unpair
  PROVE  RelayInv'
<1>0. /\ TypeOK /\ EnvelopesFit /\ paired' = FALSE /\ Fault
      /\ UNCHANGED <<rows, link, up, pushes, tasks, taken, client>>
  BY DEF RelayInv, Unpair
<1>1. TypeOK'
  BY <1>0, FaultFacts DEF TypeOK
<1>2. EnvelopesFit' /\ TasksFit' /\ AckedMeansAnswered'
  <2>1. ~paired'
    BY <1>0, Zenon
  <2> QED  BY <1>0, <1>1, <2>1, FewerThins, SameRows, QuietStep
<1> QED  BY <1>0, <1>1, <1>2, FaultFacts, RelayStays DEF RelayInv, LinksFit

LEMMA HandlerFailsKeeps ==
  ASSUME RelayInv, NEW t, HandlerFails(t)
  PROVE  RelayInv'
<1>0. /\ TypeOK /\ EnvelopesFit /\ tasks' = tasks \ {t} /\ Fault
      /\ UNCHANGED <<rows, link, up, pushes, taken, client, paired>>
  BY DEF RelayInv, HandlerFails
<1>1. TypeOK'
  BY <1>0, FaultFacts DEF TypeOK
<1>2. EnvelopesFit' /\ TasksFit' /\ AckedMeansAnswered'
  BY <1>0, <1>1, FewerThins, SameRows, QuietStep
<1> QED  BY <1>0, <1>1, <1>2, FaultFacts, RelayStays DEF RelayInv, LinksFit

\* The phase that a task is launched in.
LEMMA BegunFacts ==
  ASSUME NEW t \in Task, paired \in BOOLEAN
  PROVE  /\ Begun(t) \in Task /\ Begun(t).attempt = t.attempt /\ Begun(t).nth = t.nth
         /\ Begun(t).phase \in {"running", "refused"}
         /\ Begun(t).phase = "refused" => ~paired
<1>1. CASE paired
  <2>1. Begun(t) = [attempt |-> t.attempt, nth |-> t.nth, phase |-> "running"]
    BY <1>1 DEF Begun, Task
  <2> QED  BY <2>1 DEF Task, Phases
<1>2. CASE ~paired
  <2>1. Begun(t) = [attempt |-> t.attempt, nth |-> t.nth, phase |-> "refused"]
    BY <1>2 DEF Begun, Task
  <2> QED  BY <1>2, <2>1 DEF Task, Phases
<1> QED  BY <1>1, <1>2

LEMMA LaunchKeeps ==
  ASSUME RelayInv, NEW t, Launch(t)
  PROVE  RelayInv'
<1>0. /\ TypeOK /\ EnvelopesFit /\ TasksFit /\ AckedMeansAnswered
      /\ t \in tasks /\ t.phase = "deferred" /\ t \in Task /\ paired \in BOOLEAN
      /\ tasks' = (tasks \ {t}) \cup {Begun(t)}
      /\ UNCHANGED <<rows, link, up, pushes, taken, client, paired, spent>>
  BY DEF RelayInv, Launch, Deferred, Working, TypeOK, Task
<1>1. PICK u \in Task : /\ u = Begun(t) /\ u.attempt = t.attempt /\ u.nth = t.nth
                        /\ u.phase \in {"running", "refused"}
                        /\ u.phase = "refused" => ~paired
  BY <1>0, BegunFacts
<1>2. TypeOK'
  BY <1>0, <1>1 DEF TypeOK, Task
<1>3. Onward /\ \A m : Stored(m)' <=> Stored(m)
  <2>1. client.attempt <= client'.attempt
    BY <1>0, RelayAssumption DEF TypeOK
  <2> QED  BY <1>0, <1>2, <2>1, OnwardAlone
<1>4. EnvelopesFit'
  BY <1>0, <1>2, <1>3, FewerThins, EnvelopesStay
<1>5. TasksFit'
  <2>1. TaskFits(t)
    BY <1>0 DEF TasksFit, TaskFits
  <2>2. \A m : Submits(m)' = Submits(m)
    BY <1>0 DEF Submits
  <2>3. TaskFits(u)'
    BY <1>0, <1>1, <1>3, <2>1, <2>2 DEF TaskFits
  <2> QED  BY <1>0, <1>1, <1>2, <1>3, <2>2, <2>3, TaskMoves
<1>6. AckedMeansAnswered'
  BY <1>0, <1>2, <1>3, AckedStays
<1> QED  BY <1>0, <1>2, <1>4, <1>5, <1>6, SpentStays, RelayStays DEF RelayInv, LinksFit

LEMMA RespondKeeps ==
  ASSUME RelayInv, NEW t, Respond(t)
  PROVE  RelayInv'
<1> DEFINE u == [t EXCEPT !.phase = "submitted"]
           r == Resp(t.attempt, t.nth)
           x == Submitted(r)
<1>0. /\ TypeOK /\ EnvelopesFit /\ TasksFit /\ AckedMeansAnswered
      /\ t \in tasks /\ t.phase = "running" /\ t \in Task
      /\ tasks' = (tasks \ {t}) \cup {u} /\ up' = up \cup {x}
      /\ UNCHANGED <<rows, link, pushes, taken, client, paired, spent>>
  BY DEF RelayInv, Respond, TypeOK, Task
<1>1. u \in Task /\ u.attempt = t.attempt /\ u.nth = t.nth /\ u.phase = "submitted"
  BY <1>0 DEF Task, Phases
<1>2. /\ TaskFits(t) /\ t.attempt \in Attempts /\ t.nth \in Nat \ {0} /\ t.nth <= taken[t.attempt]
      /\ taken[t.attempt] \in Nat
  <2>1. TaskFits(t)
    BY <1>0 DEF TasksFit, TaskFits
  <2>2. t.attempt \in Attempts /\ taken[t.attempt] \in Nat
    BY <1>0 DEF Task, TypeOK
  <2>3. t.nth \in 1..taken[t.attempt]
    BY <2>1 DEF TaskFits
  <2> QED  BY <2>1, <2>2, <2>3
<1>3. /\ r \in MessagesTo("client") /\ r \in Message
      /\ r.to = "client" /\ r.attempt = t.attempt /\ r.nth = t.nth
  BY <1>2, Travelling DEF Resp, Devices
<1>4. /\ x \in Item /\ x.kind = "submit" /\ x.msg = r /\ x.by = Other(r.to)
  BY <1>3 DEF Submitted, Item, Other, Devices
<1> HIDE DEF u, r, x
<1>5. TypeOK'
  BY <1>0, <1>1, <1>4 DEF TypeOK, Task
<1>6. Onward /\ \A m : Stored(m)' <=> Stored(m)
  <2>1. client.attempt <= client'.attempt
    BY <1>0, RelayAssumption DEF TypeOK
  <2> QED  BY <1>0, <1>5, <2>1, OnwardAlone
<1>7. EnvelopesFit'
  <2>1. Numbered(r)'
    BY <1>0, <1>2, <1>3 DEF Numbered
  <2>2. ~Stored(r) /\ Submits(r) = {}
    BY <1>0, <1>2 DEF TaskFits, r
  <2> QED  BY <1>0, <1>4, <1>5, <1>6, <2>1, <2>2, EnvelopesGrow
<1>8. TasksFit'
  <2>1. TaskFits(u)'
    BY <1>0, <1>1, <1>2, <1>6 DEF TaskFits
  <2>2. \A m : Submits(m)' \subseteq Submits(m) \/ m = Resp(t.attempt, t.nth)
    BY <1>0, <1>4 DEF Submits, r
  <2> QED  BY <1>0, <1>1, <1>5, <1>6, <2>1, <2>2, TaskMoves
<1>9. AckedMeansAnswered'
  BY <1>0, <1>5, <1>6, AckedStays
<1> QED  BY <1>0, <1>5, <1>7, <1>8, <1>9, SpentStays, RelayStays DEF RelayInv, LinksFit

\* A task that ends by itself has an answer stored, or answers to nobody.
LEMMA FinishKeeps ==
  ASSUME RelayInv, NEW t, Finish(t)
  PROVE  RelayInv'
<1> DEFINE x == Acked("daemon", Req(t.attempt))
<1>0. /\ TypeOK /\ EnvelopesFit /\ TasksFit /\ AckedMeansAnswered
      /\ t \in tasks /\ t.phase \in {"accepted", "refused"} /\ t \in Task
      /\ tasks' = tasks \ {t} /\ up' = up \cup {x}
      /\ UNCHANGED <<rows, link, pushes, taken, client, paired, spent>>
  BY DEF RelayInv, Finish, TypeOK, Task
<1>1. TaskFits(t) /\ t.attempt \in Attempts
  BY <1>0 DEF TasksFit, TaskFits, Task
<1>2. /\ Req(t.attempt) \in MessagesTo("daemon") /\ Req(t.attempt) \in Message
      /\ Req(t.attempt).attempt = t.attempt
  BY <1>1, Travelling DEF Req, Devices
<1>3. x \in Item /\ x.kind = "ack" /\ x.msg = Req(t.attempt) /\ x.by = "daemon"
  BY <1>2 DEF Acked, Item, Devices
<1> HIDE DEF x
<1>4. TypeOK'
  BY <1>0, <1>3 DEF TypeOK
<1>5. Onward /\ \A m : Stored(m)' <=> Stored(m)
  <2>1. client.attempt <= client'.attempt
    BY <1>0, RelayAssumption DEF TypeOK
  <2> QED  BY <1>0, <1>4, <2>1, OnwardAlone
<1>6. Answered(t.attempt)'
  <2>1. Answered(t.attempt)
    BY <1>0, <1>1 DEF TaskFits, Answered
  <2> QED  BY <1>0, <1>1, <1>4, <1>5, <2>1, AnsweredStays
<1>7. EnvelopesFit'
  BY <1>0, <1>2, <1>3, <1>4, <1>5, <1>6, EnvelopesGrow
<1>8. TasksFit'
  <2>1. \A m : Submits(m)' = Submits(m)
    BY <1>0, <1>3 DEF Submits
  <2> QED  BY <1>0, <1>4, <1>5, <2>1, TasksStay
<1>9. AckedMeansAnswered'
  BY <1>0, <1>4, <1>5, AckedStays
<1> QED  BY <1>0, <1>4, <1>7, <1>8, <1>9, SpentStays, RelayStays DEF RelayInv, LinksFit

\* A response is known by a delivery that did happen.
LEMMA NoLaterResponse ==
  ASSUME TypeOK, EnvelopesFit, NEW a \in Attempts, NEW n \in Nat, n > taken[a]
  PROVE  ~Stored(Resp(a, n)) /\ Submits(Resp(a, n)) = {}
<1>1. ~Numbered(Resp(a, n))
  <2>1. taken[a] \in Nat
    BY DEF TypeOK
  <2> QED  BY <2>1 DEF Numbered, Resp
<1>2. ~Stored(Resp(a, n))
  BY <1>1 DEF Stored, RowIn, EnvelopesFit
<1>3. Submits(Resp(a, n)) = {}
  BY <1>1 DEF Submits, EnvelopesFit
<1> QED  BY <1>2, <1>3

\* A request that is handed to a task uses up a chance and gets a new number.
LEMMA HandedOverKeeps ==
  ASSUME RelayInv, NEW m \in link["daemon"].down, NEW v \in Task,
         v.attempt = m.attempt, v.nth = taken[m.attempt] + 1,
         v.phase \in {"deferred", "running", "refused"}, v.phase = "refused" => ~paired,
         tasks' = tasks \cup {v}, taken' = [taken EXCEPT ![m.attempt] = @ + 1],
         link' = [link EXCEPT !["daemon"] = [link["daemon"] EXCEPT !.down = @ \ {m}]],
         UNCHANGED <<rows, up, pushes, client, paired, spent>>
  PROVE  RelayInv'
<1> DEFINE l == [link["daemon"] EXCEPT !.down = @ \ {m}]
<1>0. /\ TypeOK /\ LinksFit /\ LinkFits("daemon") /\ EnvelopesFit /\ TasksFit
      /\ AckedMeansAnswered /\ NothingForgotten /\ TakenFits
      /\ "daemon" \in Devices /\ link["daemon"] \in LinkRecord
  BY LinkKinds DEF RelayInv, LinksFit, Devices
<1>1. /\ m \in MessagesTo("daemon") /\ m.attempt \in Attempts /\ m = Req(m.attempt)
  BY <1>0, Travelling DEF LinkFits
<1>2. /\ l \in LinkRecord /\ l.open = link["daemon"].open /\ l.hub = link["daemon"].hub
      /\ l.late = link["daemon"].late /\ l.due = link["daemon"].due
      /\ l.batch = link["daemon"].batch /\ l.recent = link["daemon"].recent
      /\ l.inflight = link["daemon"].inflight /\ l.down = link["daemon"].down \ {m}
  BY <1>0 DEF LinkRecord
<1>3. link' = [link EXCEPT !["daemon"] = l]
  OBVIOUS
<1> HIDE DEF l
<1>4. /\ taken \in [Attempts -> Nat] /\ taken' \in [Attempts -> Nat]
      /\ taken'[m.attempt] = taken[m.attempt] + 1
      /\ \A a \in Attempts \ {m.attempt} : taken'[a] = taken[a]
  BY <1>0, <1>1 DEF TypeOK
<1>5. TypeOK'
  <2>1. tasks' \subseteq Task
    BY <1>0 DEF TypeOK, Task
  <2>2. link' \in [Devices -> LinkRecord]
    BY <1>0, <1>2, <1>3 DEF TypeOK, LinkRecord
  <2> QED  BY <1>0, <1>4, <2>1, <2>2 DEF TypeOK, LinkRecord, Task
<1>6. /\ \A n : (Stored(n)' <=> Stored(n)) /\ (Waiting(n)' <=> Waiting(n))
      /\ \A n : Submits(n)' = Submits(n)
  BY DEF Stored, Waiting, RowIn, Submits
<1>7. Onward
  <2>1. client.attempt <= client'.attempt
    BY <1>0, RelayAssumption DEF TypeOK
  <2>2. \A a \in Attempts : taken[a] <= taken'[a]
    BY <1>4
  <2> QED  BY <1>6, <2>1, <2>2 DEF Onward
<1>8. LinksFit' /\ NothingForgotten'
  <2>1. ~l.open => l = NoLink
    <3>1. link["daemon"].open
      BY <1>0 DEF LinkFits, NoLink
    <3> QED  BY <1>2, <3>1
  <2>2. l.batch \cup l.inflight \cup l.recent \cup l.down \subseteq MessagesTo("daemon")
    BY <1>0, <1>2 DEF LinkFits
  <2>3. /\ \A n \in l.recent : Stored(n) /\ ~Waiting(n)
        /\ l.batch \cap l.recent # {} => l.late
    BY <1>0, <1>2 DEF LinkFits
  <2>4. \A n : Waiting(n) /\ n.to = "daemon" /\ l.hub => n \in pushes' \/ Attended(l)
    BY <1>0, <1>2 DEF NothingForgotten, Attended, Waiting, RowIn
  <2> QED  BY <1>0, <1>2, <1>3, <1>5, <1>6, <2>1, <2>2, <2>3, <2>4, LinkMoves
<1>9. EnvelopesFit'
  BY <1>0, <1>5, <1>6, <1>7, FewerThins, EnvelopesStay
<1>10. TasksFit'
  <2>1. /\ v.nth \in Nat /\ v.attempt \in Attempts /\ v.nth > taken[v.attempt]
        /\ v.nth \in 1..taken'[v.attempt]
    BY <1>1, <1>4
  <2>2. ~Stored(Resp(v.attempt, v.nth)) /\ Submits(Resp(v.attempt, v.nth)) = {}
    BY <1>0, <2>1, NoLaterResponse
  <2>3. TaskFits(v)'
    BY <1>6, <2>1, <2>2 DEF TaskFits
  <2>4. ASSUME NEW u \in tasks
        PROVE  TaskFits(u)' /\ ~(u.attempt = v.attempt /\ u.nth = v.nth)
    <3>1. u \in Task /\ TaskFits(u)
      BY <1>0 DEF TypeOK, Task, TasksFit, TaskFits
    <3>2. u.attempt \in Attempts /\ u.nth \in Nat /\ u.nth <= taken[u.attempt]
      <4>1. u.attempt \in Attempts /\ u.nth \in 1..taken[u.attempt]
        BY <3>1 DEF Task, TaskFits
      <4> QED  BY <1>4, <4>1
    <3>3. TaskFits(u)'
      <4>1. u.phase \in {"deferred", "running"} =>
              ~Stored(Resp(u.attempt, u.nth))' /\ Submits(Resp(u.attempt, u.nth))' = {}
        BY <1>6, <3>1 DEF TaskFits
      <4> QED  BY <1>0, <1>5, <1>7, <3>1, <4>1, TaskStays
    <3> QED  BY <1>4, <2>1, <3>2, <3>3
  <2>5. \A t, u \in tasks' : u.attempt = t.attempt /\ u.nth = t.nth => u = t
    BY <1>0, <2>4 DEF TasksFit
  <2>6. \A t \in tasks' : TaskFits(t)'
    BY <2>3, <2>4
  <2> QED  BY <2>5, <2>6 DEF TasksFit, TaskFits
<1>11. AckedMeansAnswered'
  BY <1>0, <1>5, <1>7, AckedStays
<1>12. ASSUME NEW a \in Attempts
       PROVE  taken'[a] + Chances(a)' <= spent'.connects + spent'.stalls
  <2>1. link'["daemon"] = l
    BY <1>0, <1>3 DEF TypeOK
  <2>2. Chances(a) \in 0..2 /\ Chances(a)' \in 0..2
    BY DEF Chances
  <2>3. a = m.attempt => Chances(a)' = Chances(a) - 1
    BY <1>1, <1>2, <2>1 DEF Chances
  <2>4. Chances(a)' <= Chances(a)
    BY <1>2, <2>1 DEF Chances
  <2>5. taken[a] + Chances(a) <= spent.connects + spent.stalls
    BY <1>0 DEF TakenFits
  <2>6. spent.connects \in Nat /\ spent.stalls \in Nat /\ taken[a] \in Nat
    BY <1>0, RelayAssumption DEF TypeOK
  <2> HIDE DEF Chances
  <2>7. CASE a = m.attempt
    BY <1>4, <2>2, <2>3, <2>5, <2>6, <2>7
  <2>8. CASE a # m.attempt
    BY <1>4, <2>2, <2>4, <2>5, <2>6, <2>8
  <2> QED  BY <2>7, <2>8
<1>13. TakenFits'
  BY <1>0, <1>12 DEF TakenFits
<1> QED  BY <1>5, <1>8, <1>9, <1>10, <1>11, <1>13 DEF RelayInv, LinksFit

LEMMA TakeKeeps ==
  ASSUME RelayInv, NEW m, Take(m)
  PROVE  RelayInv'
<1> DEFINE t == [attempt |-> m.attempt, nth |-> taken[m.attempt] + 1, phase |-> "deferred"]
           Room == Cardinality(Working) < MaxInflight
<1>0. /\ TypeOK /\ LinkFits("daemon") /\ m \in link["daemon"].down /\ "daemon" \in Devices
      /\ UNCHANGED <<rows, pushes, client, paired>>
  BY DEF RelayInv, Take, Devices
<1>1. m.attempt \in Attempts
  BY <1>0, Travelling DEF LinkFits
<1>2. t \in Task /\ paired \in BOOLEAN
  <2>1. taken[m.attempt] \in Nat
    BY <1>0, <1>1 DEF TypeOK
  <2> QED  BY <1>0, <1>1, <2>1 DEF Task, Phases, TypeOK
<1>3. CASE /\ tasks' = tasks \cup {IF Room THEN Begun(t) ELSE t}
           /\ taken' = [taken EXCEPT ![m.attempt] = @ + 1]
           /\ link' = [link EXCEPT !["daemon"].down = @ \ {m}]
           /\ UNCHANGED <<up, spent>>
  <2>1. PICK v : v = IF Room THEN Begun(t) ELSE t
    OBVIOUS
  <2>2. /\ v \in Task /\ v.attempt = m.attempt /\ v.nth = taken[m.attempt] + 1
        /\ v.phase \in {"deferred", "running", "refused"} /\ (v.phase = "refused" => ~paired)
    <3>1. /\ Begun(t) \in Task /\ Begun(t).attempt = t.attempt /\ Begun(t).nth = t.nth
          /\ Begun(t).phase \in {"running", "refused"}
          /\ Begun(t).phase = "refused" => ~paired
      BY <1>2, BegunFacts
    <3>2. CASE Room
      BY <2>1, <3>1, <3>2
    <3>3. CASE ~Room
      BY <1>2, <2>1, <3>3
    <3> QED  BY <3>2, <3>3
  <2>3. link' = [link EXCEPT !["daemon"] = [link["daemon"] EXCEPT !.down = @ \ {m}]]
    BY <1>3
  <2>4. tasks' = tasks \cup {v}
    BY <1>3, <2>1
  <2> QED  BY <1>0, <1>3, <2>2, <2>3, <2>4, HandedOverKeeps
<1>4. CASE Fault /\ Closed("daemon") /\ UNCHANGED taken
  <2>1. TypeOK'
    BY <1>0, <1>4, ClosedTypes, FaultFacts DEF TypeOK, LinkRecord
  <2> QED  BY <1>0, <1>4, <2>1, FaultFacts, ClosingKeeps
<1> QED  BY <1>3, <1>4 DEF Take

LEMMA ClientSendKeeps ==
  ASSUME RelayInv, ClientSend
  PROVE  RelayInv'
<1> DEFINE a == client.attempt + 1
<1>0. /\ TypeOK /\ EnvelopesFit /\ TasksFit /\ AckedMeansAnswered
      /\ client.attempt < MaxAttempts
      /\ client' = [client EXCEPT !.phase = "waiting", !.attempt = @ + 1]
      /\ up' = up \cup {Submitted(Req(a))}
      /\ UNCHANGED <<rows, link, pushes, tasks, taken, paired, spent>>
  BY DEF RelayInv, ClientSend
<1>1. /\ client' \in [phase : {"idle", "waiting"}, attempt : 0..MaxAttempts, socket : BOOLEAN]
      /\ client'.attempt = a /\ a \in Attempts /\ client.attempt \in Nat
  <2>1. /\ client \in [phase : {"idle", "waiting"}, attempt : 0..MaxAttempts, socket : BOOLEAN]
        /\ MaxAttempts \in Nat
    BY <1>0, RelayAssumption DEF TypeOK
  <2>2. a \in 0..MaxAttempts /\ a \in Attempts /\ client.attempt \in Nat
    BY <1>0, <2>1 DEF Attempts
  <2>3. client' = [client EXCEPT !.phase = "waiting", !.attempt = a]
    BY <1>0
  <2> HIDE DEF a
  <2> QED  BY <2>1, <2>2, <2>3
<1>2. PICK x : x = Submitted(Req(a))
  OBVIOUS
<1>3. PICK r : r = Req(a)
  OBVIOUS
<1>4. /\ r \in MessagesTo("daemon") /\ r \in Message /\ r.to = "daemon" /\ r.attempt = a
      /\ x \in Item /\ x.kind = "submit" /\ x.msg = r /\ x.by = Other(r.to)
  <2>1. r \in MessagesTo("daemon") /\ r \in Message /\ r.to = "daemon" /\ r.attempt = a
    BY <1>1, <1>3, Travelling DEF Req, Devices
  <2> QED  BY <1>2, <1>3, <2>1 DEF Submitted, Item, Other, Devices
<1>5. TypeOK'
  BY <1>0, <1>1, <1>2, <1>4 DEF TypeOK
<1>6. Onward /\ \A m : Stored(m)' <=> Stored(m)
  BY <1>0, <1>1, <1>5, OnwardAlone
<1>7. ~Numbered(r)
  BY <1>1, <1>4 DEF Numbered
<1>8. ~Stored(r) /\ Submits(r) = {}
  BY <1>0, <1>7 DEF EnvelopesFit, Stored, RowIn, Submits
<1>9. Numbered(r)'
  BY <1>1, <1>4 DEF Numbered
<1>10. EnvelopesFit'
  BY <1>0, <1>2, <1>4, <1>5, <1>6, <1>8, <1>9, EnvelopesGrow
<1>11. TasksFit'
  <2>1. ASSUME NEW t \in tasks
        PROVE  TaskFits(t)'
    <3>1. t \in Task /\ TaskFits(t)
      BY <1>0 DEF TypeOK, Task, TasksFit, TaskFits
    <3>2. Submits(Resp(t.attempt, t.nth))' = Submits(Resp(t.attempt, t.nth))
      BY <1>0, <1>2, <1>4 DEF Submits, Resp
    <3> QED  BY <1>0, <1>5, <1>6, <3>1, <3>2, TaskStays DEF TaskFits
  <2> QED  BY <1>0, <2>1 DEF TasksFit, TaskFits
<1>12. AckedMeansAnswered'
  BY <1>0, <1>5, <1>6, AckedStays
<1> QED  BY <1>0, <1>5, <1>10, <1>11, <1>12, SpentStays, RelayStays DEF RelayInv, LinksFit

LEMMA ClientReceiveKeeps ==
  ASSUME RelayInv, NEW m, ClientReceive(m)
  PROVE  RelayInv'
<1> DEFINE l == [link["client"] EXCEPT !.down = @ \ {m}]
           x == Acked("client", m)
<1>0. /\ TypeOK /\ LinksFit /\ LinkFits("client") /\ EnvelopesFit /\ TasksFit
      /\ AckedMeansAnswered /\ NothingForgotten /\ TakenFits
      /\ "client" \in Devices /\ link["client"] \in LinkRecord
  BY LinkKinds DEF RelayInv, LinksFit, Devices
<1>1. /\ m \in link["client"].down /\ link' = [link EXCEPT !["client"] = l]
      /\ up' = up \cup {x} /\ UNCHANGED <<rows, pushes, tasks, taken, paired, spent>>
      /\ client' = [client EXCEPT !.phase = "idle"] \/ client' = client
  BY DEF ClientReceive
<1>2. m \in MessagesTo("client") /\ m \in Message
  BY <1>0, <1>1, Travelling DEF LinkFits
<1>3. /\ l \in LinkRecord /\ l.open = link["client"].open /\ l.hub = link["client"].hub
      /\ l.late = link["client"].late /\ l.due = link["client"].due
      /\ l.batch = link["client"].batch /\ l.recent = link["client"].recent
      /\ l.inflight = link["client"].inflight /\ l.down = link["client"].down \ {m}
  BY <1>0 DEF LinkRecord
<1>4. x \in Item /\ x.kind = "ack" /\ x.msg = m /\ x.by = "client"
  BY <1>2 DEF Acked, Item, Devices
<1> HIDE DEF l, x
<1>5. /\ client' \in [phase : {"idle", "waiting"}, attempt : 0..MaxAttempts, socket : BOOLEAN]
      /\ client'.attempt = client.attempt /\ client.attempt \in Nat
  BY <1>0, <1>1, RelayAssumption DEF TypeOK
<1>6. TypeOK'
  BY <1>0, <1>1, <1>3, <1>4, <1>5 DEF TypeOK, LinkRecord
<1>7. /\ \A n : (Stored(n)' <=> Stored(n)) /\ (Waiting(n)' <=> Waiting(n))
      /\ \A n : Submits(n)' = Submits(n)
  BY <1>1, <1>4 DEF Stored, Waiting, RowIn, Submits
<1>8. Onward
  BY <1>0, <1>1, <1>5, <1>6, OnwardAlone
<1>9. LinksFit' /\ NothingForgotten'
  <2>1. ~l.open => l = NoLink
    <3>1. link["client"].open
      BY <1>0, <1>1 DEF LinkFits, NoLink
    <3> QED  BY <1>3, <3>1
  <2>2. l.batch \cup l.inflight \cup l.recent \cup l.down \subseteq MessagesTo("client")
    BY <1>0, <1>3 DEF LinkFits
  <2>3. /\ \A n \in l.recent : Stored(n) /\ ~Waiting(n)
        /\ l.batch \cap l.recent # {} => l.late
    BY <1>0, <1>3 DEF LinkFits
  <2>4. \A n : Waiting(n) /\ n.to = "client" /\ l.hub => n \in pushes' \/ Attended(l)
    BY <1>0, <1>1, <1>3 DEF NothingForgotten, Attended, Waiting, RowIn
  <2> QED  BY <1>0, <1>1, <1>3, <1>6, <1>7, <2>1, <2>2, <2>3, <2>4, LinkMoves
<1>10. EnvelopesFit'
  BY <1>0, <1>1, <1>2, <1>4, <1>6, <1>8, EnvelopesGrow
<1>11. TasksFit'
  BY <1>0, <1>1, <1>6, <1>7, <1>8, TasksStay
<1>12. AckedMeansAnswered'
  BY <1>0, <1>1, <1>6, <1>8, AckedStays
<1>13. TakenFits'
  <2>1. link'["daemon"] = link["daemon"]
    BY <1>0, <1>1 DEF TypeOK, Devices
  <2> QED  BY <1>0, <1>1, <1>6, <2>1, SpentStays, TakenStays
<1> QED  BY <1>6, <1>9, <1>10, <1>11, <1>12, <1>13 DEF RelayInv, LinksFit

-----------------------------------------------------------------------------
(* The relay reads.                                                         *)

LEMMA RejectKeeps ==
  ASSUME RelayInv, NEW it \in up, up' = up \ {it}, Reject(it),
         UNCHANGED <<taken, paired, spent>>
  PROVE  RelayInv'
<1>0. /\ TypeOK /\ EnvelopesFit /\ tasks' \subseteq tasks
      /\ UNCHANGED <<rows, link, pushes>>
      /\ client' = [client EXCEPT !.phase = "idle"] \/ client' = client
  BY DEF RelayInv, Reject
<1>1. /\ client' \in [phase : {"idle", "waiting"}, attempt : 0..MaxAttempts, socket : BOOLEAN]
      /\ client'.attempt = client.attempt
  BY <1>0 DEF TypeOK
<1>2. TypeOK'
  BY <1>0, <1>1 DEF TypeOK
<1>3. EnvelopesFit' /\ TasksFit' /\ AckedMeansAnswered'
  <2>1. Thinned
    BY <1>0, FewerThins
  <2> QED  BY <1>0, <1>1, <1>2, <2>1, SameRows, QuietStep
<1> QED  BY <1>0, <1>2, <1>3, SpentStays, RelayStays DEF RelayInv, LinksFit

\* An acknowledgement: the row waits no longer, the hub remembers it, and either
\* a read of the queue is due or the connection is marked as late.
LEMMA AcknowledgeKeeps ==
  ASSUME RelayInv, NEW it \in up, Readable(it), up' = up \ {it}, Acknowledge(it),
         UNCHANGED <<taken, paired, spent>>
  PROVE  RelayInv'
<1> DEFINE d == it.by
           m == it.msg
           k == link[d]
           l == Acknowledged(k, it)
<1>0. /\ TypeOK /\ LinksFit /\ EnvelopesFit /\ NothingForgotten /\ TakenFits
      /\ it \in Item /\ it.kind = "ack" /\ UNCHANGED <<pushes, tasks, client>>
  BY DEF RelayInv, LinksFit, Acknowledge, TypeOK
<1>1. d \in Devices /\ it.live \in BOOLEAN /\ m \in Message
  BY <1>0 DEF Item
<1>2. LinkFits(d) /\ k \in LinkRecord
  BY <1>0, <1>1, LinkKinds DEF LinksFit
<1>3. m \in MessagesTo(d) /\ (d = "daemon" => Answered(m.attempt))
  BY <1>0 DEF EnvelopesFit
<1>4. it.live => k.open /\ k.batch = {}
  BY DEF Readable
<1>5. Thinned
  BY <1>0, FewerThins
<1>6. CASE ~RowIn(m, RowStates \ {"gone"})
  <2>1. UNCHANGED <<rows, link>>
    BY <1>6 DEF Acknowledge
  <2>2. TypeOK'
    BY <1>0, <2>1 DEF TypeOK
  <2>3. EnvelopesFit' /\ TasksFit' /\ AckedMeansAnswered'
    BY <1>0, <1>5, <2>1, <2>2, SameRows, QuietStep
  <2> QED  BY <1>0, <2>1, <2>2, <2>3, SpentStays, RelayStays DEF RelayInv, LinksFit
<1>7. CASE RowIn(m, RowStates \ {"gone"})
  <2>1. rows' = Mark(m, "acked") /\ link' = [link EXCEPT ![d] = l]
    BY <1>7 DEF Acknowledge
  <2>2. /\ rows' \in Seq(Row) /\ Aged /\ ~Waiting(m)'
        /\ \A i \in DOMAIN rows : rows'[i].state = "acked" =>
             rows[i].msg = m \/ rows[i].state = "acked"
    BY <1>0, <2>1, MarkFacts
  <2>3. /\ l \in LinkRecord /\ l.open = k.open /\ l.hub = k.hub
        /\ l.batch = k.batch /\ l.down = k.down
        /\ l.inflight = IF k.hub THEN k.inflight \ {m} ELSE k.inflight
        /\ l.recent = IF k.hub THEN k.recent \cup {m} ELSE k.recent
    BY <1>1, <1>2 DEF LinkRecord, Acknowledged
  <2>4. /\ l.late = (k.late \/ (k.hub /\ ~it.live))
        /\ l.due = (k.due \/ it.live)
    BY <1>1, <1>2 DEF LinkRecord, Acknowledged
  <2> HIDE DEF l
  <2>5. TypeOK'
    <3>1. link' \in [Devices -> LinkRecord]
      BY <1>0, <2>1, <2>3 DEF TypeOK, LinkRecord
    <3> QED  BY <1>0, <2>2, <3>1 DEF TypeOK, LinkRecord, Row
  <2>6. \A n : (Stored(n)' <=> Stored(n)) /\ (Waiting(n)' => Waiting(n))
    BY <1>0, <2>2, AgedFacts
  <2>7. Stored(m)
    BY <1>7 DEF Stored, RowIn
  <2>8. l.batch \cup l.inflight \cup l.recent \cup l.down \subseteq MessagesTo(d)
    BY <1>2, <1>3, <2>3 DEF LinkFits
  <2>9. ~l.open => l = NoLink
    <3>1. SUFFICES ASSUME ~k.open
                   PROVE  l = NoLink
      BY <2>3
    <3>2. k = NoLink /\ ~it.live
      BY <1>2, <1>4, <3>1 DEF LinkFits
    <3>3. l = k
      <4>1. /\ ~k.hub /\ l.inflight = k.inflight /\ l.recent = k.recent
            /\ ~k.late /\ ~k.due
        BY <2>3, <3>2 DEF NoLink
      <4>2. ~l.late /\ ~l.due
        BY <2>4, <3>2, <4>1
      <4>3. l.late = k.late /\ l.due = k.due
        <5>1. {k.late, k.due, l.late, l.due} \subseteq BOOLEAN
          BY <1>2, <2>3 DEF LinkRecord
        <5> QED  BY <4>1, <4>2, <5>1
      <4> QED  BY <1>2, <2>3, <4>1, <4>3 DEF LinkRecord
    <3> QED  BY <3>2, <3>3
  <2>10. \A n \in l.recent : Stored(n)' /\ ~Waiting(n)'
    BY <1>2, <2>2, <2>3, <2>6, <2>7 DEF LinkFits
  <2>11. l.batch \cap l.recent # {} => l.late
    <3>1. SUFFICES ASSUME l.batch \cap l.recent # {}
                   PROVE  l.late
      OBVIOUS
    <3>2. CASE l.recent = k.recent
      BY <1>2, <2>3, <2>4, <3>1, <3>2 DEF LinkFits
    <3>3. CASE l.recent # k.recent
      <4>1. k.hub /\ ~it.live
        BY <1>4, <2>3, <3>1, <3>3
      <4> QED  BY <2>4, <4>1
    <3> QED  BY <3>2, <3>3
  <2>12. l.hub => Attended(l)
    BY <2>3, <2>4 DEF Attended
  <2>13. LinksFit' /\ NothingForgotten'
    <3>1. \A n \in pushes : n \in pushes'
      BY <1>0
    <3> QED  BY <1>0, <1>1, <2>1, <2>3, <2>5, <2>6, <2>8, <2>9, <2>10, <2>11, <2>12, <3>1, LinkMoves
  <2>14. EnvelopesFit' /\ TasksFit' /\ AckedMeansAnswered'
    <3>1. m.to = d
      BY <1>3 DEF MessagesTo
    <3>2. \A i \in DOMAIN rows : rows[i].msg.to = "daemon" /\ rows'[i].state = "acked" =>
            rows[i].state = "acked" \/ Answered(rows[i].msg.attempt)
      BY <1>3, <2>2, <3>1
    <3> QED  BY <1>0, <1>5, <2>2, <2>5, <3>2, QuietStep
  <2>15. TakenFits'
    <3>1. link'["daemon"] = link["daemon"] \/ (d = "daemon" /\ link'["daemon"] = l)
      BY <1>0, <1>1, <2>1 DEF TypeOK, Devices
    <3>2. k.inflight \cup k.recent \subseteq l.inflight \cup l.recent
      BY <2>3
    <3> QED  BY <1>0, <2>3, <2>5, <3>1, <3>2, SpentStays, TakenStays
  <2> QED  BY <2>5, <2>13, <2>14, <2>15 DEF RelayInv, LinksFit
<1> QED  BY <1>6, <1>7

\* An envelope is stored once, waits and is pushed; the task that submitted it is
\* told so.
LEMMA AcceptKeeps ==
  ASSUME RelayInv, NEW it \in up, up' = up \ {it}, Accept(it),
         UNCHANGED <<taken, paired, spent>>
  PROVE  RelayInv'
<1> DEFINE m == it.msg
           moved == {[t EXCEPT !.phase = "accepted"] : t \in Submitter(m)}
<1>0. /\ TypeOK /\ LinksFit /\ EnvelopesFit /\ TasksFit /\ NothingForgotten
      /\ TakenFits /\ AckedMeansAnswered /\ it.kind = "submit"
      /\ rows' = Append(rows, [msg |-> m, state |-> "waiting"])
      /\ pushes' = pushes \cup {m}
      /\ tasks' = (tasks \ Submitter(m)) \cup moved
      /\ UNCHANGED <<link, client>>
  BY DEF RelayInv, LinksFit, Accept
<1>1. /\ Numbered(m) /\ ~Stored(m) /\ Submits(m) = {it} /\ m \in Message /\ m \in MessagesTo(m.to)
      /\ m.to \in Devices
  BY <1>0 DEF EnvelopesFit, Numbered, MessagesTo, Message
<1>2. ASSUME NEW t \in Submitter(m)
      PROVE  /\ t \in tasks /\ t \in Task /\ t.phase = "submitted"
             /\ Resp(t.attempt, t.nth) = m
             /\ [t EXCEPT !.phase = "accepted"] \in Task
             /\ [t EXCEPT !.phase = "accepted"].attempt = t.attempt
             /\ [t EXCEPT !.phase = "accepted"].nth = t.nth
             /\ [t EXCEPT !.phase = "accepted"].phase = "accepted"
  <2>1. t \in tasks /\ t \in Task /\ t.phase = "submitted"
    BY <1>0 DEF Submitter, TypeOK, Task
  <2>2. t.attempt = m.attempt /\ t.nth = m.nth /\ m.to = "client"
    BY DEF Submitter
  <2>3. m = Resp(m.attempt, m.nth)
    BY <1>1, <2>2, Travelling
  <2> QED  BY <2>1, <2>2, <2>3 DEF Task, Phases
<1>3. rows \in Seq(Row) /\ [msg |-> m, state |-> "waiting"] \in Row
  BY <1>0, <1>1 DEF TypeOK, Row, RowStates
<1>4. /\ rows' \in Seq(Row) /\ DOMAIN rows = 1..Len(rows) /\ Len(rows) \in Nat
      /\ DOMAIN rows' = 1..(Len(rows) + 1)
      /\ \A i \in DOMAIN rows : rows'[i] = rows[i] /\ i \in DOMAIN rows'
      /\ rows'[Len(rows) + 1] = [msg |-> m, state |-> "waiting"]
  BY <1>0, <1>3, AppendProperties, LenProperties
<1>5. \A i \in DOMAIN rows' : \/ i \in DOMAIN rows /\ rows'[i] = rows[i]
                              \/ i = Len(rows) + 1
  BY <1>4
<1>6. \A n : /\ Stored(n)' <=> Stored(n) \/ n = m
             /\ Waiting(n)' => Waiting(n) \/ n = m
  BY <1>4, <1>5 DEF Stored, Waiting, RowIn, RowStates
<1>7. tasks' \subseteq Task
  <2>1. moved \subseteq Task
    BY <1>2
  <2> QED  BY <1>0, <2>1 DEF TypeOK, Task
<1>8. TypeOK'
  BY <1>0, <1>1, <1>4, <1>7 DEF TypeOK, Row, Task
<1>9. Onward
  <2>1. client.attempt <= client'.attempt
    BY <1>0, RelayAssumption DEF TypeOK
  <2>2. \A a \in Attempts : taken[a] <= taken'[a]
    BY <1>0 DEF TypeOK
  <2> QED  BY <1>6, <2>1, <2>2 DEF Onward
<1>10. LinksFit'
  <2>1. ASSUME NEW d \in Devices
        PROVE  LinkFits(d)'
    <3>1. LinkFits(d)
      BY <1>0 DEF LinksFit
    <3>2. \A n \in link[d].recent : Stored(n)' /\ ~Waiting(n)'
      BY <1>1, <1>6, <3>1 DEF LinkFits
    <3> QED  BY <1>0, <3>1, <3>2 DEF LinkFits
  <2> QED  BY <2>1 DEF LinksFit
<1>11. NothingForgotten'
  <2>1. ASSUME NEW i \in DOMAIN rows', rows'[i].state = "waiting", link'[rows'[i].msg.to].hub
        PROVE  rows'[i].msg \in pushes' \/ Attended(link'[rows'[i].msg.to])
    <3>1. CASE i \in DOMAIN rows /\ rows'[i] = rows[i]
      <4>1. rows[i].msg \in pushes \/ Attended(link[rows[i].msg.to])
        BY <1>0, <2>1, <3>1 DEF NothingForgotten, Attended
      <4> QED  BY <1>0, <3>1, <4>1
    <3>2. CASE i = Len(rows) + 1
      BY <1>0, <1>4, <3>2
    <3> QED  BY <1>5, <3>1, <3>2
  <2> QED  BY <2>1 DEF NothingForgotten, Attended
<1>12. EnvelopesFit'
  <2>1. ASSUME NEW i \in DOMAIN rows'
        PROVE  Numbered(rows[i].msg)'
    <3>1. PICK n : n = rows'[i].msg
      OBVIOUS
    <3>2. Numbered(n)
      BY <1>0, <1>1, <1>4, <1>5, <3>1 DEF EnvelopesFit
    <3> QED  BY <1>0, <1>8, <1>9, <3>1, <3>2, NumberedStays
  <2>2. pushes' \subseteq MessagesTo("client") \cup MessagesTo("daemon")
    BY <1>0, <1>1 DEF EnvelopesFit, Devices
  <2>3. ASSUME NEW x \in up', x.kind = "submit"
        PROVE  /\ Numbered(x.msg)' /\ x.by = Other(x.msg.to)
               /\ ~Stored(x.msg)' /\ Submits(x.msg)' = {x}
    <3>1. Numbered(x.msg) /\ x.by = Other(x.msg.to) /\ ~Stored(x.msg) /\ Submits(x.msg) = {x}
      BY <1>0, <2>3 DEF EnvelopesFit
    <3>2. x.msg # m
      BY <1>1, <3>1
    <3>3. Submits(x.msg)' = {x}
      BY <3>1, <2>3 DEF Submits
    <3> QED  BY <1>0, <1>6, <1>8, <1>9, <3>1, <3>2, <3>3, NumberedStays
  <2>4. ASSUME NEW x \in up', x.kind # "submit"
        PROVE  x.msg \in MessagesTo(x.by) /\ (x.by = "daemon" => Answered(x.msg.attempt)')
    <3>1. x.msg \in MessagesTo(x.by) /\ (x.by = "daemon" => Answered(x.msg.attempt))
      BY <1>0, <2>4 DEF EnvelopesFit
    <3>2. x.msg.attempt \in Attempts
      BY <3>1 DEF MessagesTo, Message
    <3> QED  BY <1>0, <1>8, <1>9, <3>1, <3>2, AnsweredStays
  <2> QED  BY <2>1, <2>2, <2>3, <2>4 DEF EnvelopesFit
<1>13. TasksFit'
  <2>1. ASSUME NEW t \in tasks \ Submitter(m)
        PROVE  TaskFits(t)'
    <3>1. t \in Task /\ TaskFits(t)
      BY <1>0 DEF TypeOK, Task, TasksFit, TaskFits
    <3>2. t.phase \in {"deferred", "running"} => Resp(t.attempt, t.nth) # m
      BY <1>1, <3>1 DEF TaskFits
    <3>3. \A n : Submits(n)' \subseteq Submits(n)
      BY DEF Submits
    <3>4. t.phase \in {"deferred", "running"} =>
            ~Stored(Resp(t.attempt, t.nth))' /\ Submits(Resp(t.attempt, t.nth))' = {}
      BY <1>6, <3>1, <3>2, <3>3 DEF TaskFits
    <3> QED  BY <1>0, <1>8, <1>9, <3>1, <3>4, TaskStays
  <2>2. ASSUME NEW u \in moved
        PROVE  TaskFits(u)'
    <3>1. PICK t \in Submitter(m) : u = [t EXCEPT !.phase = "accepted"]
      OBVIOUS
    <3>2. u.attempt = t.attempt /\ u.nth = t.nth /\ u.phase = "accepted"
      BY <1>2, <3>1
    <3>3. u.nth \in 1..taken'[u.attempt]
      BY <1>0, <1>2, <3>2 DEF TasksFit
    <3>4. Stored(Resp(u.attempt, u.nth))'
      BY <1>2, <1>6, <3>1, <3>2
    <3> QED  BY <3>2, <3>3, <3>4 DEF TaskFits
  <2>3. ASSUME NEW u \in tasks'
        PROVE  \E t \in tasks : /\ t.attempt = u.attempt /\ t.nth = u.nth
                                /\ u = IF t \in Submitter(m)
                                       THEN [t EXCEPT !.phase = "accepted"] ELSE t
    BY <1>0, <1>2
  <2>4. ASSUME NEW u \in tasks', NEW v \in tasks', v.attempt = u.attempt, v.nth = u.nth
        PROVE  v = u
    <3>1. PICK t \in tasks : /\ t.attempt = u.attempt /\ t.nth = u.nth
                             /\ u = IF t \in Submitter(m)
                                    THEN [t EXCEPT !.phase = "accepted"] ELSE t
      BY <2>3
    <3>2. PICK w \in tasks : /\ w.attempt = v.attempt /\ w.nth = v.nth
                             /\ v = IF w \in Submitter(m)
                                    THEN [w EXCEPT !.phase = "accepted"] ELSE w
      BY <2>3
    <3>3. w = t
      BY <1>0, <2>4, <3>1, <3>2 DEF TasksFit
    <3> QED  BY <3>1, <3>2, <3>3
  <2>5. \A u \in tasks' : TaskFits(u)'
    BY <1>0, <2>1, <2>2
  <2> QED  BY <2>4, <2>5 DEF TasksFit, TaskFits
<1>14. AckedMeansAnswered'
  <2>1. \A i \in DOMAIN rows' : rows'[i].state = "acked" => i \in DOMAIN rows /\ rows'[i] = rows[i]
    BY <1>4, <1>5
  <2> QED  BY <1>0, <1>8, <1>9, <2>1, AckedStays
<1>15. TakenFits'
  BY <1>0, <1>8, SpentStays, TakenStays
<1> QED  BY <1>8, <1>10, <1>11, <1>12, <1>13, <1>14, <1>15 DEF RelayInv, LinksFit

LEMMA RouteKeeps ==
  ASSUME RelayInv, NEW it, Route(it)
  PROVE  RelayInv'
  BY AcceptKeeps, RejectKeeps, AcknowledgeKeeps DEF Route

-----------------------------------------------------------------------------
(* The theorems.                                                            *)

LEMMA RelayStarts ==
  ASSUME Init
  PROVE  RelayInv
<1>1. \A d \in Devices : link[d] = NoLink
  BY DEF Init
<1>2. NoLink \in LinkRecord
  BY DEF NoLink, LinkRecord
<1>3. TypeOK
  <2>1. rows \in Seq(Row) /\ link \in [Devices -> LinkRecord]
    BY <1>2, EmptySeq DEF Init
  <2>2. /\ taken \in [Attempts -> Nat]
        /\ client \in [phase : {"idle", "waiting"}, attempt : 0..MaxAttempts, socket : BOOLEAN]
        /\ spent \in [faults : 0..MaxFaults, stalls : 0..MaxFaults, connects : Nat]
    BY RelayAssumption DEF Init
  <2> QED  BY <2>1, <2>2 DEF Init, TypeOK, Row, LinkRecord
<1>4. \A d \in Devices : LinkFits(d)
  BY <1>1 DEF LinkFits, NoLink
<1>5. DOMAIN rows = {} /\ up = {} /\ pushes = {} /\ tasks = {}
  BY DEF Init
<1>6. EnvelopesFit /\ TasksFit /\ NothingForgotten /\ AckedMeansAnswered
  BY <1>5 DEF EnvelopesFit, TasksFit, NothingForgotten, AckedMeansAnswered
<1>7. TakenFits
  <2>1. \A a \in Attempts : taken[a] = 0 /\ Chances(a) = 0
    BY <1>1 DEF Init, Chances, NoLink, Devices
  <2> QED  BY <2>1 DEF Init, TakenFits
<1> QED  BY <1>3, <1>4, <1>6, <1>7 DEF RelayInv

\* What rows, connections, items, tasks and counters have to do with each other
\* stays true through every step of relay, bridge and client and every fault:
\* submit, acknowledge and pending of RelayService, RelayConnection.send, the
\* route's loop, _connected_loop and the handlers, call and _call_once.
THEOREM RelayInvariant == Spec => []RelayInv
<1>1. Init => RelayInv
  BY RelayStarts
<1>2. RelayInv /\ [Next]_vars => RelayInv'
  <2> SUFFICES ASSUME RelayInv, [Next]_vars
               PROVE  RelayInv'
    OBVIOUS
  <2>1. CASE Relay
    BY <2>1, RouteKeeps, ReadPendingKeeps, SendPendingKeeps, PushKeeps DEF Relay
  <2>2. CASE Bridge
    BY <2>2, DaemonConnectKeeps, TakeKeeps, LaunchKeeps, RespondKeeps, FinishKeeps DEF Bridge
  <2>3. CASE Client
    BY <2>3, ClientConnectKeeps, ClientSendKeeps, GiveUpKeeps, ClientReceiveKeeps DEF Client
  <2>4. CASE Faults
    BY <2>4, PushStallsKeeps, ExpireKeeps, LoseKeeps, HandlerFailsKeeps, CleanupKeeps,
       RelayRestartKeeps, UnpairKeeps DEF Faults
  <2>5. CASE UNCHANGED vars
    <3>1. UNCHANGED <<rows, link, up, pushes, tasks, taken, client, paired, spent>>
      BY <2>5 DEF vars
    <3>2. /\ TypeOK /\ EnvelopesFit
      BY DEF RelayInv
    <3>3. TypeOK'
      BY <3>1, <3>2 DEF TypeOK
    <3>4. EnvelopesFit' /\ TasksFit' /\ AckedMeansAnswered'
      BY <3>1, <3>2, <3>3, FewerThins, SameRows, QuietStep
    <3> QED  BY <3>1, <3>2, <3>3, <3>4, SpentStays, RelayStays DEF RelayInv, LinksFit
  <2> QED  BY <2>1, <2>2, <2>3, <2>4, <2>5 DEF Next
<1> QED  BY <1>1, <1>2, PTL DEF Spec

\* An envelope that waits for a connected device has been sent, is about to be, or
\* will be found by a read of the queue (send_pending, _push_after_accept and the
\* hub's acknowledge), however many envelopes wait and however few a read returns.
THEOREM NothingForgottenHolds == Spec => []NothingForgotten
  BY RelayInvariant, PTL DEF RelayInv

\* The daemon acknowledges a request only when the relay holds an answer, or when
\* it does not answer this client (the bridge's handlers, in whatever order tasks,
\* answers and broken connections come).
THEOREM AckedMeansAnsweredHolds == Spec => []AckedMeansAnswered
  BY RelayInvariant, PTL DEF RelayInv

\* A request reaches a task once per connection of the daemon, and once more per
\* send that timed out although its bytes arrived (inflight and recent ids).
THEOREM TakenOncePerConnectionHolds == Spec => []TakenOncePerConnection
<1>1. RelayInv => TakenOncePerConnection
  <2> SUFFICES ASSUME RelayInv, NEW a \in Attempts
               PROVE  taken[a] <= spent.connects + spent.stalls
    BY DEF TakenOncePerConnection
  <2>1. taken[a] + Chances(a) <= spent.connects + spent.stalls
    BY DEF RelayInv, TakenFits
  <2>2. Chances(a) \in 0..2
    BY DEF Chances
  <2>3. taken[a] \in Nat /\ spent.connects \in Nat /\ spent.stalls \in Nat
    BY RelayAssumption DEF RelayInv, TypeOK
  <2> HIDE DEF Chances
  <2> QED  BY <2>1, <2>2, <2>3
<1> QED  BY <1>1, RelayInvariant, PTL
=============================================================================
