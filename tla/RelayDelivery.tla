---------------------------- MODULE RelayDelivery ----------------------------
(***************************************************************************)
(* One call of a native client to the daemon through the relay:            *)
(* remote/controller_relay.py (the client), pcr_relay/relay.py and the      *)
(* websocket route of pcr_relay/app.py (the relay), remote/relay_bridge.py  *)
(* (the daemon).  Envelopes are rows of the relay's database, which survive *)
(* a restart of the relay; connections, the delivery tasks of the relay and *)
(* the request tasks of the daemon do not.                                  *)
(*                                                                         *)
(* Every submission carries a new message id, so an envelope is stored      *)
(* once.  What a request does is CommandJournal's business: here it is      *)
(* answered.  Ciphertext, keys and sequence numbers are abstracted.         *)
(***************************************************************************)
EXTENDS Naturals, Sequences, FiniteSets

CONSTANTS
  MaxAttempts,  \* bound: submissions of requests by the client, retries included
  MaxFaults,    \* bound: failures, of all the kinds listed under Faults
  ReadLimit,    \* rows that one read of the offline queue returns (100)
  MaxPending,   \* max_pending_envelopes_per_device (512)
  MaxInflight   \* MAX_INFLIGHT_REQUESTS (16)

ASSUME RelayAssumption ==
  /\ {MaxAttempts, MaxFaults} \subseteq Nat
  /\ {ReadLimit, MaxPending, MaxInflight} \subseteq Nat \ {0}

Devices == {"client", "daemon"}
Other(d) == IF d = "client" THEN "daemon" ELSE "client"

Attempts == 1..MaxAttempts

\* A request is known by its attempt, a response by its request and by the
\* delivery of the request that it answers.
Message == [to : Devices, attempt : Attempts, nth : Nat]
Req(a) == [to |-> "daemon", attempt |-> a, nth |-> 0]
Resp(a, n) == [to |-> "client", attempt |-> a, nth |-> n]

\* What a device sent to the relay and the relay has not read.  An item is live
\* while the connection it was sent on is.
Item == [by : Devices, kind : {"submit", "ack"}, msg : Message, live : BOOLEAN]

VARIABLES
  rows,     \* envelopes in the order of created_at: [msg, state]
  link,     \* the connection of each device, as the relay and the device see it
  up,       \* items on their way to the relay
  pushes,   \* delivery tasks: envelopes that were just accepted
  tasks,    \* requests in the daemon's hands: [attempt, nth, phase]
  taken,    \* how often each request was handed to a task: numbers the answers
  client,   \* the call in progress
  paired,   \* the daemon trusts the client's key
  spent     \* failures so far, those that were stalls, the daemon's connections

vars == <<rows, link, up, pushes, tasks, taken, client, paired, spent>>

\* "expired" rows are skipped by every query, but can be acknowledged until
\* cleanup_expired deletes them ("gone").
RowStates == {"waiting", "acked", "expired", "gone"}

Phases == {"deferred", "running", "refused", "submitted", "accepted"}

\* open: the websocket is up; hub: the relay pushes to it; due, batch: the read of
\* the offline queue that must still happen, and what it returned; inflight and
\* recent: what RelayConnection.send skips; down: delivered, not read by the device.
\* late, which only properties read: what a previous connection of the device had
\* sent has acknowledged an envelope since this one is open.
NoLink == [open |-> FALSE, hub |-> FALSE, due |-> FALSE, late |-> FALSE,
           batch |-> {}, inflight |-> {}, recent |-> {}, down |-> {}]

TypeOK ==
  /\ rows \in Seq([msg : Message, state : RowStates])
  /\ link \in [Devices -> [open : BOOLEAN, hub : BOOLEAN, due : BOOLEAN, late : BOOLEAN,
                           batch : SUBSET Message, inflight : SUBSET Message,
                           recent : SUBSET Message, down : SUBSET Message]]
  /\ up \subseteq Item
  /\ pushes \subseteq Message
  /\ tasks \subseteq [attempt : Attempts, nth : Nat, phase : Phases]
  /\ taken \in [Attempts -> Nat]
  /\ client \in [phase : {"idle", "waiting"}, attempt : 0..MaxAttempts, socket : BOOLEAN]
  /\ paired \in BOOLEAN
  /\ spent \in [faults : 0..MaxFaults, stalls : 0..MaxFaults, connects : Nat]

Init ==
  /\ rows = <<>>
  /\ link = [d \in Devices |-> NoLink]
  /\ up = {} /\ pushes = {} /\ tasks = {}
  /\ taken = [a \in Attempts |-> 0]
  /\ client = [phase |-> "idle", attempt |-> 0, socket |-> FALSE]
  /\ paired = TRUE
  /\ spent = [faults |-> 0, stalls |-> 0, connects |-> 0]

-----------------------------------------------------------------------------
(* The relay's database and connections.                                    *)

RowIn(m, states) == \E i \in DOMAIN rows : rows[i].msg = m /\ rows[i].state \in states
Waiting(m) == RowIn(m, {"waiting"})
Stored(m) == RowIn(m, RowStates)

Mark(m, state) == [i \in DOMAIN rows |->
                     IF rows[i].msg = m THEN [rows[i] EXCEPT !.state = state] ELSE rows[i]]

Earlier(i) == {j \in DOMAIN rows : j < i /\ rows[j].state = "waiting"
                                         /\ rows[j].msg.to = rows[i].msg.to}

\* RelayService.pending: the oldest ReadLimit rows that wait for a device.
Pending(d) == {rows[i].msg : i \in {j \in DOMAIN rows :
                 /\ rows[j].state = "waiting" /\ rows[j].msg.to = d
                 /\ Cardinality(Earlier(j)) < ReadLimit}}

\* What counts against the quota of a sender.
Unacknowledged(d) == Cardinality({i \in DOMAIN rows :
                       rows[i].state = "waiting" /\ rows[i].msg.to = Other(d)})

\* Mutant: nothing is remembered of what was acknowledged.
SendForgetful(l, m) ==
  IF m \in l.inflight THEN l
  ELSE [l EXCEPT !.inflight = @ \cup {m}, !.down = @ \cup {m}]

\* RelayConnection.send of an envelope.
Send(l, m) ==
  IF m \in l.inflight \cup l.recent THEN l
  ELSE [l EXCEPT !.inflight = @ \cup {m}, !.down = @ \cup {m}]

\* The websocket route of a connection takes one item at a time: it reads the
\* next one when it has sent all that its last read of the queue returned.
Readable(it) == it.live => link[it.by].open /\ ~link[it.by].due /\ link[it.by].batch = {}

Submitted(m) == [by |-> Other(m.to), kind |-> "submit", msg |-> m, live |-> TRUE]
Acked(d, m) == [by |-> d, kind |-> "ack", msg |-> m, live |-> TRUE]

Fault == spent.faults < MaxFaults /\ spent' = [spent EXCEPT !.faults = @ + 1]


-----------------------------------------------------------------------------
(* The relay.                                                               *)

\* The task that waits for the relay's answer to its response.
Submitter(m) == {t \in tasks : t.attempt = m.attempt /\ t.nth = m.nth
                               /\ t.phase = "submitted" /\ m.to = "client"}

\* RelayService.submit under the lock of both devices.  The answer "accepted" is
\* of interest to the daemon only: it resolves pending_submissions.
Accept(it) ==
  /\ it.kind = "submit" /\ Unacknowledged(it.by) < MaxPending
  /\ rows' = Append(rows, [msg |-> it.msg, state |-> "waiting"])
  /\ pushes' = pushes \cup {it.msg}
  /\ tasks' = (tasks \ Submitter(it.msg)) \cup
                {[t EXCEPT !.phase = "accepted"] : t \in Submitter(it.msg)}
  /\ UNCHANGED <<link, client>>

\* The offline queue of the sender is full.  The client reports it and does not
\* try again; the daemon's task fails without acknowledging its request.
Reject(it) ==
  /\ it.kind = "submit" /\ Unacknowledged(it.by) >= MaxPending
  /\ tasks' = tasks \ Submitter(it.msg)
  /\ client' = IF client.phase = "waiting" /\ it.live /\ it.msg = Req(client.attempt)
               THEN [client EXCEPT !.phase = "idle"] ELSE client
  /\ UNCHANGED <<rows, link, pushes>>

\* Mutant: the queue is read only when a device connects.
AcknowledgeOnly(it) ==
  /\ it.kind = "ack"
  /\ IF RowIn(it.msg, RowStates \ {"gone"})
     THEN /\ rows' = Mark(it.msg, "acked")
          /\ link' = [link EXCEPT ![it.by] =
               IF @.hub THEN [@ EXCEPT !.inflight = @ \ {it.msg}, !.recent = @ \cup {it.msg},
                                       !.late = @ \/ ~it.live]
               ELSE @]
     ELSE UNCHANGED <<rows, link>>
  /\ UNCHANGED <<pushes, tasks, client>>

\* RelayConnection.acknowledge if the hub has the connection, then send_pending.
Acknowledged(l, it) ==
  [l EXCEPT !.inflight = IF l.hub THEN @ \ {it.msg} ELSE @,
            !.recent = IF l.hub THEN @ \cup {it.msg} ELSE @,
            !.late = @ \/ (l.hub /\ ~it.live),
            !.due = @ \/ it.live]

\* The acknowledgement is committed, then the hub forgets the envelope, then the
\* queue is read again.  A row that cleanup deleted is refused, and nothing is read.
Acknowledge(it) ==
  /\ it.kind = "ack"
  /\ IF RowIn(it.msg, RowStates \ {"gone"})
     THEN /\ rows' = Mark(it.msg, "acked")
          /\ link' = [link EXCEPT ![it.by] = Acknowledged(@, it)]
     ELSE UNCHANGED <<rows, link>>
  /\ UNCHANGED <<pushes, tasks, client>>

\* The route of a connection handles one message.
Route(it) ==
  /\ it \in up /\ Readable(it)
  /\ up' = up \ {it}
  /\ Accept(it) \/ Reject(it) \/ Acknowledge(it)
  /\ UNCHANGED <<taken, paired, spent>>

\* send_pending: one read, then one send after the other.
ReadPending(d) ==
  /\ link[d].due
  /\ link' = [link EXCEPT ![d].due = FALSE, ![d].batch = Pending(d)]
  /\ UNCHANGED <<rows, up, pushes, tasks, taken, client, paired, spent>>

SendNext(l, m) == [Send(l, m) EXCEPT !.batch = @ \ {m}]

SendPending(d, m) ==
  /\ ~link[d].due /\ m \in link[d].batch
  /\ link' = [link EXCEPT ![d] = SendNext(@, m)]
  /\ UNCHANGED <<rows, up, pushes, tasks, taken, client, paired, spent>>

\* The delivery task of an accepted envelope: it sends what it was given to the
\* connection that the hub has now, if any.
Push(m) ==
  /\ m \in pushes
  /\ pushes' = pushes \ {m}
  /\ link' = [link EXCEPT ![m.to] = IF @.hub THEN Send(@, m) ELSE @]
  /\ UNCHANGED <<rows, up, tasks, taken, client, paired, spent>>

\* The device reads too slowly and the send times out: the hub drops the
\* connection, whose route lives on.  The bytes were already written.
PushStalls(m) ==
  /\ m \in pushes /\ link[m.to].hub /\ m \notin link[m.to].inflight \cup link[m.to].recent
  /\ spent.faults < MaxFaults
  /\ spent' = [spent EXCEPT !.faults = @ + 1, !.stalls = @ + 1]
  /\ pushes' = pushes \ {m}
  /\ link' = [link EXCEPT ![m.to].hub = FALSE, ![m.to].down = @ \cup {m}]
  /\ UNCHANGED <<rows, up, tasks, taken, client, paired>>

\* Envelopes live equally long: the oldest expires first.
Expire(i) ==
  /\ i \in DOMAIN rows /\ rows[i].state = "waiting"
  /\ \A j \in 1..(i - 1) : rows[j].state # "waiting"
  /\ rows' = [rows EXCEPT ![i].state = "expired"]
  /\ Fault
  /\ UNCHANGED <<link, up, pushes, tasks, taken, client, paired>>

\* cleanup_expired: what has expired by now goes, and what was acknowledged.
Cleanup ==
  /\ \E n \in 0..Len(rows) : rows' = [i \in DOMAIN rows |->
       IF i > n /\ rows[i].state = "waiting" THEN rows[i] ELSE [rows[i] EXCEPT !.state = "gone"]]
  /\ rows' # rows
  /\ Fault
  /\ UNCHANGED <<link, up, pushes, tasks, taken, client, paired>>

-----------------------------------------------------------------------------
(* Connections.                                                             *)

\* Mutant: the queue is read before the hub knows the connection.
OpenedUnread == [NoLink EXCEPT !.open = TRUE, !.hub = TRUE]

\* hub.add, and only then the first read of the queue.
Opened == [NoLink EXCEPT !.open = TRUE, !.hub = TRUE, !.due = TRUE]

\* A connection of d breaks.  The relay may still read some of what was sent on
\* it; _connected_loop cancels the tasks of the daemon.
Closed(d) ==
  /\ link' = [link EXCEPT ![d] = NoLink]
  /\ LET sent == {it \in up : it.by = d} IN
       \E read \in SUBSET sent :
         up' = (up \ sent) \cup {[it EXCEPT !.live = FALSE] : it \in read}
  /\ tasks' = IF d = "daemon" THEN {} ELSE tasks

Lose(d) ==
  /\ link[d].open
  /\ Closed(d)
  /\ Fault
  /\ UNCHANGED <<rows, pushes, taken, client, paired>>

\* The relay starts again with its database and nothing else.
RelayRestart ==
  /\ Fault
  /\ link' = [d \in Devices |-> NoLink]
  /\ up' = {} /\ pushes' = {} /\ tasks' = {}
  /\ UNCHANGED <<rows, taken, client, paired>>

\* _run connects again after a delay.
DaemonConnect ==
  /\ ~link["daemon"].open
  /\ link' = [link EXCEPT !["daemon"] = Opened]
  /\ spent' = [spent EXCEPT !.connects = @ + 1]
  /\ UNCHANGED <<rows, up, pushes, tasks, taken, client, paired>>

-----------------------------------------------------------------------------
(* The daemon's bridge.                                                     *)

Working == {t \in tasks : t.phase # "deferred"}
Deferred == tasks \ Working

\* A handler first checks that it knows and trusts the sender.
Begun(t) == [t EXCEPT !.phase = IF paired THEN "running" ELSE "refused"]

\* A request is handed to a task, or put aside.  When the requests of all clients
\* fill the queue, the daemon closes the connection instead, and what it has not
\* acknowledged comes again.
Take(m) ==
  LET t == [attempt |-> m.attempt, nth |-> taken[m.attempt] + 1, phase |-> "deferred"]
      Room == Cardinality(Working) < MaxInflight
  IN
  /\ m \in link["daemon"].down
  /\ Deferred = {} \/ ~Room
  /\ \/ /\ tasks' = tasks \cup {IF Room THEN Begun(t) ELSE t}
        /\ taken' = [taken EXCEPT ![m.attempt] = @ + 1]
        /\ link' = [link EXCEPT !["daemon"].down = @ \ {m}]
        /\ UNCHANGED <<up, spent>>
     \/ /\ ~Room /\ Fault
        /\ Closed("daemon")
        /\ UNCHANGED taken
  /\ UNCHANGED <<rows, pushes, client, paired>>

\* launch_available.
Launch(t) ==
  /\ t \in Deferred /\ Cardinality(Working) < MaxInflight
  /\ tasks' = (tasks \ {t}) \cup {Begun(t)}
  /\ UNCHANGED <<rows, link, up, pushes, taken, client, paired, spent>>

\* The request was executed: its response is submitted under a new message id.
Respond(t) ==
  /\ t \in tasks /\ t.phase = "running"
  /\ tasks' = (tasks \ {t}) \cup {[t EXCEPT !.phase = "submitted"]}
  /\ up' = up \cup {Submitted(Resp(t.attempt, t.nth))}
  /\ UNCHANGED <<rows, link, pushes, taken, client, paired, spent>>

\* Mutant: the request is acknowledged as soon as its response was sent.
FinishSubmitted(t) ==
  /\ t \in tasks /\ t.phase \in {"submitted", "accepted", "refused"}
  /\ tasks' = tasks \ {t}
  /\ up' = up \cup {Acked("daemon", Req(t.attempt))}
  /\ UNCHANGED <<rows, link, pushes, taken, client, paired, spent>>

\* The relay holds the response, or the request is none that the daemon answers.
Finish(t) ==
  /\ t \in tasks /\ t.phase \in {"accepted", "refused"}
  /\ tasks' = tasks \ {t}
  /\ up' = up \cup {Acked("daemon", Req(t.attempt))}
  /\ UNCHANGED <<rows, link, pushes, taken, client, paired, spent>>

\* The handler raises: the device list cannot be read, the executor fails, or
\* the relay's answer does not come in time.
HandlerFails(t) ==
  /\ t \in tasks /\ t.phase \in {"running", "submitted", "accepted"}
  /\ tasks' = tasks \ {t}
  /\ Fault
  /\ UNCHANGED <<rows, link, up, pushes, taken, client, paired>>

Unpair ==
  /\ paired /\ paired' = FALSE
  /\ Fault
  /\ UNCHANGED <<rows, link, up, pushes, tasks, taken, client>>

-----------------------------------------------------------------------------
(* The client: call holds a lock, so calls follow each other.               *)

\* _connected_websocket, which reuses the socket of the last call.
ClientConnect ==
  /\ client.phase = "idle" /\ ~client.socket /\ client.attempt < MaxAttempts
  /\ client' = [client EXCEPT !.socket = TRUE]
  /\ link' = [link EXCEPT !["client"] = Opened]
  /\ UNCHANGED <<rows, up, pushes, tasks, taken, paired, spent>>

\* _call_once: a new request, of a new command or of the one that just failed.
ClientSend ==
  /\ client.phase = "idle" /\ client.attempt < MaxAttempts /\ link["client"].open
  /\ client' = [client EXCEPT !.phase = "waiting", !.attempt = @ + 1]
  /\ up' = up \cup {Submitted(Req(client.attempt + 1))}
  /\ UNCHANGED <<rows, link, pushes, tasks, taken, paired, spent>>

\* Every envelope is acknowledged; only the response to this attempt ends the call.
ClientReceive(m) ==
  /\ client.phase = "waiting" /\ m \in link["client"].down
  /\ link' = [link EXCEPT !["client"].down = @ \ {m}]
  /\ up' = up \cup {Acked("client", m)}
  /\ client' = IF m.attempt = client.attempt
               THEN [client EXCEPT !.phase = "idle"] ELSE client
  /\ UNCHANGED <<rows, pushes, tasks, taken, paired, spent>>

\* A timeout or a broken connection ends the attempt and closes the socket; call
\* makes another attempt, or reports the failure and is called again.
GiveUp ==
  /\ client.socket
  /\ IF link["client"].open THEN client.phase = "waiting" /\ Fault ELSE UNCHANGED spent
  /\ Closed("client")
  /\ client' = [client EXCEPT !.phase = "idle", !.socket = FALSE]
  /\ UNCHANGED <<rows, pushes, taken, paired>>

-----------------------------------------------------------------------------
Relay ==
  \/ \E it \in up : Route(it)
  \/ \E d \in Devices : ReadPending(d) \/ \E m \in link[d].batch : SendPending(d, m)
  \/ \E m \in pushes : Push(m)

Bridge ==
  \/ DaemonConnect
  \/ \E m \in link["daemon"].down : Take(m)
  \/ \E t \in tasks : Launch(t) \/ Respond(t) \/ Finish(t)

Client ==
  \/ ClientConnect \/ ClientSend \/ GiveUp
  \/ \E m \in link["client"].down : ClientReceive(m)

Faults ==
  \/ \E m \in pushes : PushStalls(m)
  \/ \E i \in DOMAIN rows : Expire(i)
  \/ \E d \in Devices : Lose(d)
  \/ \E t \in tasks : HandlerFails(t)
  \/ Cleanup \/ RelayRestart \/ Unpair

Next == Relay \/ Bridge \/ Client \/ Faults

Spec == Init /\ [][Next]_vars

\* The relay's event loop and the daemon's go on; nothing is asked of clients.
FairSpec == Spec /\ WF_vars(Relay) /\ WF_vars(Bridge)

-----------------------------------------------------------------------------
(* Properties.                                                              *)

\* The offline queue is the source of truth: an envelope that waits for a device
\* with a connection in the hub has been sent to it, is about to be, or will be
\* found by a read that is due now or after an acknowledgement; unless the last
\* read returned what the device acknowledged over its previous connection.
NothingForgotten ==
  \A i \in DOMAIN rows : LET m == rows[i].msg l == link[m.to] IN
    rows[i].state = "waiting" /\ l.hub =>
      m \in pushes \/ l.due \/ l.batch \cup l.inflight # {} \/ l.late

\* The daemon acknowledges a request, and so gives up that it comes again, only
\* when the relay holds an answer; or when it does not answer this client at all.
AckedMeansAnswered ==
  \A i \in DOMAIN rows :
    rows[i].msg.to = "daemon" /\ rows[i].state = "acked" =>
      ~paired \/ \E n \in 1..taken[rows[i].msg.attempt] : Stored(Resp(rows[i].msg.attempt, n))

\* A request is executed a second time only after a new connection, or after a
\* send that timed out although its bytes arrived.
TakenOncePerConnection ==
  \A a \in Attempts : taken[a] <= spent.connects + spent.stalls

\* The rest of this group makes the three properties above inductive.
\* What may travel to a device: requests to the daemon, answers to the client.
MessagesTo(d) == {m \in Message : m.to = d /\ (m.nth = 0 <=> d = "daemon")}

Submits(m) == {it \in up : it.kind = "submit" /\ it.msg = m}

\* The client or a task of the daemon did submit this message.
Numbered(m) ==
  /\ m \in MessagesTo(m.to)
  /\ IF m.to = "daemon" THEN m.attempt <= client.attempt ELSE m.nth <= taken[m.attempt]

\* A connection that is not open is forgotten.  What the hub remembers as
\* acknowledged waits no longer, and a read that is under way returned none of it,
\* unless it was acknowledged over the previous connection since.
LinkFits(d) ==
  LET l == link[d] IN
  /\ l.batch \cup l.inflight \cup l.recent \cup l.down \subseteq MessagesTo(d)
  /\ ~l.open => l = NoLink
  /\ \A m \in l.recent : Stored(m) /\ ~Waiting(m)
  /\ l.batch \cap l.recent # {} => l.late

\* The daemon may give the request up: it is answered, or will not be.
Answered(a) == ~paired \/ \E n \in 1..taken[a] : Stored(Resp(a, n))

\* Every envelope is submitted once and stored once; an acknowledgement of a
\* request says that it is answered.
EnvelopesFit ==
  /\ \A i \in DOMAIN rows : Numbered(rows[i].msg)
  /\ pushes \subseteq MessagesTo("client") \cup MessagesTo("daemon")
  /\ \A it \in up : IF it.kind = "submit"
       THEN Numbered(it.msg) /\ it.by = Other(it.msg.to) /\ ~Stored(it.msg) /\ Submits(it.msg) = {it}
       ELSE it.msg \in MessagesTo(it.by) /\ (it.by = "daemon" => Answered(it.msg.attempt))

\* Deliveries of a request are numbered; before a task responds there is no such
\* response, and it ends only when the relay has it or the client is not trusted.
TasksFit ==
  \A t \in tasks :
    /\ t.nth \in 1..taken[t.attempt]
    /\ \A u \in tasks : u.attempt = t.attempt /\ u.nth = t.nth => u = t
    /\ t.phase \in {"deferred", "running"} =>
         ~Stored(Resp(t.attempt, t.nth)) /\ Submits(Resp(t.attempt, t.nth)) = {}
    /\ t.phase = "accepted" => Stored(Resp(t.attempt, t.nth))
    /\ t.phase = "refused" => ~paired

\* How often a request may still be handed to a task over this connection: once
\* if it was delivered, once more if it may still be sent.
Chances(a) ==
  LET l == link["daemon"] IN
  (IF Req(a) \in l.down THEN 1 ELSE 0)
    + (IF l.open /\ Req(a) \notin l.inflight \cup l.recent THEN 1 ELSE 0)

TakenFits ==
  /\ \A a \in Attempts : taken[a] + Chances(a) <= spent.connects + spent.stalls
  /\ spent.stalls <= spent.faults

\* What relay, bridge and client leave behind wherever one of them fails.
RelayInv ==
  /\ TypeOK /\ \A d \in Devices : LinkFits(d)
  /\ EnvelopesFit /\ TasksFit /\ TakenFits
  /\ NothingForgotten /\ AckedMeansAnswered

\* A handler failed, or its acknowledgement was refused, and the connection is
\* still up: the relay takes the request for delivered until it breaks.
Parked(a) ==
  /\ Req(a) \in link["daemon"].inflight \ link["daemon"].down
  /\ \A t \in tasks : t.attempt # a
  /\ Acked("daemon", Req(a)) \notin up

\* The hub dropped a connection that is still up.
Deaf(d) == link[d].open /\ ~link[d].hub

\* A stored request is acknowledged, or it expires, or the daemon's connection
\* is in one of the three states that only a new connection repairs.
RequestsAreHandled ==
  \A a \in Attempts :
    Waiting(Req(a)) ~> \/ ~Waiting(Req(a))
                       \/ Deaf("daemon") \/ link["daemon"].late
                       \/ \E b \in Attempts : Parked(b)

\* What the relay's code says of a slow socket: it can recover the envelope from
\* the offline queue.
SlowSocketRecovers ==
  \A a \in Attempts :
    Waiting(Req(a)) ~> \/ ~Waiting(Req(a)) \/ link["daemon"].late
                       \/ \E b \in Attempts : Parked(b)
=============================================================================
