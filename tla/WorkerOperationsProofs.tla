----------------------- MODULE WorkerOperationsProofs -----------------------
(* A run has one worker at a time, no batch of it is executed twice, and what   *)
(* is added to its first batch is not thrown away.  All three are proved for   *)
(* any number of agents, workers, calls, stops and incidents; the invariants   *)
(* are those of module WorkerOwnership.                                        *)
EXTENDS WorkerOwnership, NaturalsInduction, WellFoundedInduction,
        FiniteSetTheorems, SequenceTheorems, TLAPS

-----------------------------------------------------------------------------
(* Events taken in one after the other                                         *)

\* A set of numbers that is not empty has a smallest one.
LEMMA Least ==
  ASSUME NEW T \in SUBSET Nat, T # {}
  PROVE  \E x \in T : \A y \in T : x <= y
<1> DEFINE R == {ss \in Nat \X Nat : ss[1] < ss[2]}
<1>1. IsWellFoundedOn(R, Nat)
  BY NatLessThanWellFounded DEF OpToRel
<1> HIDE DEF R
<1>2. PICK x \in T : \A y \in T : ~ (<<y, x>> \in R)
  BY <1>1, WFMin
<1>3. \A y \in T : ~ (y < x)
  BY <1>2 DEF R
<1> QED  BY <1>3

\* What holds of 0, and of the next number with each, holds up to any number.
LEMMA UpTo ==
  ASSUME NEW n \in Nat, NEW S, 0 \in S, \A k \in 1..n : k - 1 \in S => k \in S
  PROVE  0..n \subseteq S
<1> DEFINE T == (0..n) \ S
<1> SUFFICES ASSUME T # {} PROVE FALSE
  OBVIOUS
<1>1. T \in SUBSET Nat
  OBVIOUS
<1>2. PICK x \in T : \A y \in T : x <= y
  BY <1>1, Least
<1>3. x \in 1..n /\ x - 1 \in 0..n /\ ~ (x <= x - 1)
  BY <1>2
<1> QED  BY <1>2, <1>3

\* The records that the first, the second, ... event make of a record.
Chain(f, rec, events) ==
    f = [n \in 0..Len(events) |-> IF n = 0 THEN rec ELSE Apply(f[n - 1], events[n])]

\* There is a chain for every record and every sequence of events.
LEMMA ChainExists ==
  ASSUME NEW rec, NEW es, Len(es) \in Nat
  PROVE  \E f : Chain(f, rec, es)
<1> DEFINE Up(n, f) == f = [m \in 0..n |-> IF m = 0 THEN rec ELSE Apply(f[m - 1], es[m])]
<1> DEFINE T == {n \in 0..Len(es) : ~ \E f : Up(n, f)}
<1>1. T = {}
  <2> SUFFICES ASSUME T # {} PROVE FALSE
    OBVIOUS
  <2>0. T \in SUBSET Nat
    OBVIOUS
  <2>1. PICK x \in T : \A y \in T : x <= y
    BY <2>0, Least
  <2>2. CASE x = 0
    <3>1. Up(0, [m \in 0..0 |-> rec])
      OBVIOUS
    <3> QED  BY <3>1, <2>1, <2>2
  <2>3. CASE x # 0
    <3>1. x - 1 \in 0..Len(es) /\ x - 1 \notin T /\ x \in 0..Len(es) /\ x \in Nat
      BY <2>1, <2>3
    <3>2. PICK f : Up(x - 1, f)
      BY <3>1
    <3> DEFINE g == [m \in 0..x |-> IF m = x THEN Apply(f[x - 1], es[x]) ELSE f[m]]
    <3>3. \A m \in 0..x : g[m] = IF m = 0 THEN rec ELSE Apply(g[m - 1], es[m])
      BY <3>1, <3>2, <2>3
    <3>4. Up(x, g)
      BY <3>3
    <3> QED  BY <3>4, <2>1
  <2> QED  BY <2>2, <2>3
<1>2. Len(es) \notin T
  BY <1>1
<1> QED  BY <1>2 DEF Chain

\* Applied is the end of that chain.
LEMMA AppliedIs ==
  ASSUME NEW rec, NEW es, Len(es) \in Nat
  PROVE  \E f : Chain(f, rec, es) /\ Applied(rec, es) = f[Len(es)]
<1> DEFINE f == CHOOSE f : Chain(f, rec, es)
<1>1. Chain(f, rec, es)
  BY ChainExists
<1>2. Applied(rec, es) = f[Len(es)]
  BY DEF Applied, Chain
<1> QED  BY <1>1, <1>2

\* The members of a chain, one by one.
LEMMA ChainSteps ==
  ASSUME NEW f, NEW rec, NEW es, Len(es) \in Nat, Chain(f, rec, es)
  PROVE  f[0] = rec /\ \A n \in 1..Len(es) : f[n] = Apply(f[n - 1], es[n])
<1>1. \A n \in 0..Len(es) : f[n] = IF n = 0 THEN rec ELSE Apply(f[n - 1], es[n])
  BY DEF Chain
<1>2. 0 \in 0..Len(es) /\ \A n \in 1..Len(es) : n \in 0..Len(es) /\ n # 0
  OBVIOUS
<1> QED  BY <1>1, <1>2

\* Without events the record stays, one event is applied to it.
LEMMA AppliedFew ==
  ASSUME NEW rec, NEW e
  PROVE  Applied(rec, <<>>) = rec /\ Applied(rec, <<e>>) = Apply(rec, e)
<1>1. Applied(rec, <<>>) = rec
  <2>1. PICK f : Chain(f, rec, <<>>) /\ Applied(rec, <<>>) = f[Len(<<>>)]
    BY AppliedIs
  <2> QED  BY <2>1, ChainSteps
<1>2. Applied(rec, <<e>>) = Apply(rec, e)
  <2>1. PICK f : Chain(f, rec, <<e>>) /\ Applied(rec, <<e>>) = f[Len(<<e>>)]
    BY AppliedIs
  <2>2. Len(<<e>>) = 1 /\ <<e>>[1] = e
    OBVIOUS
  <2> QED  BY <2>1, <2>2, ChainSteps
<1> QED  BY <1>1, <1>2

\* Events that come in two parts.
LEMMA AppliedConcat ==
  ASSUME NEW rec, NEW E, NEW s \in Seq(E), NEW t \in Seq(E)
  PROVE  Applied(rec, s \o t) = Applied(Applied(rec, s), t)
<1> DEFINE st == s \o t
<1>0. /\ Len(s) \in Nat /\ Len(t) \in Nat /\ Len(st) = Len(s) + Len(t) /\ Len(st) \in Nat
      /\ \A n \in 1..Len(s) : n \in 1..Len(st) /\ st[n] = s[n]
      /\ \A n \in 1..Len(t) : Len(s) + n \in 1..Len(st) /\ st[Len(s) + n] = t[n]
  OBVIOUS
<1> HIDE DEF st
<1>1. PICK f : Chain(f, rec, st) /\ Applied(rec, st) = f[Len(st)]
  BY <1>0, AppliedIs
<1>2. PICK g : Chain(g, rec, s) /\ Applied(rec, s) = g[Len(s)]
  BY <1>0, AppliedIs
<1>3. PICK h : Chain(h, g[Len(s)], t) /\ Applied(g[Len(s)], t) = h[Len(t)]
  BY <1>0, AppliedIs
<1>4. /\ f[0] = rec /\ g[0] = rec /\ h[0] = g[Len(s)]
      /\ \A n \in 1..Len(s) : f[n] = Apply(f[n - 1], s[n]) /\ g[n] = Apply(g[n - 1], s[n])
      /\ \A n \in 1..Len(t) : /\ f[Len(s) + n] = Apply(f[Len(s) + n - 1], t[n])
                              /\ h[n] = Apply(h[n - 1], t[n])
  <2>1. \A n \in 1..Len(st) : f[n] = Apply(f[n - 1], st[n])
    <3>1. Chain(f, rec, st) /\ Len(st) \in Nat
      BY <1>0, <1>1
    <3> QED  BY <3>1, ChainSteps
  <2>2. \A n \in 1..Len(s) : f[n] = Apply(f[n - 1], s[n])
    BY <1>0, <2>1
  <2>3. \A n \in 1..Len(t) : f[Len(s) + n] = Apply(f[Len(s) + n - 1], t[n])
    BY <1>0, <2>1
  <2>5. g[0] = rec /\ \A n \in 1..Len(s) : g[n] = Apply(g[n - 1], s[n])
    <3>1. Chain(g, rec, s) /\ Len(s) \in Nat
      BY <1>0, <1>2
    <3> QED  BY <3>1, ChainSteps
  <2>6. h[0] = g[Len(s)] /\ \A n \in 1..Len(t) : h[n] = Apply(h[n - 1], t[n])
    <3>1. Chain(h, g[Len(s)], t) /\ Len(t) \in Nat
      BY <1>0, <1>3
    <3> QED  BY <3>1, ChainSteps
  <2>4. f[0] = rec
    <3>1. Chain(f, rec, st) /\ Len(st) \in Nat
      BY <1>0, <1>1
    <3> QED  BY <3>1, ChainSteps
  <2> QED  BY <2>2, <2>3, <2>4, <2>5, <2>6
<1>5. f[Len(s)] = g[Len(s)]
  <2> DEFINE S == {n \in 0..Len(s) : f[n] = g[n]}
  <2>1. 0 \in S /\ \A k \in 1..Len(s) : k - 1 \in S => k \in S
    BY <1>0, <1>4
  <2> HIDE DEF S
  <2>2. 0..Len(s) \subseteq S
    <3>1. Len(s) \in Nat
      BY <1>0
    <3>2. 0 \in S
      BY <2>1
    <3>3. \A k \in 1..Len(s) : k - 1 \in S => k \in S
      BY <2>1
    <3> QED  BY <3>1, <3>2, <3>3, UpTo
  <2>3. Len(s) \in 0..Len(s)
    BY <1>0
  <2> QED  BY <2>2, <2>3 DEF S
<1>6. f[Len(s) + Len(t)] = h[Len(t)]
  <2> DEFINE S == {n \in 0..Len(t) : f[Len(s) + n] = h[n]}
  <2>1. 0 \in S
    BY <1>0, <1>4, <1>5
  <2>2. \A k \in 1..Len(t) : k - 1 \in S => k \in S
    <3> SUFFICES ASSUME NEW k \in 1..Len(t), k - 1 \in S PROVE k \in S
      OBVIOUS
    <3>1. Len(s) + (k - 1) = Len(s) + k - 1 /\ k \in 0..Len(t)
      BY <1>0
    <3> QED  BY <1>4, <3>1
  <2> HIDE DEF S
  <2>3. 0..Len(t) \subseteq S
    <3>1. Len(t) \in Nat
      BY <1>0
    <3> QED  BY <3>1, <2>1, <2>2, UpTo
  <2>4. Len(t) \in 0..Len(t)
    BY <1>0
  <2> QED  BY <2>3, <2>4 DEF S
<1> QED  BY <1>0, <1>1, <1>2, <1>3, <1>5, <1>6 DEF st

\* What every event of a sequence leads from a record of a set to one of that set,
\* the sequence does.
LEMMA AppliedWithin ==
  ASSUME NEW S, NEW rec \in S, NEW E, NEW es \in Seq(E),
         \A x \in S : \A n \in 1..Len(es) : Apply(x, es[n]) \in S
  PROVE  Applied(rec, es) \in S
<1>0. Len(es) \in Nat
  OBVIOUS
<1>1. PICK f : Chain(f, rec, es) /\ Applied(rec, es) = f[Len(es)]
  BY <1>0, AppliedIs
<1>2. f[0] = rec /\ \A n \in 1..Len(es) : f[n] = Apply(f[n - 1], es[n])
  BY <1>0, <1>1, ChainSteps
<1> DEFINE T == {n \in 0..Len(es) : f[n] \in S}
<1>3. 0 \in T
  BY <1>0, <1>2
<1>4. \A k \in 1..Len(es) : k - 1 \in T => k \in T
  BY <1>0, <1>2
<1> HIDE DEF T
<1>5. 0..Len(es) \subseteq T
  BY <1>0, <1>3, <1>4, UpTo
<1>6. Len(es) \in T
  BY <1>0, <1>5
<1> QED  BY <1>1, <1>6 DEF T

\* Two records that take in the same events.
LEMMA AppliedToBoth ==
  ASSUME NEW S, NEW x, NEW y, <<x, y>> \in S, NEW E, NEW es \in Seq(E),
         \A p \in S : \A e \in E : <<Apply(p[1], e), Apply(p[2], e)>> \in S
  PROVE  <<Applied(x, es), Applied(y, es)>> \in S
<1>0. Len(es) \in Nat /\ \A n \in 1..Len(es) : es[n] \in E
  OBVIOUS
<1>1. PICK f : Chain(f, x, es) /\ Applied(x, es) = f[Len(es)]
  BY <1>0, AppliedIs
<1>2. PICK g : Chain(g, y, es) /\ Applied(y, es) = g[Len(es)]
  BY <1>0, AppliedIs
<1>3. f[0] = x /\ \A n \in 1..Len(es) : f[n] = Apply(f[n - 1], es[n])
  BY <1>0, <1>1, ChainSteps
<1>4. g[0] = y /\ \A n \in 1..Len(es) : g[n] = Apply(g[n - 1], es[n])
  BY <1>0, <1>2, ChainSteps
<1> DEFINE T == {n \in 0..Len(es) : <<f[n], g[n]>> \in S}
<1>5. 0 \in T
  BY <1>0, <1>3, <1>4
<1>6. \A k \in 1..Len(es) : k - 1 \in T => k \in T
  <2> SUFFICES ASSUME NEW k \in 1..Len(es), <<f[k - 1], g[k - 1]>> \in S
               PROVE  <<f[k], g[k]>> \in S
    BY <1>0
  <2>1. es[k] \in E
    BY <1>0
  <2>2. <<Apply(f[k - 1], es[k]), Apply(g[k - 1], es[k])>> \in S
    BY <2>1
  <2> QED  BY <2>2, <1>3, <1>4
<1> HIDE DEF T
<1>7. 0..Len(es) \subseteq T
  BY <1>0, <1>5, <1>6, UpTo
<1>8. Len(es) \in T
  BY <1>0, <1>7
<1> QED  BY <1>1, <1>2, <1>8 DEF T

\* The kinds of events, and what each carries.
LEMMA EventKinds ==
  ASSUME NEW e \in Event
  PROVE  /\ e.kind \in {"worker_started", "operation_started", "prepared", "failed", "agent", "ended",
                        "operation_finished", "worker_stopped"}
         /\ e.kind = "worker_started" => e.pid \in Workers
         /\ e.kind = "operation_started" => e.pid \in Workers /\ e.op \in Op /\ e.id \in Nat
         /\ e.kind = "agent" => e.agent \in Agents /\ e.status \in AgentStatus
  BY DEF Event

\* An event makes a record of a record.
LEMMA ApplyType ==
  ASSUME NEW rec \in Record, NEW e \in Event
  PROVE  Apply(rec, e) \in Record
<1>1. CASE e.kind = "worker_started"
  <2>1. e.pid \in OrNobody
    BY <1>1, EventKinds DEF OrNobody
  <2>2. Apply(rec, e) =
          [rec EXCEPT !.pid = e.pid, !.state = IF rec.op = "" THEN "idle" ELSE "busy",
                      !.status = IF @ = "preparing" THEN "running" ELSE @]
    BY <1>1 DEF Apply
  <2> QED  BY <2>1, <2>2 DEF Record, RunStatus, ActiveStatus
<1>2. CASE e.kind = "operation_started"
  <2>1. e.pid \in OrNobody /\ e.op \in Op /\ e.id \in Nat
    BY <1>2, EventKinds DEF OrNobody
  <2>2. Apply(rec, e) = [rec EXCEPT !.pid = e.pid, !.state = "busy", !.op = e.op, !.id = e.id]
    BY <1>2 DEF Apply
  <2> QED  BY <2>1, <2>2 DEF Record
<1>3. CASE e.kind \in {"prepared", "failed"}
  BY <1>3 DEF Apply, Record, RunStatus, ActiveStatus
<1>4. CASE e.kind \in {"operation_finished", "worker_stopped"}
  BY <1>4 DEF Apply, Record, OrNobody, NoOperation
<1>5. CASE e.kind = "agent"
  BY <1>5, EventKinds DEF Apply, Record
<1>6. CASE e.kind = "ended"
  <2>1. rec.agents \in [Agents -> AgentStatus]
    BY DEF Record
  <2>2. Seal(rec.agents) \in [Agents -> AgentStatus]
    BY <2>1 DEF Seal, AgentStatus, Terminal
  <2>3. Apply(rec, e) =
          [rec EXCEPT !.status = IF e.cancelled THEN "cancelled" ELSE "completed",
                      !.agents = Seal(rec.agents)]
    BY <1>6 DEF Apply
  <2> QED  BY <2>2, <2>3 DEF Record, RunStatus
<1> QED  BY <1>1, <1>2, <1>3, <1>4, <1>5, <1>6, EventKinds

\* What an event does to the fields that tell of the worker.
LEMMA ApplyFields ==
  ASSUME NEW rec \in Record, NEW e \in Event
  PROVE  LET new == Apply(rec, e) IN
         /\ e.kind = "worker_started" =>
              /\ new.pid = e.pid /\ new.op = rec.op
              /\ new.state = IF rec.op = "" THEN "idle" ELSE "busy"
              /\ new.status = IF rec.status = "preparing" THEN "running" ELSE rec.status
         /\ e.kind = "operation_started" =>
              new.pid = e.pid /\ new.op = e.op /\ new.state = "busy" /\ new.status = rec.status
         /\ e.kind \in {"prepared", "failed", "agent", "ended"} =>
              /\ new.pid = rec.pid /\ new.op = rec.op /\ new.state = rec.state
              /\ e.kind = "agent" => new.status = rec.status
              /\ e.kind = "prepared" => new.status = "running"
              /\ e.kind = "failed" => new.status = "failed"
              /\ e.kind = "ended" => new.status = IF e.cancelled THEN "cancelled" ELSE "completed"
         /\ e.kind = "operation_finished" =>
              new.pid = rec.pid /\ new.op = "" /\ new.state = "idle" /\ new.status = rec.status
         /\ e.kind = "worker_stopped" =>
              new.pid = 0 /\ new.op = "" /\ new.state = "stopped" /\ new.status = rec.status
<1>1. CASE e.kind \in {"worker_started", "operation_started"}
  BY <1>1, EventKinds DEF Apply, Record, OrNobody
<1>2. CASE e.kind \in {"prepared", "failed", "operation_finished", "worker_stopped"}
  BY <1>2, EventKinds DEF Apply, Record, OrNobody, NoOperation, RunStatus
<1>3. CASE e.kind = "agent"
  BY <1>3, EventKinds DEF Apply, Record
<1>4. CASE e.kind = "ended"
  BY <1>4, EventKinds DEF Apply, Record, Seal, RunStatus, AgentStatus
<1> QED  BY <1>1, <1>2, <1>3, <1>4, EventKinds

\* Events make a record of a record.
LEMMA AppliedType ==
  ASSUME NEW rec \in Record, NEW es \in Seq(Event)
  PROVE  Applied(rec, es) \in Record
<1>1. \A x \in Record : \A n \in 1..Len(es) : Apply(x, es[n]) \in Record
  BY ApplyType
<1> QED  BY <1>1, AppliedWithin

\* A record names only who was named before or by an event.
LEMMA PidFrom ==
  ASSUME NEW rec \in Record, NEW es \in Seq(Event), NEW w \in Workers, rec.pid # w,
         \A n \in 1..Len(es) :
            es[n].kind \in {"worker_started", "operation_started"} => es[n].pid # w
  PROVE  Applied(rec, es).pid # w
<1> DEFINE S == {x \in Record : x.pid # w}
<1>1. \A x \in S : \A n \in 1..Len(es) : Apply(x, es[n]) \in S
  <2> SUFFICES ASSUME NEW x \in S, NEW n \in 1..Len(es) PROVE Apply(x, es[n]) \in S
    OBVIOUS
  <2>1. es[n] \in Event /\ x \in Record /\ 0 # w
    BY DEF Workers
  <2>2. Apply(x, es[n]).pid # w
    BY <2>1, ApplyFields, EventKinds
  <2> QED  BY <2>1, <2>2, ApplyType
<1>2. rec \in S
  OBVIOUS
<1> HIDE DEF S
<1>3. Applied(rec, es) \in S
  BY <1>1, <1>2, AppliedWithin
<1> QED  BY <1>3 DEF S

\* Events about agents leave alone what a record says of the worker.
LEMMA AgentEvents ==
  ASSUME NEW rec \in Record, NEW es \in Seq(Event), \A n \in 1..Len(es) : es[n].kind = "agent"
  PROVE  LET new == Applied(rec, es) IN
         new.pid = rec.pid /\ new.op = rec.op /\ new.state = rec.state /\ new.status = rec.status
<1> DEFINE S == {x \in Record : /\ x.pid = rec.pid /\ x.op = rec.op
                                /\ x.state = rec.state /\ x.status = rec.status}
<1>1. \A x \in S : \A n \in 1..Len(es) : Apply(x, es[n]) \in S
  <2> SUFFICES ASSUME NEW x \in S, NEW n \in 1..Len(es) PROVE Apply(x, es[n]) \in S
    OBVIOUS
  <2>1. es[n] \in Event /\ x \in Record /\ es[n].kind = "agent"
    OBVIOUS
  <2> QED  BY <2>1, ApplyFields, ApplyType
<1>2. rec \in S
  OBVIOUS
<1> HIDE DEF S
<1>3. Applied(rec, es) \in S
  BY <1>1, <1>2, AppliedWithin
<1> QED  BY <1>3 DEF S

(* y says of the worker what x says, but it may have an operation where x has   *)
(* none, and may be complete or stopped less often.                            *)
Rival(x, y) ==
    /\ x \in Record /\ y \in Record
    /\ x.pid = y.pid /\ x.op \in {y.op, ""}
    /\ y.status = "completed" => x.status = "completed"
    /\ y.state = "stopped" => x.state = "stopped"

\* That stays so when both take in the same event,
LEMMA RivalsStep ==
  ASSUME NEW x \in Record, NEW y \in Record, Rival(x, y), NEW e \in Event
  PROVE  Rival(Apply(x, e), Apply(y, e))
<1>1. Apply(x, e) \in Record /\ Apply(y, e) \in Record
  BY ApplyType
<1>2. CASE e.kind = "worker_started"
  <2>1. \A r \in {x, y} : LET new == Apply(r, e) IN
           /\ new.pid = e.pid /\ new.op = r.op
           /\ new.state = (IF r.op = "" THEN "idle" ELSE "busy")
           /\ new.status = (IF r.status = "preparing" THEN "running" ELSE r.status)
    BY <1>2, ApplyFields
  <2> QED  BY <1>1, <2>1 DEF Rival
<1>5. CASE e.kind = "operation_started"
  <2>1. \A r \in {x, y} : LET new == Apply(r, e) IN
           new.pid = e.pid /\ new.op = e.op /\ new.state = "busy" /\ new.status = r.status
    BY <1>5, ApplyFields
  <2> QED  BY <1>1, <2>1 DEF Rival
<1>3. CASE e.kind \in {"prepared", "failed", "agent", "ended"}
  BY <1>1, <1>3, ApplyFields DEF Rival
<1>4. CASE e.kind = "operation_finished"
  <2>1. \A r \in {x, y} : LET new == Apply(r, e) IN
           new.pid = r.pid /\ new.op = "" /\ new.state = "idle" /\ new.status = r.status
    BY <1>4, ApplyFields
  <2> QED  BY <1>1, <2>1 DEF Rival
<1>6. CASE e.kind = "worker_stopped"
  <2>1. \A r \in {x, y} : LET new == Apply(r, e) IN
           new.pid = 0 /\ new.op = "" /\ new.state = "stopped" /\ new.status = r.status
    BY <1>6, ApplyFields
  <2> QED  BY <1>1, <2>1 DEF Rival
<1> QED  BY <1>2, <1>3, <1>4, <1>5, <1>6, EventKinds

\* and while they take in the same events.
LEMMA RivalsStay ==
  ASSUME NEW x, NEW y, Rival(x, y), NEW es \in Seq(Event)
  PROVE  Rival(Applied(x, es), Applied(y, es))
<1> DEFINE S == {p \in Record \X Record : Rival(p[1], p[2])}
<1>1. <<x, y>> \in S
  BY DEF Rival
<1>2. \A p \in S : \A e \in Event : <<Apply(p[1], e), Apply(p[2], e)>> \in S
  <2> SUFFICES ASSUME NEW p \in S, NEW e \in Event
               PROVE  <<Apply(p[1], e), Apply(p[2], e)>> \in S
    OBVIOUS
  <2>1. p[1] \in Record /\ p[2] \in Record /\ Rival(p[1], p[2])
    OBVIOUS
  <2>2. Apply(p[1], e) \in Record /\ Apply(p[2], e) \in Record
    BY <2>1, ApplyType
  <2>3. Rival(Apply(p[1], e), Apply(p[2], e))
    BY <2>1, RivalsStep
  <2> QED  BY <2>2, <2>3
<1> HIDE DEF S
<1>3. <<Applied(x, es), Applied(y, es)>> \in S
  BY <1>1, <1>2, AppliedToBoth
<1> QED  BY <1>3 DEF S

-----------------------------------------------------------------------------
(* What is unread                                                              *)

\* When everything is read there is nothing left; when nothing is, all of it.
LEMMA UnreadEnds ==
  ASSUME NEW E, NEW s \in Seq(E)
  PROVE  SubSeq(s, Len(s) + 1, Len(s)) = <<>> /\ SubSeq(s, 1, Len(s)) = s /\ SubSeq(<<>>, 1, 0) = <<>>
  OBVIOUS

\* What is added is unread, after what was.
LEMMA UnreadGrows ==
  ASSUME NEW E, NEW s \in Seq(E), NEW t \in Seq(E), NEW n \in 0..Len(s)
  PROVE  /\ SubSeq(s, n + 1, Len(s)) \in Seq(E) /\ s \o t \in Seq(E) /\ n \in 0..Len(s \o t)
         /\ SubSeq(s \o t, n + 1, Len(s \o t)) = SubSeq(s, n + 1, Len(s)) \o t
<1>1. SubSeq(s, n + 1, Len(s)) \in Seq(E) /\ s \o t \in Seq(E) /\ n \in 0..Len(s \o t)
  OBVIOUS
<1> DEFINE u == SubSeq(s \o t, n + 1, Len(s \o t))  v == SubSeq(s, n + 1, Len(s)) \o t
<1>2. /\ u \in Seq(E) /\ v \in Seq(E)
      /\ Len(u) = Len(s) - n + Len(t) /\ Len(v) = Len(s) - n + Len(t)
  OBVIOUS
<1>3. \A i \in 1..(Len(s) - n + Len(t)) : u[i] = v[i]
  <2> SUFFICES ASSUME NEW i \in 1..(Len(s) - n + Len(t)) PROVE u[i] = v[i]
    OBVIOUS
  <2>1. u[i] = (s \o t)[n + i]
    OBVIOUS
  <2>2. CASE i <= Len(s) - n
    BY <2>1, <2>2
  <2>3. CASE ~ (i <= Len(s) - n)
    BY <2>1, <2>3
  <2> QED  BY <2>2, <2>3
<1>4. u = v
  BY <1>2, <1>3, SeqEqual
<1> QED  BY <1>1, <1>4

-----------------------------------------------------------------------------
(* Types                                                                       *)

\* A record in which the worker was looked for is a record.
LEMMA DetectType ==
  ASSUME NEW rec \in Record
  PROVE  Detect(rec) \in Record
<1> DEFINE interrupted == [a \in Agents |-> IF rec.agents[a] \in Pending THEN "interrupted" ELSE rec.agents[a]]
<1>1. interrupted \in [Agents -> AgentStatus]
  BY DEF AgentStatus, Record
<1>6. NoOperation(rec) \in Record
  BY DEF Record, NoOperation
<1>2. CASE Owned(rec)
  BY <1>2 DEF Detect
<1>3. CASE ~Owned(rec) /\ ResultsKept(rec)
  <2>1. Detect(rec) = [NoOperation(rec) EXCEPT !.pid = 0, !.state = "stopped"]
    BY <1>3 DEF Detect
  <2> QED  BY <1>6, <2>1 DEF Record, OrNobody
<1>4. CASE ~Owned(rec) /\ ~ResultsKept(rec) /\ rec.state \in {"crashed", "stopped"}
  BY <1>4 DEF Detect
<1>5. CASE ~Owned(rec) /\ ~ResultsKept(rec) /\ rec.state \notin {"crashed", "stopped"}
  <2>1. Detect(rec) =
          [NoOperation(rec) EXCEPT
            !.pid = 0, !.state = "crashed",
            !.status = IF rec.status \in ActiveStatus THEN "interrupted" ELSE rec.status,
            !.agents = IF rec.status \in ActiveStatus THEN interrupted ELSE rec.agents]
    BY <1>5 DEF Detect, NoOperation, Record
  <2>2. (IF rec.status \in ActiveStatus THEN "interrupted" ELSE rec.status) \in RunStatus
    BY DEF Record, RunStatus
  <2>3. (IF rec.status \in ActiveStatus THEN interrupted ELSE rec.agents) \in [Agents -> AgentStatus]
    BY <1>1 DEF Record
  <2> HIDE DEF interrupted
  <2> QED  BY <1>6, <2>1, <2>2, <2>3 DEF Record, OrNobody
<1> QED  BY <1>2, <1>3, <1>4, <1>5

\* The manager's own records of what it reads.
LEMMA ReadType ==
  ASSUME OwnershipTypeOK
  PROVE  /\ Unread \in Seq(Event) /\ Refresh(record) \in Record
         /\ Applied(disk, tail) \in Record
         /\ \A rec \in Record : Detect(rec) \in Record /\ Maintained(rec) \in Record
<1>1. Unread \in Seq(Event)
  BY DEF OwnershipTypeOK, ViewsTypeOK, Unread
<1>2. Refresh(record) \in Record /\ Applied(disk, tail) \in Record
  BY <1>1, AppliedType DEF OwnershipTypeOK, ViewsTypeOK, Refresh
<1>3. \A rec \in Record : Detect(rec) \in Record
  BY DetectType
<1>4. ASSUME NEW rec \in Record PROVE Maintained(rec) \in Record
  BY DEF Maintained, Record, OrNobody, RunStatus
<1> QED  BY <1>1, <1>2, <1>3, <1>4

\* A step that adds events, and one that saves what was read.
LEMMA ViewsSteps ==
  ASSUME OwnershipTypeOK
  PROVE  /\ \A es \in Seq(Event) : Emit(es) => ViewsTypeOK'
         /\ \A saved, kept \in Record : SaveAnd(saved, kept) => ViewsTypeOK'
         /\ UNCHANGED <<record, disk, tail, seen>> => ViewsTypeOK'
<1>1. ASSUME NEW es \in Seq(Event), Emit(es) PROVE ViewsTypeOK'
  <2>1. tail \o es \in Seq(Event) /\ seen \in 0..Len(tail \o es)
    BY UnreadGrows DEF OwnershipTypeOK, ViewsTypeOK
  <2> QED  BY <1>1, <2>1 DEF OwnershipTypeOK, ViewsTypeOK, Emit
<1>2. ASSUME NEW saved \in Record, NEW kept \in Record, SaveAnd(saved, kept) PROVE ViewsTypeOK'
  BY <1>2 DEF ViewsTypeOK, SaveAnd
<1>3. UNCHANGED <<record, disk, tail, seen>> => ViewsTypeOK'
  BY DEF OwnershipTypeOK, ViewsTypeOK
<1> QED  BY <1>1, <1>2, <1>3

\* What becomes of one process, and the others stay as they are.
Moved(w, p) == /\ workers' = [workers EXCEPT ![w] = p] /\ p \in Process

\* A step of one process keeps the type of all.
LEMMA ProcessStep ==
  ASSUME ProcessesTypeOK, NEW w \in Workers
  PROVE  /\ workers[w] \in Process /\ DOMAIN workers = Workers
         /\ \A p : Moved(w, p) =>
              /\ workers' \in [Workers -> Process] /\ workers'[w] = p
              /\ \A x \in Workers \ {w} : workers'[x] = workers[x]
         /\ \A pc \in Pc : Go(w, pc) => Moved(w, [workers[w] EXCEPT !.pc = pc])
         /\ \A a \in Agents, s \in AgentStatus :
              workers' = [workers EXCEPT ![w].tasks[a] = s]
                => Moved(w, [workers[w] EXCEPT !.tasks = [@ EXCEPT ![a] = s]])
<1>1. workers \in [Workers -> Process] /\ workers[w] \in Process
  BY DEF ProcessesTypeOK
<1>2. ASSUME NEW p, Moved(w, p)
      PROVE  /\ workers' \in [Workers -> Process] /\ workers'[w] = p
             /\ \A x \in Workers \ {w} : workers'[x] = workers[x]
  BY <1>1, <1>2 DEF Moved
<1>3. ASSUME NEW pc \in Pc, Go(w, pc) PROVE Moved(w, [workers[w] EXCEPT !.pc = pc])
  <2>1. [workers[w] EXCEPT !.pc = pc] \in Process
    BY <1>1 DEF Process
  <2> QED  BY <2>1, <1>3 DEF Moved, Go
<1>4. ASSUME NEW a \in Agents, NEW s \in AgentStatus, workers' = [workers EXCEPT ![w].tasks[a] = s]
      PROVE  Moved(w, [workers[w] EXCEPT !.tasks = [@ EXCEPT ![a] = s]])
  <2>1. [workers[w] EXCEPT !.tasks = [@ EXCEPT ![a] = s]] \in Process
    BY <1>1 DEF Process
  <2>2. workers' = [workers EXCEPT ![w] = [workers[w] EXCEPT !.tasks = [@ EXCEPT ![a] = s]]]
    BY <1>1, <1>4
  <2> QED  BY <2>1, <2>2 DEF Moved
<1> QED  BY <1>1, <1>2, <1>3, <1>4

\* The steps of a worker keep the types.
LEMMA WorkerType ==
  ASSUME OwnershipTypeOK, NEW w \in Workers, Worker(w)
  PROVE  OwnershipTypeOK'
<1> USE DEF OwnershipTypeOK
<1>1. CASE AwaitPublication(w)
  <2>1. ViewsTypeOK'
    BY <1>1, ViewsSteps DEF AwaitPublication, ByWorker
  <2>2. FilesTypeOK'
    BY <1>1 DEF AwaitPublication, FilesTypeOK, files
  <2>3. CallTypeOK' /\ process' = process
    BY <1>1 DEF AwaitPublication, ByWorker, CallTypeOK
  <2>4. HistoryTypeOK'
    BY <1>1 DEF AwaitPublication, HistoryTypeOK, history
  <2>5. \E pc \in Pc : Go(w, pc)
    BY <1>1 DEF AwaitPublication, Pc, Stage, Rest
  <2>6. workers' \in [Workers -> Process]
    BY <2>5, ProcessStep
  <2>7. ProcessesTypeOK'
    BY <1>1, <2>3, <2>6 DEF AwaitPublication, ProcessesTypeOK, OrNobody, files
  <2> QED  BY <2>1, <2>2, <2>3, <2>4, <2>7
<1>2. CASE Boot(w)
  <2>1. ViewsTypeOK'
    <3> DEFINE es == <<[kind |-> "worker_started", pid |-> w]>>
    <3>1. es \in Seq(Event)
      BY DEF Event
    <3>2. Emit(es)
      BY <1>2 DEF Boot
    <3> HIDE DEF es
    <3> QED  BY <3>1, <3>2, ViewsSteps
  <2>2. FilesTypeOK'
    BY <1>2 DEF Boot, FilesTypeOK
  <2>3. CallTypeOK' /\ process' = process
    BY <1>2 DEF Boot, ByWorker, CallTypeOK
  <2>4. HistoryTypeOK'
    BY <1>2 DEF Boot, HistoryTypeOK, history
  <2>5. \E pc \in Pc : Go(w, pc)
    BY <1>2 DEF Boot, Pc, Stage, Rest
  <2>6. workers' \in [Workers -> Process]
    BY <2>5, ProcessStep
  <2>7. ProcessesTypeOK'
    BY <1>2, <2>3, <2>6 DEF Boot, ProcessesTypeOK, OrNobody
  <2> QED  BY <2>1, <2>2, <2>3, <2>4, <2>7
<1>3. CASE Prepare(w)
  <2>1. ViewsTypeOK'
    <3> DEFINE es == IF workers[w].op = "initial" THEN <<[kind |-> "prepared"]>> ELSE <<>>
    <3>1. <<[kind |-> "prepared"]>> \in Seq(Event) /\ <<>> \in Seq(Event)
      BY DEF Event
    <3>3. es \in Seq(Event)
      BY <3>1
    <3>2. Emit(es)
      BY <1>3 DEF Prepare
    <3> HIDE DEF es
    <3> QED  BY <3>3, <3>2, ViewsSteps
  <2>2. FilesTypeOK'
    BY <1>3 DEF Prepare, FilesTypeOK, files
  <2>3. CallTypeOK' /\ process' = process
    BY <1>3 DEF Prepare, ByWorker, CallTypeOK
  <2>4. HistoryTypeOK'
    BY <1>3 DEF Prepare, HistoryTypeOK, history
  <2> DEFINE p == [workers[w] EXCEPT !.pc = IF stop THEN "ending" ELSE "stage", !.tasks = IF stop THEN Asleep.tasks ELSE @]
  <2>5. p \in Process
    <3>1. Asleep.tasks \in [Agents -> AgentStatus] /\ workers[w] \in Process
      BY ProcessStep DEF Asleep, AgentStatus
    <3> QED  BY <3>1 DEF Process, Pc, Stage
  <2>6. workers' \in [Workers -> Process]
    <3>1. workers' = [workers EXCEPT ![w] = p]
      BY <1>3 DEF Prepare, ProcessesTypeOK
    <3> HIDE DEF p
    <3> QED  BY <2>5, <3>1, ProcessStep DEF Moved
  <2>7. ProcessesTypeOK'
    BY <1>3, <2>3, <2>6 DEF Prepare, ProcessesTypeOK, OrNobody, files
  <2> QED  BY <2>1, <2>2, <2>3, <2>4, <2>7
<1>4. CASE Drain(w)
  <2>1. ViewsTypeOK'
    BY <1>4, ViewsSteps DEF Drain, ByWorker
  <2>2. FilesTypeOK'
    BY <1>4 DEF Drain, FilesTypeOK
  <2>3. CallTypeOK' /\ process' = process
    BY <1>4 DEF Drain, ByWorker, CallTypeOK
  <2>4. HistoryTypeOK'
    BY <1>4 DEF Drain, HistoryTypeOK, history
  <2> DEFINE p == [workers[w] EXCEPT !.tasks = [a \in Agents |-> IF a \in window.pending THEN "queued" ELSE @[a]]]
  <2>5. p \in Process
    <3>1. workers[w] \in Process /\ workers[w].tasks \in [Agents -> AgentStatus]
      BY ProcessStep DEF Process
    <3>2. [a \in Agents |-> IF a \in window.pending THEN "queued" ELSE workers[w].tasks[a]]
            \in [Agents -> AgentStatus]
      BY <3>1 DEF AgentStatus, Pending
    <3> QED  BY <3>1, <3>2 DEF Process
  <2>6. workers' \in [Workers -> Process]
    <3>1. workers' = [workers EXCEPT ![w] = p]
      BY <1>4 DEF Drain, ProcessesTypeOK
    <3> HIDE DEF p
    <3> QED  BY <2>5, <3>1, ProcessStep DEF Moved
  <2>7. ProcessesTypeOK'
    BY <1>4, <2>3, <2>6 DEF Drain, ProcessesTypeOK, OrNobody
  <2> QED  BY <2>1, <2>2, <2>3, <2>4, <2>7
<1>5. CASE CloseStage(w)
  <2>1. ViewsTypeOK'
    BY <1>5, ViewsSteps DEF CloseStage, ByWorker
  <2>2. FilesTypeOK'
    BY <1>5 DEF CloseStage, FilesTypeOK
  <2>3. CallTypeOK' /\ process' = process
    BY <1>5 DEF CloseStage, ByWorker, CallTypeOK
  <2>4. HistoryTypeOK'
    BY <1>5 DEF CloseStage, HistoryTypeOK, history
  <2>5. \E pc \in Pc : Go(w, pc)
    BY <1>5 DEF CloseStage, Pc, Stage, Rest
  <2>6. workers' \in [Workers -> Process]
    BY <2>5, ProcessStep
  <2>7. ProcessesTypeOK'
    BY <1>5, <2>3, <2>6 DEF CloseStage, ProcessesTypeOK, OrNobody
  <2> QED  BY <2>1, <2>2, <2>3, <2>4, <2>7
<1>6. CASE ReportFailure(w)
  <2>1. ViewsTypeOK'
    <3> DEFINE es == <<[kind |-> "failed"]>>
    <3>1. es \in Seq(Event)
      BY DEF Event
    <3>2. Emit(es)
      BY <1>6 DEF ReportFailure
    <3> HIDE DEF es
    <3> QED  BY <3>1, <3>2, ViewsSteps
  <2>2. FilesTypeOK'
    BY <1>6 DEF ReportFailure, FilesTypeOK, files
  <2>3. CallTypeOK' /\ process' = process
    BY <1>6 DEF ReportFailure, ByWorker, CallTypeOK
  <2>4. HistoryTypeOK'
    BY <1>6 DEF ReportFailure, HistoryTypeOK, history
  <2>5. \E pc \in Pc : Go(w, pc)
    BY <1>6 DEF ReportFailure, Pc, Stage, Rest
  <2>6. workers' \in [Workers -> Process]
    BY <2>5, ProcessStep
  <2>7. ProcessesTypeOK'
    BY <1>6, <2>3, <2>6 DEF ReportFailure, ProcessesTypeOK, OrNobody, files
  <2> QED  BY <2>1, <2>2, <2>3, <2>4, <2>7
<1>7. CASE ReportEnd(w)
  <2>1. ViewsTypeOK'
    <3> DEFINE es == <<[kind |-> "ended", cancelled |-> stop]>>
    <3>1. es \in Seq(Event)
      BY DEF Event, FilesTypeOK
    <3>2. Emit(es)
      BY <1>7 DEF ReportEnd
    <3> HIDE DEF es
    <3> QED  BY <3>1, <3>2, ViewsSteps
  <2>2. FilesTypeOK'
    BY <1>7 DEF ReportEnd, FilesTypeOK, files
  <2>3. CallTypeOK' /\ process' = process
    BY <1>7 DEF ReportEnd, ByWorker, CallTypeOK
  <2>4. HistoryTypeOK'
    BY <1>7 DEF ReportEnd, HistoryTypeOK, history
  <2> DEFINE p == [workers[w] EXCEPT !.pc = "deactivating",
           !.ok = ~stop /\ \/ workers[w].op = "batch"
                           \/ \E a \in Agents : workers[w].tasks[a] = "success"]
  <2>5. p \in Process
    <3>1. workers[w] \in Process
      BY ProcessStep
    <3>2. (~stop /\ \/ workers[w].op = "batch"
                    \/ \E a \in Agents : workers[w].tasks[a] = "success") \in BOOLEAN
      BY DEF FilesTypeOK
    <3> QED  BY <3>1, <3>2 DEF Process, Pc, Stage
  <2>6. workers' \in [Workers -> Process]
    <3>1. workers' = [workers EXCEPT ![w] = p]
      BY <1>7 DEF ReportEnd, ProcessesTypeOK
    <3> HIDE DEF p
    <3> QED  BY <2>5, <3>1, ProcessStep DEF Moved
  <2>7. ProcessesTypeOK'
    BY <1>7, <2>3, <2>6 DEF ReportEnd, ProcessesTypeOK, OrNobody, files
  <2> QED  BY <2>1, <2>2, <2>3, <2>4, <2>7
<1>8. CASE Deactivate(w)
  <2>1. ViewsTypeOK'
    BY <1>8, ViewsSteps DEF Deactivate, ByWorker
  <2>2. FilesTypeOK'
    BY <1>8 DEF Deactivate, FilesTypeOK, Deactivated
  <2>3. CallTypeOK' /\ process' = process
    BY <1>8 DEF Deactivate, ByWorker, CallTypeOK
  <2>4. HistoryTypeOK'
    BY <1>8 DEF Deactivate, HistoryTypeOK, Thrown, FilesTypeOK
  <2>5. \E pc \in Pc : Go(w, pc)
    BY <1>8 DEF Deactivate, Pc, Stage, Rest
  <2>6. workers' \in [Workers -> Process]
    BY <2>5, ProcessStep
  <2>7. ProcessesTypeOK'
    BY <1>8, <2>3, <2>6 DEF Deactivate, ProcessesTypeOK, OrNobody
  <2> QED  BY <2>1, <2>2, <2>3, <2>4, <2>7
<1>9. CASE Finish(w)
  <2>1. ViewsTypeOK'
    <3> DEFINE es == <<[kind |-> "operation_finished"]>>
    <3>1. es \in Seq(Event)
      BY DEF Event
    <3>2. Emit(es)
      BY <1>9 DEF Finish
    <3> HIDE DEF es
    <3> QED  BY <3>1, <3>2, ViewsSteps
  <2>2. FilesTypeOK'
    BY <1>9 DEF Finish, FilesTypeOK, files
  <2>3. CallTypeOK' /\ process' = process
    BY <1>9 DEF Finish, ByWorker, CallTypeOK
  <2>4. HistoryTypeOK'
    BY <1>9 DEF Finish, HistoryTypeOK, history
  <2>5. \E pc \in Pc : Go(w, pc)
    BY <1>9 DEF Finish, Pc, Stage, Rest
  <2>6. workers' \in [Workers -> Process]
    BY <2>5, ProcessStep
  <2>7. ProcessesTypeOK'
    BY <1>9, <2>3, <2>6 DEF Finish, ProcessesTypeOK, OrNobody, files
  <2> QED  BY <2>1, <2>2, <2>3, <2>4, <2>7
<1>10. CASE WriteCheckpoint(w)
  <2>1. ViewsTypeOK'
    BY <1>10, ViewsSteps DEF WriteCheckpoint, ByWorker
  <2>2. FilesTypeOK'
    BY <1>10 DEF WriteCheckpoint, FilesTypeOK
  <2>3. CallTypeOK' /\ process' = process
    BY <1>10 DEF WriteCheckpoint, ByWorker, CallTypeOK
  <2>4. HistoryTypeOK'
    BY <1>10 DEF WriteCheckpoint, HistoryTypeOK, history
  <2>5. \E pc \in Pc : Go(w, pc)
    BY <1>10 DEF WriteCheckpoint, Pc, Stage, Rest
  <2>6. workers' \in [Workers -> Process]
    BY <2>5, ProcessStep
  <2>7. ProcessesTypeOK'
    BY <1>10, <2>3, <2>6, ProcessStep DEF WriteCheckpoint, ProcessesTypeOK, OrNobody, Process
  <2> QED  BY <2>1, <2>2, <2>3, <2>4, <2>7
<1>11. CASE Unlink(w)
  <2>1. ViewsTypeOK'
    BY <1>11, ViewsSteps DEF Unlink, ByWorker
  <2>2. FilesTypeOK'
    BY <1>11 DEF Unlink, FilesTypeOK, Others
  <2>3. CallTypeOK' /\ process' = process
    BY <1>11 DEF Unlink, ByWorker, CallTypeOK
  <2>4. HistoryTypeOK'
    <3>1. \A r \in requests : r.agents \subseteq Agents
      BY DEF FilesTypeOK, AnyRequest
    <3> QED  BY <1>11, <3>1 DEF Unlink, HistoryTypeOK
  <2> DEFINE p == [Asleep EXCEPT !.pc = "idle"]
  <2>5. p \in Process
    BY DEF Process, Pc, Rest, Asleep, AgentStatus
  <2>6. workers' \in [Workers -> Process]
    <3>1. workers' = [workers EXCEPT ![w] = p]
      BY <1>11 DEF Unlink, ProcessesTypeOK
    <3> HIDE DEF p
    <3> QED  BY <2>5, <3>1, ProcessStep DEF Moved
  <2>7. ProcessesTypeOK'
    BY <1>11, <2>3, <2>6 DEF Unlink, ProcessesTypeOK, OrNobody
  <2> QED  BY <2>1, <2>2, <2>3, <2>4, <2>7
<1>12. CASE Leave(w)
  <2>1. ViewsTypeOK'
    <3> DEFINE es == <<[kind |-> "worker_stopped"]>>
    <3>1. es \in Seq(Event)
      BY DEF Event
    <3>2. Emit(es)
      BY <1>12 DEF Leave
    <3> HIDE DEF es
    <3> QED  BY <3>1, <3>2, ViewsSteps
  <2>2. FilesTypeOK'
    BY <1>12 DEF Leave, FilesTypeOK, files
  <2>3. CallTypeOK' /\ process' = process
    BY <1>12 DEF Leave, ByWorker, CallTypeOK
  <2>4. HistoryTypeOK'
    BY <1>12 DEF Leave, HistoryTypeOK, history
  <2>5. \E pc \in Pc : Go(w, pc)
    BY <1>12 DEF Leave, Pc, Stage, Rest
  <2>6. workers' \in [Workers -> Process]
    BY <2>5, ProcessStep
  <2>7. ProcessesTypeOK'
    BY <1>12, <2>3, <2>6 DEF Leave, ProcessesTypeOK, OrNobody, files
  <2> QED  BY <2>1, <2>2, <2>3, <2>4, <2>7
<1>13. CASE Left(w)
  <2>1. ViewsTypeOK'
    BY <1>13, ViewsSteps DEF Left, ByWorker
  <2>2. FilesTypeOK'
    BY <1>13 DEF Left, FilesTypeOK
  <2>3. CallTypeOK' /\ process' = process
    BY <1>13 DEF Left, ByWorker, CallTypeOK
  <2>4. HistoryTypeOK'
    BY <1>13 DEF Left, HistoryTypeOK, Slip
  <2>5. \E pc \in Pc : Go(w, pc)
    BY <1>13 DEF Left, Pc, Stage, Rest
  <2>6. workers' \in [Workers -> Process]
    BY <2>5, ProcessStep
  <2>7. ProcessesTypeOK'
    BY <1>13, <2>3, <2>6 DEF Left, ProcessesTypeOK, OrNobody
  <2> QED  BY <2>1, <2>2, <2>3, <2>4, <2>7
<1>14. CASE Take(w)
  <2> DEFINE Begins(r) == [pc |-> "preparing", id |-> r.id, op |-> r.op, ok |-> FALSE,
                           tasks |-> [a \in Agents |-> IF a \in r.agents THEN "queued" ELSE "none"]]
  <2>1. PICK r \in requests :
          /\ workers' = [workers EXCEPT ![w] = Begins(r)]
          /\ checkpoint' = [checkpoint EXCEPT !.pid = w, !.alive = TRUE, !.active = TRUE, !.id = r.id]
          /\ Emit(<<[kind |-> "operation_started", pid |-> w, op |-> r.op, id |-> r.id]>>)
          /\ executed' = Append(executed, r)
    BY <1>14 DEF Take
  <2>2. r \in AnyRequest /\ r.id \in Nat /\ r.op \in Op
    BY DEF FilesTypeOK, AnyRequest
  <2>3. ViewsTypeOK'
    <3> DEFINE es == <<[kind |-> "operation_started", pid |-> w, op |-> r.op, id |-> r.id]>>
    <3>1. es \in Seq(Event)
      BY <2>2 DEF Event
    <3>2. Emit(es)
      BY <2>1
    <3> HIDE DEF es
    <3> QED  BY <3>1, <3>2, ViewsSteps
  <2>4. Begins(r) \in Process
    BY <2>2 DEF Process, Pc, Stage, AgentStatus, Pending
  <2>5. workers' \in [Workers -> Process]
    <3> HIDE DEF Begins
    <3> QED  BY <2>1, <2>4, ProcessStep DEF Moved
  <2>6. CallTypeOK' /\ process' = process
    BY <1>14 DEF Take, ByWorker, CallTypeOK
  <2>7. ProcessesTypeOK'
    BY <2>1, <2>2, <2>5, <2>6 DEF ProcessesTypeOK, OrNobody
  <2>8. FilesTypeOK'
    BY <1>14 DEF Take, FilesTypeOK
  <2>9. HistoryTypeOK'
    BY <1>14, <2>1, <2>2 DEF Take, HistoryTypeOK
  <2> QED  BY <2>3, <2>6, <2>7, <2>8, <2>9
<1>15. ASSUME NEW a \in Agents, StartAgent(w, a) \/ FinishAgent(w, a) \/ HaltAgent(w, a)
       PROVE  OwnershipTypeOK'
  <2>1. PICK s \in AgentStatus : /\ Emit(<<Agent(a, s)>>)
                                 /\ workers' = [workers EXCEPT ![w].tasks[a] = s]
    BY <1>15 DEF StartAgent, FinishAgent, HaltAgent, AgentEnds, AgentStatus, Pending, Terminal
  <2>2. ViewsTypeOK'
    <3> DEFINE es == <<Agent(a, s)>>
    <3>1. es \in Seq(Event)
      BY DEF Event, Agent
    <3>2. Emit(es)
      BY <2>1
    <3> HIDE DEF es
    <3> QED  BY <3>1, <3>2, ViewsSteps
  <2>3. workers' \in [Workers -> Process]
    BY <2>1, ProcessStep
  <2>4. /\ UNCHANGED <<requests, window, stop, shutdown, checkpoint, process, call, waiting, lastId, left>>
        /\ UNCHANGED <<executed, dropped, slips>> /\ kills' \subseteq kills
    BY <1>15 DEF StartAgent, FinishAgent, HaltAgent, AgentEnds, ByWorker, files, history
  <2>5. FilesTypeOK' /\ ProcessesTypeOK' /\ CallTypeOK' /\ HistoryTypeOK'
    BY <2>3, <2>4 DEF FilesTypeOK, ProcessesTypeOK, CallTypeOK, HistoryTypeOK
  <2> QED  BY <2>2, <2>5
<1> QED  BY Worker(w), <1>1, <1>2, <1>3, <1>4, <1>5, <1>6, <1>7, <1>8, <1>9, <1>10, <1>11, <1>12, <1>13, <1>14, <1>15 DEF Worker

LeftTypeOK == left \in [calls : Nat, stops : Nat, incidents : Nat, endless : SUBSET Agents]

\* What is spent of the scenario was there.
LEMMA SpendType ==
  ASSUME OwnershipTypeOK, NEW what \in {"calls", "stops", "incidents"}, Spend(what)
  PROVE  LeftTypeOK'
<1>1. left \in [calls : Nat, stops : Nat, incidents : Nat, endless : SUBSET Agents]
  BY DEF OwnershipTypeOK, CallTypeOK
<1>2. left[what] > 0 /\ left' = [left EXCEPT ![what] = @ - 1]
  BY DEF Spend
<1>3. CASE what = "calls"
  BY <1>1, <1>2, <1>3 DEF LeftTypeOK
<1>4. CASE what = "stops"
  BY <1>1, <1>2, <1>4 DEF LeftTypeOK
<1>5. CASE what = "incidents"
  BY <1>1, <1>2, <1>5 DEF LeftTypeOK
<1> QED  BY <1>3, <1>4, <1>5

\* What a call that is under way carries.
LEMMA CallFields ==
  ASSUME OwnershipTypeOK
  PROVE  /\ call.pc \in {"begun", "retiring"} =>
              /\ call \in [pc : {"begun", "retiring"}, kind : {"add", "retry", "retained", "resume", "rescue"},
                           agents : SUBSET Agents, prev : Record, heard : BOOLEAN]
         /\ call.pc \in {"marked", "announced", "spawned"} =>
              /\ call \in [pc : {"marked", "announced", "spawned"}, mode : {"live", "queued", "fresh"},
                           agents : SUBSET Agents, prev : Record, heard : BOOLEAN]
         /\ call.pc \in {"none", "loading", "noting", "begun", "retiring", "marked", "announced", "spawned"}
  BY DEF OwnershipTypeOK, CallTypeOK, Call

\* The records that a batch makes and that its refusal would go back to.
LEMMA BatchRecords ==
  ASSUME OwnershipTypeOK
  PROVE  /\ call.pc \in {"begun", "marked", "announced"} => Marked(record) \in Record
         /\ call.pc \in {"marked", "announced"} => Back \in Record
         /\ RequestId \in Nat /\ NewestId \in Nat /\ NewestId >= lastId
         /\ call.pc = "announced" => Request \in AnyRequest
<1>1. record \in Record /\ lastId \in Nat
  BY DEF OwnershipTypeOK, ViewsTypeOK, CallTypeOK
<1>2. ASSUME call.pc \in {"begun", "marked", "announced"} PROVE Marked(record) \in Record
  <2>1. [a \in Agents |-> IF a \in call.agents THEN "queued" ELSE record.agents[a]]
          \in [Agents -> AgentStatus]
    BY <1>1 DEF Record, AgentStatus, Pending
  <2> QED  BY <1>1, <2>1 DEF Marked, Record, RunStatus, ActiveStatus
<1>3. ASSUME call.pc \in {"marked", "announced"} PROVE Back \in Record
  <2>1. call.prev \in Record
    BY <1>3, CallFields
  <2>2. [a \in Agents |-> IF a \in call.agents THEN call.prev.agents[a] ELSE record.agents[a]]
          \in [Agents -> AgentStatus]
    BY <1>1, <2>1 DEF Record
  <2> QED  BY <1>1, <2>1, <2>2 DEF Back, Record
<1>4. RequestId \in Nat /\ NewestId \in Nat /\ NewestId >= lastId
  <2>1. record.id \in Nat
    BY <1>1 DEF Record
  <2>2. NewestId \in Nat /\ NewestId >= lastId
    BY <1>1 DEF NewestId
  <2> QED  BY <2>1, <2>2 DEF RequestId
<1>5. ASSUME call.pc = "announced" PROVE Request \in AnyRequest
  <2>1. call.agents \subseteq Agents
    BY <1>5, CallFields
  <2> QED  BY <1>4, <2>1 DEF Request, AnyRequest, Op
<1> QED  BY <1>2, <1>3, <1>4, <1>5

(* A batch is marked in one of three ways, or refused.                         *)
MarkedAs(mode) ==
    /\ call' = [pc |-> "marked", mode |-> mode, agents |-> call.agents, prev |-> record, heard |-> FALSE]
    /\ IF mode = "live" THEN record' = Marked(record) /\ lastId' = lastId
       ELSE /\ record' = [Marked(record) EXCEPT !.state = "busy", !.op = "batch", !.id = lastId + 1]
            /\ lastId' = lastId + 1

\* Those are all the outcomes.
LEMMA MarkCases ==
  ASSUME OwnershipTypeOK, Mark
  PROVE  /\ call.pc = "begun" /\ call.kind \in {"add", "retry", "retained"}
         /\ UNCHANGED <<disk, tail, seen, requests, window, shutdown, waiting, left, dropped, slips>>
         /\ ByManager /\ kills' \subseteq kills /\ stop' \in {stop, FALSE}
         /\ Mode \in {"refused", "live", "queued", "fresh"}
         /\ Mode = "refused" => call' = Idle /\ UNCHANGED <<record, lastId>>
         /\ Mode # "refused" => MarkedAs(Mode)
<1>1. Mode \in {"refused", "live", "queued", "fresh"}
  BY DEF Mode
<1>2. CASE Mode = "refused"
  BY <1>2 DEF Mark
<1>3. CASE Mode = "live"
  BY <1>3 DEF Mark, MarkedAs
<1>4. CASE Mode = "queued"
  BY <1>4 DEF Mark, MarkedAs
<1>5. CASE Mode = "fresh"
  BY <1>5 DEF Mark, MarkedAs
<1> QED  BY <1>1, <1>2, <1>3, <1>4, <1>5

\* The calls of the manager keep the types.
LEMMA ManagerType ==
  ASSUME OwnershipTypeOK, Look \/ Stop \/ Waited \/ Begin \/ Operation \/ \E a \in Agents : Kill(a)
  PROVE  OwnershipTypeOK'
<1> DEFINE read == Refresh(record)
<1>0. read \in Record /\ Detect(read) \in Record /\ Maintained(Detect(read)) \in Record
  BY ReadType
<1>r. Required \in Record /\ Required = Detect(read)
  BY <1>0 DEF Required
<1> HIDE DEF read
<1>1. CASE Look
  <2>1. ViewsTypeOK'
    <3>1. Maintained(Detect(read)) \in Record /\ SaveAnd(Maintained(Detect(read)), Maintained(Detect(read)))
      BY <1>1, <1>0, <1>r DEF Look, SaveAll, read
    <3> QED  BY <3>1, ViewsSteps
  <2>2. FilesTypeOK'
    BY <1>1 DEF Look, files, OwnershipTypeOK, FilesTypeOK
  <2>3. ProcessesTypeOK'
    BY <1>1 DEF Look, files, OwnershipTypeOK, ProcessesTypeOK, OrNobody
  <2>4. CallTypeOK'
    BY <1>1 DEF Look, OwnershipTypeOK, CallTypeOK, Call, Idle
  <2>5. HistoryTypeOK'
    BY <1>1 DEF Look, ByManager, Parted, history, Accepted, Slip, OwnershipTypeOK, HistoryTypeOK
  <2> QED  BY <2>1, <2>2, <2>3, <2>4, <2>5 DEF OwnershipTypeOK
<1>2. CASE Load
  <2>1. ViewsTypeOK'
    <3>1. Maintained(Detect(read)) \in Record /\ SaveAnd(Maintained(Detect(read)), Maintained(Detect(read)))
      BY <1>2, <1>0, <1>r DEF Load, SaveAll, read
    <3> QED  BY <3>1, ViewsSteps
  <2>2. FilesTypeOK'
    BY <1>2 DEF Load, OnlyFiles, OwnershipTypeOK, FilesTypeOK
  <2>3. ProcessesTypeOK'
    BY <1>2 DEF Load, ByManager, OwnershipTypeOK, ProcessesTypeOK, OrNobody
  <2>4. CallTypeOK'
    BY <1>2 DEF Load, OwnershipTypeOK, CallTypeOK, Call, Idle
  <2>5. HistoryTypeOK'
    BY <1>2 DEF Load, ByManager, Parted, history, Accepted, Slip, OwnershipTypeOK, HistoryTypeOK
  <2> QED  BY <2>1, <2>2, <2>3, <2>4, <2>5 DEF OwnershipTypeOK
<1>3. CASE Stop
  <2>1. ViewsTypeOK'
    <3> DEFINE kept == [Required EXCEPT !.status = "stopping"]
    <3>1. kept \in Record
      BY <1>r DEF Record, RunStatus, ActiveStatus
    <3>2. SaveAnd(Required, kept)
      BY <1>3 DEF Stop
    <3> HIDE DEF kept
    <3> QED  BY <1>r, <3>1, <3>2, ViewsSteps
  <2>2. FilesTypeOK'
    BY <1>3 DEF Stop, OwnershipTypeOK, FilesTypeOK
  <2>3. ProcessesTypeOK'
    BY <1>3 DEF Stop, ByManager, OwnershipTypeOK, ProcessesTypeOK, OrNobody
  <2>4. CallTypeOK'
    BY <1>3, SpendType DEF Stop, OwnershipTypeOK, CallTypeOK, Call, Idle, LeftTypeOK
  <2>5. HistoryTypeOK'
    BY <1>3 DEF Stop, ByManager, Parted, history, Accepted, Slip, OwnershipTypeOK, HistoryTypeOK
  <2> QED  BY <2>1, <2>2, <2>3, <2>4, <2>5 DEF OwnershipTypeOK
<1>4. CASE Waited
  <2>1. ViewsTypeOK'
    <3> DEFINE kept == IF Active(Required) THEN [Required EXCEPT !.status = "stopping"] ELSE Required
    <3>1. kept \in Record
      BY <1>r DEF Record, RunStatus, ActiveStatus
    <3>2. SaveAnd(Required, kept)
      BY <1>4 DEF Waited
    <3> HIDE DEF kept
    <3> QED  BY <1>r, <3>1, <3>2, ViewsSteps
  <2>2. FilesTypeOK'
    BY <1>4 DEF Waited, OnlyFiles, OwnershipTypeOK, FilesTypeOK
  <2>3. ProcessesTypeOK'
    BY <1>4 DEF Waited, ByManager, OwnershipTypeOK, ProcessesTypeOK, OrNobody
  <2>4. CallTypeOK'
    BY <1>4 DEF Waited, OwnershipTypeOK, CallTypeOK, Call, Idle
  <2>5. HistoryTypeOK'
    BY <1>4 DEF Waited, ByManager, Parted, history, Accepted, Slip, OwnershipTypeOK, HistoryTypeOK
  <2> QED  BY <2>1, <2>2, <2>3, <2>4, <2>5 DEF OwnershipTypeOK
<1>5. CASE Note
  <2>1. ViewsTypeOK'
    <3>1. read \in Record /\ SaveAnd(read, read)
      BY <1>5, <1>0, <1>r DEF Note, SaveAll, read
    <3> QED  BY <3>1, ViewsSteps
  <2>2. FilesTypeOK'
    BY <1>5 DEF Note, OnlyFiles, OwnershipTypeOK, FilesTypeOK
  <2>3. ProcessesTypeOK'
    BY <1>5 DEF Note, ByManager, OwnershipTypeOK, ProcessesTypeOK, OrNobody
  <2>4. CallTypeOK'
    BY <1>5 DEF Note, OwnershipTypeOK, CallTypeOK, Call, Idle
  <2>5. HistoryTypeOK'
    BY <1>5 DEF Note, ByManager, Parted, history, Accepted, Slip, OwnershipTypeOK, HistoryTypeOK
  <2> QED  BY <2>1, <2>2, <2>3, <2>4, <2>5 DEF OwnershipTypeOK
<1>6. CASE Begin
  <2>1. ViewsTypeOK'
    <3>1. Required \in Record /\ SaveAnd(Required, Required)
      BY <1>6, <1>0, <1>r DEF Begin, SaveAll, read
    <3> QED  BY <3>1, ViewsSteps
  <2>2. FilesTypeOK'
    BY <1>6 DEF Begin, OnlyFiles, OwnershipTypeOK, FilesTypeOK
  <2>3. ProcessesTypeOK'
    BY <1>6 DEF Begin, ByManager, OwnershipTypeOK, ProcessesTypeOK, OrNobody
  <2>4. CallTypeOK'
    <3>1. PICK as \in SUBSET Agents, kind \in {"add", "retry", "retained", "resume", "rescue"} :
            call' = [pc |-> "begun", kind |-> kind, agents |-> as, prev |-> Required, heard |-> FALSE]
      BY <1>6 DEF Begin
    <3>2. call' \in Call
      BY <3>1, <1>r DEF Call
    <3> QED  BY <1>6, <3>2, SpendType DEF Begin, LeftTypeOK, OwnershipTypeOK, CallTypeOK
  <2>5. HistoryTypeOK'
    BY <1>6 DEF Begin, ByManager, Parted, history, Accepted, Slip, OwnershipTypeOK, HistoryTypeOK
  <2> QED  BY <2>1, <2>2, <2>3, <2>4, <2>5 DEF OwnershipTypeOK
<1>7. CASE Retire
  <2>1. ViewsTypeOK'
    BY <1>7, ViewsSteps DEF Retire
  <2>2. FilesTypeOK'
    BY <1>7 DEF Retire, OwnershipTypeOK, FilesTypeOK
  <2>3. ProcessesTypeOK'
    BY <1>7 DEF Retire, ByManager, OwnershipTypeOK, ProcessesTypeOK, OrNobody
  <2>4. CallTypeOK'
    BY <1>7, CallFields DEF Retire, OwnershipTypeOK, CallTypeOK, Call, Idle
  <2>5. HistoryTypeOK'
    BY <1>7 DEF Retire, ByManager, Parted, history, Accepted, Slip, OwnershipTypeOK, HistoryTypeOK
  <2> QED  BY <2>1, <2>2, <2>3, <2>4, <2>5 DEF OwnershipTypeOK
<1>8. CASE Retired
  <2>1. ViewsTypeOK'
    <3> DEFINE kept == [read EXCEPT !.pid = 0, !.state = "stopped"]
    <3>1. kept \in Record
      BY <1>0 DEF Record, OrNobody
    <3>2. SaveAnd(kept, kept)
      BY <1>8 DEF Retired, SaveAll, read
    <3> HIDE DEF kept
    <3> QED  BY <3>1, <3>2, ViewsSteps
  <2>2. FilesTypeOK'
    BY <1>8 DEF Retired, OnlyFiles, OwnershipTypeOK, FilesTypeOK
  <2>3. ProcessesTypeOK'
    BY <1>8 DEF Retired, Parted, OwnershipTypeOK, ProcessesTypeOK, OrNobody
  <2>4. CallTypeOK'
    BY <1>8, CallFields DEF Retired, OwnershipTypeOK, CallTypeOK, Call, Idle
  <2>5. HistoryTypeOK'
    BY <1>8 DEF Retired, ByManager, Parted, history, Accepted, Slip, OwnershipTypeOK, HistoryTypeOK
  <2> QED  BY <2>1, <2>2, <2>3, <2>4, <2>5 DEF OwnershipTypeOK
<1>9. CASE NotRetired
  <2>1. ViewsTypeOK'
    BY <1>9, ViewsSteps DEF NotRetired
  <2>2. FilesTypeOK'
    BY <1>9 DEF NotRetired, OwnershipTypeOK, FilesTypeOK
  <2>3. ProcessesTypeOK'
    BY <1>9 DEF NotRetired, ByManager, OwnershipTypeOK, ProcessesTypeOK, OrNobody
  <2>4. CallTypeOK'
    BY <1>9 DEF NotRetired, OwnershipTypeOK, CallTypeOK, Call, Idle
  <2>5. HistoryTypeOK'
    BY <1>9 DEF NotRetired, ByManager, Parted, history, Accepted, Slip, OwnershipTypeOK, HistoryTypeOK
  <2> QED  BY <2>1, <2>2, <2>3, <2>4, <2>5 DEF OwnershipTypeOK
<1>10. CASE Archive
  <2>1. ViewsTypeOK'
    <3>1. [read EXCEPT !.state = "stopped"] \in Record
      BY <1>0 DEF Record
    <3> QED  BY <1>10, <3>1 DEF Archive, read, OwnershipTypeOK, ViewsTypeOK
  <2>2. FilesTypeOK'
    BY <1>10 DEF Archive, OwnershipTypeOK, FilesTypeOK
  <2>3. ProcessesTypeOK'
    BY <1>10 DEF Archive, Parted, OwnershipTypeOK, ProcessesTypeOK, OrNobody
  <2>4. CallTypeOK'
    BY <1>10, CallFields DEF Archive, OwnershipTypeOK, CallTypeOK, Call, Idle
  <2>5. HistoryTypeOK'
    BY <1>10 DEF Archive, ByManager, Parted, history, Accepted, Slip, OwnershipTypeOK, HistoryTypeOK
  <2> QED  BY <2>1, <2>2, <2>3, <2>4, <2>5 DEF OwnershipTypeOK
<1>11. CASE Announce
  <2>1. ViewsTypeOK'
    <3>1. record' = read /\ read \in Record
      BY <1>11, <1>0 DEF Announce, SaveAll, SaveAnd, read
    <3>2. \/ UNCHANGED <<disk, tail>> /\ seen' = Len(tail)
          \/ SaveAnd(read, read)
      BY <1>11 DEF Announce, SaveAll, read
    <3>3. Len(tail) \in 0..Len(tail) /\ tail \in Seq(Event) /\ disk \in Record
      BY DEF OwnershipTypeOK, ViewsTypeOK
    <3>4. CASE UNCHANGED <<disk, tail>> /\ seen' = Len(tail)
      BY <3>1, <3>3, <3>4 DEF ViewsTypeOK
    <3>5. CASE SaveAnd(read, read)
      BY <3>1, <3>5, ViewsSteps
    <3> QED  BY <3>2, <3>4, <3>5
  <2>2. FilesTypeOK'
    BY <1>11 DEF Announce, OnlyFiles, OwnershipTypeOK, FilesTypeOK
  <2>3. ProcessesTypeOK'
    BY <1>11 DEF Announce, ByManager, OwnershipTypeOK, ProcessesTypeOK, OrNobody
  <2>4. CallTypeOK'
    <3>1. call' = [call EXCEPT !.pc = "announced", !.heard = Unread # <<>>] /\ call.pc = "marked"
      BY <1>11 DEF Announce
    <3>2. call' \in Call
      BY <3>1, CallFields DEF Call
    <3> QED  BY <1>11, <3>2 DEF Announce, OwnershipTypeOK, CallTypeOK
  <2>5. HistoryTypeOK'
    BY <1>11 DEF Announce, ByManager, Parted, history, Accepted, Slip, OwnershipTypeOK, HistoryTypeOK
  <2> QED  BY <2>1, <2>2, <2>3, <2>4, <2>5 DEF OwnershipTypeOK
<1>12. CASE SubmitLive
  <2>1. ViewsTypeOK'
    BY <1>12, ViewsSteps DEF SubmitLive
  <2>2. FilesTypeOK'
    BY <1>12, CallFields DEF SubmitLive, OwnershipTypeOK, FilesTypeOK
  <2>3. ProcessesTypeOK'
    BY <1>12 DEF SubmitLive, OwnershipTypeOK, ProcessesTypeOK, OrNobody
  <2>4. CallTypeOK'
    BY <1>12 DEF SubmitLive, OwnershipTypeOK, CallTypeOK, Call, Idle
  <2>5. HistoryTypeOK'
    BY <1>12 DEF SubmitLive, ByManager, Parted, history, Accepted, Slip, OwnershipTypeOK, HistoryTypeOK
  <2> QED  BY <2>1, <2>2, <2>3, <2>4, <2>5 DEF OwnershipTypeOK
<1>13. CASE SubmitRequest
  <2>1. ViewsTypeOK'
    BY <1>13, ViewsSteps DEF SubmitRequest
  <2>2. FilesTypeOK'
    BY <1>13, BatchRecords DEF SubmitRequest, Written, Others, OwnershipTypeOK, FilesTypeOK
  <2>3. ProcessesTypeOK'
    BY <1>13 DEF SubmitRequest, OwnershipTypeOK, ProcessesTypeOK, OrNobody
  <2>4. CallTypeOK'
    BY <1>13, BatchRecords DEF SubmitRequest, OwnershipTypeOK, CallTypeOK, Call, Idle
  <2>5. HistoryTypeOK'
    BY <1>13 DEF SubmitRequest, ByManager, Parted, history, Accepted, Slip, OwnershipTypeOK, HistoryTypeOK
  <2> QED  BY <2>1, <2>2, <2>3, <2>4, <2>5 DEF OwnershipTypeOK
<1>14. CASE RollBack
  <2>1. ViewsTypeOK'
    <3>1. /\ call.pc = "announced" /\ SaveAnd(Refresh(Back), Refresh(Back))
      BY <1>14 DEF RollBack, SaveAll, Back
    <3>2. Refresh(Back) \in Record
      BY <3>1, BatchRecords, ReadType, AppliedType DEF Refresh
    <3> QED  BY <3>1, <3>2, ViewsSteps
  <2>2. FilesTypeOK'
    BY <1>14 DEF RollBack, OnlyFiles, OwnershipTypeOK, FilesTypeOK
  <2>3. ProcessesTypeOK'
    BY <1>14 DEF RollBack, ByManager, OwnershipTypeOK, ProcessesTypeOK, OrNobody
  <2>4. CallTypeOK'
    <3>1. UNCHANGED left \/ Spend("incidents")
      BY <1>14 DEF RollBack
    <3> QED  BY <1>14, <3>1, SpendType DEF RollBack, OwnershipTypeOK, CallTypeOK, LeftTypeOK, Call, Idle
  <2>5. HistoryTypeOK'
    BY <1>14 DEF RollBack, ByManager, Parted, history, Accepted, Slip, OwnershipTypeOK, HistoryTypeOK
  <2> QED  BY <2>1, <2>2, <2>3, <2>4, <2>5 DEF OwnershipTypeOK
<1>15. CASE Publish
  <2>1. ViewsTypeOK'
    <3>1. tail' \in Seq(Event)
      BY <1>15, ReadType DEF Publish
    <3> QED  BY <1>15, <3>1 DEF Publish, OwnershipTypeOK, ViewsTypeOK
  <2>2. FilesTypeOK'
    BY <1>15 DEF Publish, OnlyFiles, OwnershipTypeOK, FilesTypeOK
  <2>3. ProcessesTypeOK'
    BY <1>15 DEF Publish, ByManager, OwnershipTypeOK, ProcessesTypeOK, OrNobody
  <2>4. CallTypeOK'
    BY <1>15 DEF Publish, OwnershipTypeOK, CallTypeOK, Call, Idle
  <2>5. HistoryTypeOK'
    BY <1>15 DEF Publish, ByManager, Parted, history, Accepted, Slip, OwnershipTypeOK, HistoryTypeOK
  <2> QED  BY <2>1, <2>2, <2>3, <2>4, <2>5 DEF OwnershipTypeOK
<1>16. CASE Mark
  <2>0. call.pc = "begun" /\ ((call' = Idle /\ UNCHANGED <<record, lastId>>) \/ \E m \in {"live", "queued", "fresh"} : MarkedAs(m))
    BY <1>16, MarkCases
  <2>1. /\ UNCHANGED <<disk, tail, seen, requests, window, shutdown, waiting, left, dropped, slips>>
        /\ ByManager /\ kills' \subseteq kills /\ stop' \in {stop, FALSE}
    BY <1>16, MarkCases
  <2>2. record \in Record /\ Marked(record) \in Record /\ lastId \in Nat
    BY <2>0, BatchRecords DEF OwnershipTypeOK, ViewsTypeOK, CallTypeOK
  <2>8. [Marked(record) EXCEPT !.state = "busy", !.op = "batch", !.id = lastId + 1] \in Record
    <3>1. lastId + 1 \in Nat
      BY <2>2
    <3>2. \A rec \in Record, n \in Nat : [rec EXCEPT !.state = "busy", !.op = "batch", !.id = n] \in Record
      BY DEF Record, Op
    <3> QED  BY <2>2, <3>1, <3>2
  <2>3. record' \in Record /\ lastId' \in Nat
    BY <2>0, <2>2, <2>8 DEF MarkedAs
  <2>4. call' \in Call
    <3>1. Idle \in Call
      BY DEF Idle, Call
    <3>2. ASSUME NEW m \in {"live", "queued", "fresh"}
          PROVE  [pc |-> "marked", mode |-> m, agents |-> call.agents, prev |-> record, heard |-> FALSE] \in Call
      BY <2>0, <2>2, CallFields DEF Call
    <3> QED  BY <2>0, <3>1, <3>2 DEF MarkedAs
  <2>5. ViewsTypeOK' /\ FilesTypeOK'
    BY <2>1, <2>3 DEF OwnershipTypeOK, ViewsTypeOK, FilesTypeOK
  <2>6. ProcessesTypeOK' /\ HistoryTypeOK'
    BY <2>1 DEF OwnershipTypeOK, ProcessesTypeOK, HistoryTypeOK, ByManager
  <2>7. CallTypeOK'
    BY <2>1, <2>3, <2>4 DEF OwnershipTypeOK, CallTypeOK
  <2> QED  BY <2>5, <2>6, <2>7 DEF OwnershipTypeOK
<1>17. CASE Spawn
  <2>1. PICK w \in Workers : Moved(w, [Asleep EXCEPT !.pc = "awaiting", !.id = RequestId])
                             /\ record' = [record EXCEPT !.pid = w] /\ process' = w
    <3>1. [Asleep EXCEPT !.pc = "awaiting", !.id = RequestId] \in Process
      BY BatchRecords DEF Asleep, Process, Pc, AgentStatus
    <3> QED  BY <1>17, <3>1 DEF Spawn, Moved
  <2>2. workers' \in [Workers -> Process]
    BY <2>1, ProcessStep DEF OwnershipTypeOK
  <2>3. ProcessesTypeOK'
    BY <1>17, <2>1, <2>2 DEF Spawn, OwnershipTypeOK, ProcessesTypeOK, OrNobody
  <2>4. ViewsTypeOK'
    BY <1>17, <2>1 DEF Spawn, OwnershipTypeOK, ViewsTypeOK, Record, OrNobody
  <2>5. FilesTypeOK'
    BY <1>17, BatchRecords DEF Spawn, Written, Others, OwnershipTypeOK, FilesTypeOK
  <2>6. CallTypeOK'
    <3>1. call.pc = "announced" /\ call' = [call EXCEPT !.pc = "spawned"]
      BY <1>17 DEF Spawn
    <3>2. call' \in Call
      BY <3>1, CallFields DEF Call
    <3> QED  BY <1>17, <3>2, BatchRecords DEF Spawn, OwnershipTypeOK, CallTypeOK
  <2>7. HistoryTypeOK'
    BY <1>17 DEF Spawn, history, OwnershipTypeOK, HistoryTypeOK
  <2> QED  BY <2>3, <2>4, <2>5, <2>6, <2>7 DEF OwnershipTypeOK
<1>18. ASSUME NEW a \in Agents, Kill(a) PROVE OwnershipTypeOK'
  <2> DEFINE kept == [Required EXCEPT !.agents[a] = "stopping"]
  <2>1. ViewsTypeOK'
    <3>1. kept \in Record
      BY <1>r DEF Record, AgentStatus, Pending
    <3>2. SaveAnd(Required, kept)
      BY <1>18 DEF Kill
    <3> HIDE DEF kept
    <3> QED  BY <1>r, <3>1, <3>2, ViewsSteps
  <2>2. FilesTypeOK' /\ ProcessesTypeOK' /\ HistoryTypeOK'
    BY <1>18 DEF Kill, ByManager, OwnershipTypeOK, FilesTypeOK, ProcessesTypeOK, HistoryTypeOK
  <2>3. CallTypeOK'
    BY <1>18, SpendType DEF Kill, OwnershipTypeOK, CallTypeOK, LeftTypeOK, Call
  <2> QED  BY <2>1, <2>2, <2>3 DEF OwnershipTypeOK
<1> QED
  BY <1>1, <1>2, <1>3, <1>4, <1>5, <1>6, <1>7, <1>8, <1>9, <1>10, <1>11, <1>12, <1>13, <1>14, <1>15, <1>16, <1>17, <1>18 DEF Operation

\* A stage that fails tells only of agents.
LEMMA FailureEvents ==
  ASSUME WorkerAssumption, NEW w \in Workers, NEW a \in Agents, StageFails(w, a)
  PROVE  \E es \in Seq(Event) : Emit(es) /\ \A n \in 1..Len(es) : es[n].kind = "agent"
<1>1. PICK halted \in SUBSET Agents : \E order \in SetToSeqs(halted) :
          Emit([n \in DOMAIN order |-> Agent(order[n], "failed")])
  BY DEF StageFails
<1>2. PICK order \in SetToSeqs(halted) : Emit([n \in DOMAIN order |-> Agent(order[n], "failed")])
  BY <1>1
<1>3. order \in Seq(Agents)
  <2>1. IsFiniteSet(halted)
    BY FS_Subset DEF WorkerAssumption
  <2>2. Cardinality(halted) \in Nat
    BY <2>1, FS_CardinalityType
  <2>3. order \in [1..Cardinality(halted) -> halted]
    BY DEF SetToSeqs
  <2>4. order \in [1..Cardinality(halted) -> Agents]
    BY <2>3
  <2> QED  BY <2>2, <2>4
<1> DEFINE es == [n \in DOMAIN order |-> Agent(order[n], "failed")]
<1>4. es \in Seq(Event) /\ \A n \in 1..Len(es) : es[n].kind = "agent"
  <2>1. \A n \in DOMAIN order : Agent(order[n], "failed") \in Event /\ Agent(order[n], "failed").kind = "agent"
    BY <1>3 DEF Agent, Event, AgentStatus, Terminal
  <2>2. DOMAIN order = 1..Len(order) /\ Len(order) \in Nat
    BY <1>3
  <2> QED  BY <2>1, <2>2
<1>5. Emit(es)
  BY <1>2
<1> HIDE DEF es
<1> QED  BY <1>4, <1>5

\* Crashes and signals keep the types.
LEMMA IncidentType ==
  ASSUME WorkerAssumption, OwnershipTypeOK, Incident
  PROVE  OwnershipTypeOK'
<1>1. CASE Restart
  <2>1. /\ call' = [pc |-> "loading"] /\ waiting' = FALSE /\ process' = 0 /\ record' = disk /\ seen' = 0
        /\ Spend("incidents")
        /\ workers' = [w \in Workers |-> IF At(w, "awaiting") THEN [workers[w] EXCEPT !.pc = "orphaned"]
                                         ELSE workers[w]]
        /\ UNCHANGED <<disk, tail, lastId, requests, window, stop, kills, shutdown, checkpoint, executed>>
    BY <1>1 DEF Restart, files
  <2>2. ViewsTypeOK' /\ FilesTypeOK'
    BY <2>1 DEF OwnershipTypeOK, ViewsTypeOK, FilesTypeOK
  <2>3. CallTypeOK'
    BY <2>1, SpendType DEF OwnershipTypeOK, CallTypeOK, LeftTypeOK, Call
  <2>4. ProcessesTypeOK'
    <3>1. ASSUME NEW w \in Workers PROVE [workers[w] EXCEPT !.pc = "orphaned"] \in Process /\ workers[w] \in Process
      BY DEF OwnershipTypeOK, ProcessesTypeOK, Process, Pc
    <3>2. workers' \in [Workers -> Process]
      BY <2>1, <3>1
    <3> QED  BY <2>1, <3>2 DEF OwnershipTypeOK, ProcessesTypeOK, OrNobody
  <2>5. HistoryTypeOK'
    <3>1. /\ dropped' \in {dropped, dropped \cup call.agents} /\ (dropped' # dropped => call.pc = "announced")
          /\ slips' \in {slips, slips \cup {"cut"}}
      BY <1>1 DEF Restart, Slip
    <3> QED  BY <2>1, <3>1, CallFields DEF OwnershipTypeOK, HistoryTypeOK
  <2> QED  BY <2>2, <2>3, <2>4, <2>5 DEF OwnershipTypeOK
<1>2. ASSUME NEW w \in Workers, Terminate(w) PROVE OwnershipTypeOK'
  <2>1. ViewsTypeOK'
    BY <1>2, ViewsSteps DEF Terminate
  <2>2. LeftTypeOK'
    BY <1>2, SpendType DEF Terminate
  <2> QED  BY <1>2, <2>1, <2>2 DEF Terminate, history, OwnershipTypeOK, FilesTypeOK, ProcessesTypeOK, CallTypeOK,
                                   HistoryTypeOK, LeftTypeOK
<1>3. ASSUME NEW w \in Workers, Die(w) PROVE OwnershipTypeOK'
  <2>1. ViewsTypeOK'
    BY <1>3, ViewsSteps DEF Die
  <2>2. LeftTypeOK'
    BY <1>3, SpendType DEF Die
  <2>3. workers' \in [Workers -> Process]
    BY <1>3, ProcessStep DEF Die, Pc, OwnershipTypeOK
  <2> QED  BY <1>3, <2>1, <2>2, <2>3 DEF Die, files, history, OwnershipTypeOK, FilesTypeOK, ProcessesTypeOK, CallTypeOK,
                                   HistoryTypeOK, LeftTypeOK
<1>4. ASSUME NEW w \in Workers, NEW a \in Agents, StageFails(w, a) PROVE OwnershipTypeOK'
  <2>4. ViewsTypeOK'
    BY <1>4, FailureEvents, ViewsSteps
  <2>5. /\ LeftTypeOK' /\ Go(w, "failing") /\ window' = Deactivated(w)
        /\ UNCHANGED <<requests, stop, kills, shutdown, checkpoint, executed, slips, process, call, waiting, lastId>>
    BY <1>4, SpendType DEF StageFails
  <2>6. workers' \in [Workers -> Process]
    BY <2>5, ProcessStep DEF Pc, Stage, OwnershipTypeOK
  <2>7. FilesTypeOK' /\ ProcessesTypeOK' /\ CallTypeOK'
    BY <2>5, <2>6 DEF Deactivated, LeftTypeOK, OwnershipTypeOK, FilesTypeOK, ProcessesTypeOK, CallTypeOK
  <2>8. HistoryTypeOK'
    <3>1. dropped' \subseteq dropped \cup Agents \cup window.pending
      BY <1>4 DEF StageFails, Thrown
    <3> QED  BY <2>5, <3>1 DEF OwnershipTypeOK, FilesTypeOK, HistoryTypeOK
  <2> QED  BY <2>4, <2>7, <2>8 DEF OwnershipTypeOK
<1> QED  BY <1>1, <1>2, <1>3, <1>4 DEF Incident

\* So does every step.
LEMMA TypeStep ==
  ASSUME WorkerAssumption, OwnershipTypeOK, [Next]_vars
  PROVE  OwnershipTypeOK'
<1>1. CASE UNCHANGED vars
  BY <1>1 DEF vars, files, history, OwnershipTypeOK, ViewsTypeOK, FilesTypeOK, ProcessesTypeOK, CallTypeOK,
              HistoryTypeOK
<1>2. CASE Next
  BY <1>2, WorkerType, ManagerType, IncidentType DEF Next
<1> QED  BY <1>1, <1>2

\* The initial states have the types.
LEMMA TypeInit ==
  ASSUME WorkerAssumption, Init
  PROVE  OwnershipTypeOK
<1>1. 1 \in Workers
  BY DEF Workers, WorkerAssumption
<1>2. record \in Record
  BY <1>1 DEF Init, Record, RunStatus, ActiveStatus, Op, OrNobody, AgentStatus, Pending
<1>3. ViewsTypeOK
  BY <1>2 DEF Init, ViewsTypeOK
<1>4. FilesTypeOK
  <2>1. [id |-> 1, batch |-> 1, op |-> "initial", agents |-> Initial] \in AnyRequest
    BY DEF AnyRequest, Op, WorkerAssumption
  <2> QED  BY <2>1 DEF Init, FilesTypeOK
<1>5. ProcessesTypeOK
  <2>1. Asleep \in Process /\ [Asleep EXCEPT !.pc = "booting"] \in Process
    BY DEF Asleep, Process, Pc, AgentStatus
  <2>2. workers \in [Workers -> Process]
    BY <2>1 DEF Init
  <2> QED  BY <1>1, <2>2 DEF Init, ProcessesTypeOK, OrNobody
<1>6. CallTypeOK
  BY DEF Init, CallTypeOK, Call, Idle, WorkerAssumption
<1>7. HistoryTypeOK
  BY DEF Init, HistoryTypeOK
<1> QED  BY <1>3, <1>4, <1>5, <1>6, <1>7 DEF OwnershipTypeOK

-----------------------------------------------------------------------------
(* Who serves the run                                                          *)

\* What the views become when events are added.
LEMMA Grown ==
  ASSUME OwnershipTypeOK, NEW es \in Seq(Event), Emit(es)
  PROVE  /\ Refresh(record)' = Applied(Refresh(record), es)
         /\ Applied(disk, tail)' = Applied(Applied(disk, tail), es)
         /\ call.pc \in {"marked", "announced"} /\ call' = call =>
              Refresh(Back)' = Applied(Refresh(Back), es) /\ Refresh(Back) \in Record
         /\ UNCHANGED <<record, disk, seen>>
<1>1. tail \in Seq(Event) /\ seen \in 0..Len(tail) /\ record \in Record /\ disk \in Record
  BY DEF OwnershipTypeOK, ViewsTypeOK
<1>2. tail' = tail \o es /\ UNCHANGED <<record, disk, seen>>
  BY DEF Emit
<1>3. Unread' = Unread \o es /\ Unread \in Seq(Event)
  BY <1>1, <1>2, UnreadGrows DEF Unread
<1>4. Refresh(record)' = Applied(Refresh(record), es)
  BY <1>2, <1>3, AppliedConcat DEF Refresh
<1>5. Applied(disk, tail)' = Applied(Applied(disk, tail), es)
  BY <1>1, <1>2, AppliedConcat
<1>6. ASSUME call.pc \in {"marked", "announced"}, call' = call
      PROVE  Refresh(Back)' = Applied(Refresh(Back), es) /\ Refresh(Back) \in Record
  <2>1. Back' = Back
    BY <1>2, <1>6 DEF Back
  <2>2. Back \in Record
    BY <1>6, BatchRecords
  <2> QED  BY <2>1, <2>2, <1>3, AppliedConcat, AppliedType DEF Refresh
<1> QED  BY <1>2, <1>4, <1>5, <1>6

\* What they become when everything is read and saved.
LEMMA Saved ==
  ASSUME NEW saved, NEW kept, SaveAnd(saved, kept)
  PROVE  /\ record' = kept /\ disk' = saved /\ Refresh(record)' = kept /\ Applied(disk, tail)' = saved
         /\ Unread' = <<>> /\ seen' = 0 /\ tail' = <<>>
<1>1. record' = kept /\ disk' = saved /\ tail' = <<>> /\ seen' = 0
  BY DEF SaveAnd
<1>2. Unread' = <<>>
  BY <1>1 DEF Unread
<1> QED  BY <1>1, <1>2, AppliedFew DEF Refresh

\* Nothing changes them when nothing is read, written or added.
LEMMA Kept0 ==
  ASSUME UNCHANGED <<record, disk, tail, seen>>
  PROVE  /\ Refresh(record)' = Refresh(record) /\ Applied(disk, tail)' = Applied(disk, tail)
         /\ Unread' = Unread
  BY DEF Refresh, Unread

\* An event of a worker that serves the run leaves the records with what they know.
LEMMA KnowsEvent ==
  ASSUME NEW rec \in Record, NEW w \in Workers, NEW e \in Event, NEW b \in BOOLEAN, KnowsAs(rec, w, b),
         e.kind \in {"worker_started", "operation_started"} => e.pid = w,
         e.kind \in {"ended", "operation_finished"} => b,
         e.kind # "worker_stopped"
  PROVE  KnowsAs(Apply(rec, e), w, IF e.kind = "operation_started" THEN TRUE
                                   ELSE IF e.kind = "operation_finished" THEN FALSE ELSE b)
<1>0. w # 0
  BY DEF Workers
<1>1. CASE e.kind = "worker_started"
  BY <1>0, <1>1, ApplyFields DEF KnowsAs
<1>2. CASE e.kind = "operation_started"
  <2>1. e.op # "" /\ e.pid = w
    BY <1>2, EventKinds DEF Op
  <2>2. /\ Apply(rec, e).pid = w /\ Apply(rec, e).op = e.op /\ Apply(rec, e).state = "busy"
    BY <1>2, <2>1, ApplyFields
  <2> QED  BY <1>0, <1>2, <2>1, <2>2 DEF KnowsAs
<1>3. CASE e.kind \in {"prepared", "failed", "agent", "ended"}
  BY <1>0, <1>3, ApplyFields DEF KnowsAs
<1>4. CASE e.kind = "operation_finished"
  BY <1>0, <1>4, ApplyFields DEF KnowsAs
<1> QED  BY <1>1, <1>2, <1>3, <1>4, EventKinds

\* While a new worker is not yet published, nobody serves the run.
LEMMA SpawnedQuiet ==
  ASSUME OwnershipTypeOK, Ownership, call.pc = "spawned", NEW w \in Workers, Holder(w)
  PROVE  record.pid = w /\ At(w, "awaiting")
<1>1. record.pid # 0 /\ workers[record.pid].pc \in {"awaiting", "dead"}
  BY DEF Ownership, CallFits
<1>2. record.pid = w
  BY <1>1 DEF Ownership, RecordKnows, Names
<1>3. Serving(w) => workers[w].pc \notin {"awaiting", "dead"}
  BY DEF Serving
<1>4. workers[w].pc = "awaiting"
  BY <1>1, <1>2, <1>3 DEF Holder, Waits
<1> QED  BY <1>2, <1>4 DEF At

\* A step of the worker that serves the run and goes on with it, whatever it says.
LEMMA WorkerSpeaks ==
  ASSUME OwnershipTypeOK, Ownership, NEW w \in Workers, Serving(w),
         NEW p, Moved(w, p), p.pc \in {"booting"} \cup Stage \cup Rest,
         NEW es \in Seq(Event), Emit(es), UNCHANGED <<call, process>>,
         \/ p.pc = "booting" /\ At(w, "booting") /\ checkpoint' = checkpoint
         \/ p.pc # "booting" /\ checkpoint'.pid = w /\ checkpoint'.alive,
         \A n \in 1..Len(es) :
            es[n].kind \in {"worker_started", "operation_started"} => es[n].pid = w,
         \A rec \in Record : Knows(rec, w) =>
            KnowsAs(Applied(rec, es), w, p.pc \in {"booting"} \cup Stage)
  PROVE  Ownership'
<1> DEFINE R == Refresh(record)  D == Applied(disk, tail)  B == Refresh(Back)
<1>0. /\ w # 0 /\ workers' \in [Workers -> Process] /\ workers'[w] = p
      /\ \A x \in Workers \ {w} : workers'[x] = workers[x]
  BY ProcessStep DEF Workers, OwnershipTypeOK
<1>1. Holder(w) /\ \A x \in Workers : Holder(x) => x = w
  BY DEF Holder, Ownership, OneHolder
<1>2. call.pc # "spawned" /\ call'.pc # "spawned"
  BY <1>1, SpawnedQuiet DEF Serving, At
<1>3. /\ Names(record, w) /\ Knows(R, w) /\ process \in {w, 0}
      /\ Names(disk, w) /\ Knows(D, w) /\ seen = 0
      /\ InBatch => call.mode # "fresh" /\ (~call.heard => Knows(B, w))
  BY <1>1, <1>2 DEF Ownership, RecordKnows, DiskKnows, BackKnows
<1>4. /\ R \in Record /\ D \in Record
      /\ Refresh(record)' = Applied(R, es) /\ Applied(disk, tail)' = Applied(D, es)
      /\ UNCHANGED <<record, disk, seen>>
      /\ InBatch => Refresh(Back)' = Applied(B, es) /\ B \in Record
  BY ReadType, Grown DEF InBatch
<1>5. /\ Serving(w)' /\ ~ Waits(w)' /\ (p.pc # "none")
      /\ Bound(w)' => p.pc \in {"booting"} \cup Stage
      /\ Bound(w)' \in BOOLEAN
  BY <1>0 DEF Serving, Waits, Bound, Stage, Rest
<1>6. \A rec \in Record : Knows(rec, w) => KnowsAs(Applied(rec, es), w, Bound(w)')
  BY <1>5 DEF KnowsAs
<1>7. \A x \in Workers : Holder(x)' => x = w
  BY <1>0, <1>1, <1>4 DEF Holder, Serving, Waits
<1> HIDE DEF R, D, B
<1>8. RecordKnows'
  <2>1. Knows(Refresh(record), w)'
    BY <1>3, <1>4, <1>6 DEF Knows
  <2>2. Names(record, w)' /\ process' \in {w, 0}
    BY <1>3, <1>4 DEF Names
  <2> QED  BY <1>7, <2>1, <2>2 DEF RecordKnows
<1>9. DiskKnows'
  <2>1. Knows(Applied(disk, tail), w)'
    BY <1>3, <1>4, <1>6 DEF Knows
  <2>2. Names(disk, w)' /\ seen' = 0
    BY <1>3, <1>4 DEF Names
  <2> QED  BY <1>7, <2>1, <2>2 DEF DiskKnows
<1>10. BackKnows'
  <2>1. InBatch' => InBatch
    BY DEF InBatch
  <2>2. InBatch /\ ~call.heard => Knows(Refresh(Back), w)'
    BY <1>3, <1>4, <1>6 DEF Knows
  <2> QED  BY <1>3, <1>7, <2>1, <2>2 DEF BackKnows
<1>11. OneHolder'
  BY <1>7 DEF OneHolder
<1>12. Unheard'
  <2>1. tail \in Seq(Event) /\ tail' = tail \o es
    BY DEF OwnershipTypeOK, ViewsTypeOK, Emit
  <2>2. ASSUME NEW x \in Workers, x # w, workers[x].pc = "none" \/ Waits(x), NEW i \in DOMAIN tail',
               tail'[i].kind \in {"worker_started", "operation_started"}
        PROVE  tail'[i].pid # x
    <3>1. CASE i \in DOMAIN tail
      <4>1. tail'[i] = tail[i]
        BY <2>1, <3>1
      <4> QED  BY <2>2, <3>1, <4>1 DEF Ownership, Unheard
    <3>2. CASE i \notin DOMAIN tail
      <4>1. i - Len(tail) \in 1..Len(es) /\ tail'[i] = es[i - Len(tail)]
        BY <2>1, <2>2, <3>2
      <4> QED  BY <2>2, <4>1
    <3> QED  BY <3>1, <3>2
  <2>3. ASSUME NEW x \in Workers, x # w
        PROVE  /\ workers'[x].pc = "none" => record'.pid # x /\ disk'.pid # x
               /\ (workers[x].pc = "none" \/ Waits(x)) = (workers[x].pc = "none" \/ Waits(x))'
               /\ Waits(x)' /\ record'.pid = x => disk'.pid = x \/ call'.pc = "spawned"
               /\ workers'[x].pc \in {"none", "awaiting", "orphaned", "booting"} => checkpoint'.pid # x
               /\ Serving(x)' /\ workers'[x].pc # "booting" => checkpoint'.pid = x /\ checkpoint'.alive
    <3>1. workers'[x] = workers[x] /\ UNCHANGED <<record, disk>> /\ ~Serving(x)
      BY <1>0, <1>1, <1>4, <2>3 DEF Holder
    <3>2. ~Serving(x)'
      BY <3>1 DEF Serving
    <3>3. checkpoint'.pid = w \/ checkpoint' = checkpoint
      OBVIOUS
    <3> QED  BY <2>3, <3>1, <3>2, <3>3 DEF Waits, Ownership, Unheard
  <2>4. workers'[w].pc # "none" /\ ~ Waits(w)'
    BY <1>0, <1>5
  <2>5. /\ workers'[w].pc \in {"none", "awaiting", "orphaned", "booting"} => checkpoint'.pid # w
        /\ workers'[w].pc # "booting" => checkpoint'.pid = w /\ checkpoint'.alive
    <3>1. At(w, "booting") => checkpoint.pid # w
      BY DEF At, Ownership, Unheard
    <3> QED  BY <1>0, <3>1 DEF Stage, Rest
  <2> QED  BY <2>2, <2>3, <2>4, <2>5 DEF Unheard
<1>13. CallFits'
  <2>1. record.state # "stopped" /\ Holder(w)
    BY <1>1, <1>3 DEF Names
  <2>2. checkpoint'.alive => checkpoint'.pid # 0
    BY <1>0 DEF Ownership, CallFits
  <2>3. ~ (call.pc = "begun" /\ call.kind = "rescue") /\ ~ (InBatch /\ call.mode = "fresh")
    BY <2>1 DEF Ownership, CallFits, NoHolder
  <2>4. InBatch' = InBatch /\ UNCHANGED <<record, call>>
    BY <1>4 DEF InBatch
  <2> QED  BY <1>2, <2>1, <2>2, <2>3, <2>4 DEF Ownership, CallFits
<1> QED  BY <1>8, <1>9, <1>10, <1>11, <1>12, <1>13 DEF Ownership

\* The worker that serves the run says that it leaves.
LEMMA LeaveOwns ==
  ASSUME OwnershipTypeOK, Ownership, NEW w \in Workers, Leave(w)
  PROVE  Ownership'
<1>0. /\ workers' \in [Workers -> Process] /\ workers'[w].pc = "leaving" /\ At(w, "idle")
      /\ \A x \in Workers \ {w} : workers'[x] = workers[x]
  <2>1. Moved(w, [workers[w] EXCEPT !.pc = "leaving"]) /\ workers[w] \in Process
    BY ProcessStep DEF Leave, Pc, OwnershipTypeOK
  <2>2. [workers[w] EXCEPT !.pc = "leaving"].pc = "leaving"
    BY <2>1 DEF Process
  <2>3. At(w, "idle")
    BY DEF Leave
  <2> QED  BY <2>1, <2>2, <2>3, ProcessStep DEF OwnershipTypeOK
<1>1. Holder(w) /\ \A x \in Workers : Holder(x) => x = w
  BY <1>0 DEF Holder, Serving, At, Ownership, OneHolder
<1>2. call.pc # "spawned"
  BY <1>0, <1>1, SpawnedQuiet DEF At
<1>3. UNCHANGED <<record, disk, seen, call, checkpoint, process>> /\ tail' = tail \o <<[kind |-> "worker_stopped"]>>
  BY DEF Leave, Emit, ByWorker, files
<1>4. record.state # "stopped"
  BY <1>1 DEF Ownership, RecordKnows, Names
<1>5. \A x \in Workers : ~Holder(x)'
  BY <1>0, <1>1, <1>3 DEF Holder, Serving, Waits
<1>6. RecordKnows' /\ DiskKnows' /\ BackKnows' /\ OneHolder'
  BY <1>5 DEF RecordKnows, DiskKnows, BackKnows, OneHolder
<1>7. Unheard'
  <2>1. tail \in Seq(Event)
    BY DEF OwnershipTypeOK, ViewsTypeOK
  <2>2. ASSUME NEW x \in Workers, workers[x].pc = "none" \/ Waits(x), NEW i \in DOMAIN tail',
               tail'[i].kind \in {"worker_started", "operation_started"}
        PROVE  tail'[i].pid # x
    <3>1. i \in DOMAIN tail /\ tail'[i] = tail[i]
      BY <1>3, <2>1, <2>2
    <3> QED  BY <2>2, <3>1 DEF Ownership, Unheard
  <2>3. ASSUME NEW x \in Workers
        PROVE  /\ workers'[x].pc = "none" => record'.pid # x /\ disk'.pid # x
               /\ (workers'[x].pc = "none" \/ Waits(x)') => (workers[x].pc = "none" \/ Waits(x))
               /\ Waits(x)' /\ record'.pid = x => disk'.pid = x \/ call'.pc = "spawned"
               /\ workers'[x].pc \in {"none", "awaiting", "orphaned", "booting"} => checkpoint'.pid # x
               /\ ~Serving(x)'
    <3>1. workers'[x] = workers[x] \/ workers'[x].pc = "leaving"
      BY <1>0
    <3> QED  BY <1>3, <1>5, <3>1 DEF Holder, Waits, Ownership, Unheard
  <2> QED  BY <2>2, <2>3 DEF Unheard
<1>8. CallFits'
  <2>1. ~ (call.pc = "begun" /\ call.kind = "rescue") /\ ~ (InBatch /\ call.mode = "fresh")
    BY <1>1 DEF Ownership, CallFits, NoHolder
  <2>2. InBatch' = InBatch
    BY <1>3 DEF InBatch
  <2> QED  BY <1>2, <1>3, <1>4, <2>1, <2>2 DEF Ownership, CallFits
<1> QED  BY <1>6, <1>7, <1>8 DEF Ownership

\* A worker ends: it dies, gives up waiting, or has left and says so last.
LEMMA WorkerEnds ==
  ASSUME OwnershipTypeOK, Ownership, NEW w \in Workers, Go(w, "dead"), workers[w].pc # "none",
         UNCHANGED <<record, disk, tail, seen, call, process>>,
         \/ checkpoint' = checkpoint
         \/ At(w, "leaving") /\ checkpoint.pid = w /\ checkpoint'.pid = w /\ ~checkpoint'.alive
  PROVE  Ownership'
<1>0. /\ workers' \in [Workers -> Process] /\ workers'[w].pc = "dead"
      /\ \A x \in Workers \ {w} : workers'[x] = workers[x]
  <2>1. Moved(w, [workers[w] EXCEPT !.pc = "dead"]) /\ workers[w] \in Process
    BY ProcessStep DEF Pc, OwnershipTypeOK
  <2>2. [workers[w] EXCEPT !.pc = "dead"].pc = "dead"
    BY <2>1 DEF Process
  <2> QED  BY <2>1, <2>2, ProcessStep DEF OwnershipTypeOK
<1>1. /\ Refresh(record)' = Refresh(record) /\ Applied(disk, tail)' = Applied(disk, tail) /\ Unread' = Unread
      /\ InBatch' = InBatch /\ Refresh(Back)' = Refresh(Back)
  BY Kept0 DEF InBatch, Back, Refresh
<1>2. ASSUME NEW x \in Workers, Holder(x)'
      PROVE  x # w /\ Holder(x) /\ Bound(x)' = Bound(x) /\ workers'[x] = workers[x]
  <2>1. x # w
    BY <1>0, <1>2 DEF Holder, Serving, Waits
  <2> QED  BY <1>0, <1>2, <2>1 DEF Holder, Serving, Waits, Bound
<1>3. RecordKnows'
  <2>1. ASSUME NEW x \in Workers, Holder(x)'
        PROVE  Names(record, x)' /\ Knows(Refresh(record), x)' /\ process' \in {x, 0}
    <3>1. Names(record, x) /\ KnowsAs(Refresh(record), x, Bound(x)) /\ process \in {x, 0}
      BY <1>2, <2>1 DEF Ownership, RecordKnows, Knows
    <3> QED  BY <1>1, <1>2, <2>1, <3>1 DEF Names, Knows
  <2> QED  BY <2>1 DEF RecordKnows
<1>4. DiskKnows'
  <2>1. ASSUME NEW x \in Workers, Holder(x)', call'.pc # "spawned"
        PROVE  Names(disk, x)' /\ Knows(Applied(disk, tail), x)' /\ seen' = 0
    <3>1. Names(disk, x) /\ KnowsAs(Applied(disk, tail), x, Bound(x)) /\ seen = 0
      BY <1>2, <2>1 DEF Ownership, DiskKnows, Knows
    <3> QED  BY <1>1, <1>2, <2>1, <3>1 DEF Names, Knows
  <2> QED  BY <2>1 DEF DiskKnows
<1>5. BackKnows'
  <2>1. ASSUME NEW x \in Workers, Holder(x)', InBatch
        PROVE  call.mode # "fresh" /\ (~call.heard => Knows(Refresh(Back), x)')
    <3>1. call.mode # "fresh" /\ (~call.heard => KnowsAs(Refresh(Back), x, Bound(x)))
      BY <1>2, <2>1 DEF Ownership, BackKnows, Knows
    <3> QED  BY <1>1, <1>2, <2>1, <3>1 DEF Knows
  <2> QED  BY <1>1, <2>1 DEF BackKnows
<1>6. OneHolder'
  BY <1>2 DEF Ownership, OneHolder
<1>7. Unheard'
  <2>1. ASSUME NEW x \in Workers
        PROVE  /\ workers'[x].pc = "none" => record'.pid # x /\ disk'.pid # x
               /\ workers'[x].pc = "none" \/ Waits(x)' =>
                    \A i \in DOMAIN tail' :
                      tail'[i].kind \in {"worker_started", "operation_started"} => tail'[i].pid # x
               /\ Waits(x)' /\ record'.pid = x => disk'.pid = x \/ call'.pc = "spawned"
               /\ workers'[x].pc \in {"none", "awaiting", "orphaned", "booting"} => checkpoint'.pid # x
               /\ Serving(x)' /\ workers'[x].pc # "booting" => checkpoint'.pid = x /\ checkpoint'.alive
    <3>1. CASE x = w
      BY <1>0, <3>1 DEF Serving, Waits
    <3>2. CASE x # w
      <4>1. workers'[x] = workers[x]
        BY <1>0, <3>2
      <4>2. /\ workers[x].pc = "none" => record.pid # x /\ disk.pid # x
            /\ workers[x].pc = "none" \/ Waits(x) =>
                 \A i \in DOMAIN tail :
                   tail[i].kind \in {"worker_started", "operation_started"} => tail[i].pid # x
            /\ Waits(x) /\ record.pid = x => disk.pid = x \/ call.pc = "spawned"
            /\ workers[x].pc \in {"none", "awaiting", "orphaned", "booting"} => checkpoint.pid # x
            /\ Serving(x) /\ workers[x].pc # "booting" => checkpoint.pid = x /\ checkpoint.alive
        BY DEF Ownership, Unheard
      <4> QED  BY <3>2, <4>1, <4>2 DEF Serving, Waits
    <3> QED  BY <3>1, <3>2
  <2> QED  BY <2>1 DEF Unheard
<1>8. CallFits'
  <2>1. NoHolder => NoHolder'
    BY <1>2 DEF NoHolder
  <2>2. call.pc = "spawned" /\ workers[record.pid].pc \in {"awaiting", "dead"} =>
            workers'[record.pid].pc \in {"awaiting", "dead"}
    <3>1. record.pid \in OrNobody
      BY DEF OwnershipTypeOK, ViewsTypeOK, Record
    <3>2. call.pc = "spawned" => record.pid # 0
      BY DEF Ownership, CallFits
    <3> QED  BY <1>0, <3>1, <3>2 DEF OrNobody
  <2>3. checkpoint'.alive => checkpoint'.pid # 0
    BY DEF Ownership, CallFits
  <2> QED  BY <1>1, <2>1, <2>2, <2>3 DEF Ownership, CallFits
<1> QED  BY <1>3, <1>4, <1>5, <1>6, <1>7, <1>8 DEF Ownership

\* Such a step with one event,
LEMMA SpeaksOnce ==
  ASSUME OwnershipTypeOK, Ownership, NEW w \in Workers, Serving(w),
         NEW p, Moved(w, p), p.pc \in Stage \cup Rest,
         NEW e \in Event, Emit(<<e>>), UNCHANGED <<call, process>>,
         checkpoint'.pid = w, checkpoint'.alive,
         e.kind \in {"worker_started", "operation_started"} => e.pid = w,
         e.kind \in {"ended", "operation_finished"} => Bound(w),
         e.kind # "worker_stopped",
         p.pc \in Stage => e.kind = "operation_started" \/ (e.kind # "operation_finished" /\ Bound(w))
  PROVE  Ownership'
<1> DEFINE es == <<e>>
<1>1. es \in Seq(Event) /\ Len(es) = 1 /\ es[1] = e
  OBVIOUS
<1>2. ASSUME NEW rec \in Record, Knows(rec, w)
      PROVE  KnowsAs(Applied(rec, es), w, p.pc \in {"booting"} \cup Stage)
  <2>1. Applied(rec, es) = Apply(rec, e)
    BY AppliedFew
  <2>2. Bound(w) \in BOOLEAN
    BY DEF Bound
  <2>3. KnowsAs(Apply(rec, e), w, IF e.kind = "operation_started" THEN TRUE
                                   ELSE IF e.kind = "operation_finished" THEN FALSE ELSE Bound(w))
    BY <1>2, <2>2, KnowsEvent DEF Knows
  <2>4. p.pc # "booting"
    BY DEF Stage, Rest
  <2> QED  BY <2>1, <2>3, <2>4 DEF KnowsAs
<1>3. Emit(es)
  OBVIOUS
<1>4. \A n \in 1..Len(es) : es[n].kind \in {"worker_started", "operation_started"} => es[n].pid = w
  BY <1>1
<1>5. p.pc # "booting" /\ p.pc \in {"booting"} \cup Stage \cup Rest
  BY DEF Stage, Rest
<1> HIDE DEF es
<1> QED  BY <1>1, <1>2, <1>3, <1>4, <1>5, WorkerSpeaks

\* and one with none.
LEMMA SpeaksNot ==
  ASSUME OwnershipTypeOK, Ownership, NEW w \in Workers, Serving(w),
         NEW p, Moved(w, p), p.pc \in {"booting"} \cup Stage \cup Rest,
         UNCHANGED <<record, disk, tail, seen, call, process>>,
         \/ p.pc = "booting" /\ At(w, "booting") /\ checkpoint' = checkpoint
         \/ p.pc # "booting" /\ checkpoint'.pid = w /\ checkpoint'.alive,
         p.pc \in {"booting"} \cup Stage => Bound(w)
  PROVE  Ownership'
<1>1. <<>> \in Seq(Event) /\ Len(<<>>) = 0
  OBVIOUS
<1>2. Emit(<<>>)
  <2>1. tail \o <<>> = tail
    BY DEF OwnershipTypeOK, ViewsTypeOK
  <2> QED  BY <2>1 DEF Emit
<1>3. ASSUME NEW rec \in Record, Knows(rec, w)
      PROVE  KnowsAs(Applied(rec, <<>>), w, p.pc \in {"booting"} \cup Stage)
  BY <1>3, AppliedFew DEF Knows, KnowsAs
<1>4. \A n \in 1..Len(<<>>) :
         <<>>[n].kind \in {"worker_started", "operation_started"} => <<>>[n].pid = w
  OBVIOUS
<1> QED  BY <1>1, <1>2, <1>3, <1>4, WorkerSpeaks

\* A worker that waited sees itself in the record and starts.
LEMMA AwaitOwns ==
  ASSUME OwnershipTypeOK, Ownership, NEW w \in Workers, AwaitPublication(w)
  PROVE  Ownership'
<1>1. UNCHANGED <<record, disk, tail, seen, call, process, checkpoint>> /\ Waits(w)
  BY DEF AwaitPublication, ByWorker, files, Waits
<1>2. CASE Go(w, "dead")
  BY <1>1, <1>2, WorkerEnds DEF Waits
<1>3. CASE ~stop /\ Published(w) /\ Go(w, "booting")
  <2>0. /\ workers' \in [Workers -> Process] /\ workers'[w].pc = "booting"
        /\ \A x \in Workers \ {w} : workers'[x] = workers[x]
    <3>1. Moved(w, [workers[w] EXCEPT !.pc = "booting"]) /\ workers[w] \in Process
      BY <1>3, ProcessStep DEF Pc, OwnershipTypeOK
    <3>2. [workers[w] EXCEPT !.pc = "booting"].pc = "booting"
      BY <3>1 DEF Process
    <3> QED  BY <3>1, <3>2, ProcessStep DEF OwnershipTypeOK
  <2>1. disk.pid = w /\ Holder(w)
    BY <1>1, <1>3 DEF Published, Holder
  <2>2. call.pc # "spawned"
    <3> SUFFICES ASSUME call.pc = "spawned" PROVE FALSE
      OBVIOUS
    <3>1. record.pid = w /\ disk.pid # record.pid
      BY <2>1, SpawnedQuiet DEF Ownership, CallFits
    <3> QED  BY <2>1, <3>1
  <2>3. /\ Refresh(record)' = Refresh(record) /\ Applied(disk, tail)' = Applied(disk, tail) /\ Unread' = Unread
        /\ InBatch' = InBatch /\ Refresh(Back)' = Refresh(Back)
    BY <1>1, Kept0 DEF InBatch, Back, Refresh
  <2>4. ASSUME NEW x \in Workers, Holder(x)' PROVE x = w
    <3>1. x # w => Holder(x)
      BY <1>1, <2>0, <2>4 DEF Holder, Serving, Waits
    <3> QED  BY <2>1, <3>1 DEF Ownership, OneHolder
  <2>5. Bound(w) /\ Bound(w)'
    BY <1>1, <2>0 DEF Bound, Waits
  <2>6. RecordKnows' /\ DiskKnows' /\ BackKnows' /\ OneHolder'
    <3>1. /\ Names(record, w) /\ KnowsAs(Refresh(record), w, TRUE) /\ process \in {w, 0}
          /\ Names(disk, w) /\ KnowsAs(Applied(disk, tail), w, TRUE) /\ seen = 0
          /\ InBatch => call.mode # "fresh" /\ (~call.heard => KnowsAs(Refresh(Back), w, TRUE))
      BY <2>1, <2>2, <2>5 DEF Ownership, RecordKnows, DiskKnows, BackKnows, Knows, KnowsAs
    <3>2. Names(record, w)' /\ Knows(Refresh(record), w)' /\ process' \in {w, 0}
      BY <1>1, <2>3, <2>5, <3>1 DEF Names, Knows, KnowsAs
    <3>3. Names(disk, w)' /\ Knows(Applied(disk, tail), w)' /\ seen' = 0
      BY <1>1, <2>3, <2>5, <3>1 DEF Names, Knows, KnowsAs
    <3>4. InBatch' => call'.mode # "fresh" /\ (~call'.heard => Knows(Refresh(Back), w)')
      BY <1>1, <2>3, <2>5, <3>1 DEF Knows, KnowsAs
    <3> QED  BY <2>4, <3>2, <3>3, <3>4 DEF RecordKnows, DiskKnows, BackKnows, OneHolder
  <2>7. Unheard'
    <3>1. ASSUME NEW x \in Workers
          PROVE  /\ workers'[x].pc = "none" => record'.pid # x /\ disk'.pid # x
                 /\ workers'[x].pc = "none" \/ Waits(x)' =>
                      \A i \in DOMAIN tail' :
                        tail'[i].kind \in {"worker_started", "operation_started"} => tail'[i].pid # x
                 /\ Waits(x)' /\ record'.pid = x => disk'.pid = x \/ call'.pc = "spawned"
                 /\ workers'[x].pc \in {"none", "awaiting", "orphaned", "booting"} => checkpoint'.pid # x
                 /\ Serving(x)' /\ workers'[x].pc # "booting" => checkpoint'.pid = x /\ checkpoint'.alive
      <4>1. /\ workers[x].pc = "none" => record.pid # x /\ disk.pid # x
            /\ workers[x].pc = "none" \/ Waits(x) =>
                 \A i \in DOMAIN tail :
                   tail[i].kind \in {"worker_started", "operation_started"} => tail[i].pid # x
            /\ Waits(x) /\ record.pid = x => disk.pid = x \/ call.pc = "spawned"
            /\ workers[x].pc \in {"none", "awaiting", "orphaned", "booting"} => checkpoint.pid # x
            /\ Serving(x) /\ workers[x].pc # "booting" => checkpoint.pid = x /\ checkpoint.alive
        BY DEF Ownership, Unheard
      <4>2. CASE x = w
        BY <1>1, <2>0, <4>1, <4>2 DEF Serving, Waits
      <4>3. CASE x # w
        <5>1. workers'[x] = workers[x]
          BY <2>0, <4>3
        <5> QED  BY <1>1, <4>1, <5>1 DEF Serving, Waits
      <4> QED  BY <4>2, <4>3
    <3> QED  BY <3>1 DEF Unheard
  <2>8. CallFits'
    <3>1. ~ (call.pc = "begun" /\ call.kind = "rescue") /\ ~ (InBatch /\ call.mode = "fresh")
      BY <2>1 DEF Ownership, CallFits, NoHolder
    <3> QED  BY <1>1, <2>2, <2>3, <3>1 DEF Ownership, CallFits
  <2> QED  BY <2>6, <2>7, <2>8 DEF Ownership
<1> QED  BY <1>2, <1>3 DEF AwaitPublication

\* What a step of a serving worker has in common.
LEMMA Serves ==
  ASSUME OwnershipTypeOK, Ownership, NEW w \in Workers
  PROVE  /\ workers[w].pc \in Stage \cup Rest => Serving(w) /\ checkpoint.pid = w /\ checkpoint.alive
         /\ workers[w].pc \in Stage => Bound(w)
         /\ workers[w] \in Process
         /\ \A pc \in Pc : Go(w, pc) => \E p : Moved(w, p) /\ p.pc = pc
<1>1. workers[w].pc \in Stage \cup Rest => Serving(w) /\ workers[w].pc # "booting"
  BY DEF Serving, Stage, Rest
<1>2. workers[w] \in Process
  BY ProcessStep DEF OwnershipTypeOK
<1>3. ASSUME NEW pc \in Pc, Go(w, pc) PROVE \E p : Moved(w, p) /\ p.pc = pc
  <2>1. Moved(w, [workers[w] EXCEPT !.pc = pc])
    BY <1>3, ProcessStep DEF OwnershipTypeOK
  <2>2. [workers[w] EXCEPT !.pc = pc].pc = pc
    BY <1>2 DEF Process
  <2> QED  BY <2>1, <2>2
<1> QED  BY <1>1, <1>2, <1>3 DEF Ownership, Unheard, Bound

\* The steps of a worker leave one worker to the run.
LEMMA WorkerOwns ==
  ASSUME OwnershipTypeOK, Ownership, Kept', NEW w \in Workers, Worker(w)
  PROVE  Ownership'
<1>1. CASE AwaitPublication(w)
  BY <1>1, AwaitOwns
<1>2. CASE Boot(w)
  <2> DEFINE e == [kind |-> "worker_started", pid |-> w]
  <2>1. At(w, "booting") /\ Serving(w)
    BY <1>2 DEF Boot, At, Serving
  <2>2. PICK p : Moved(w, p) /\ p.pc = "idle"
    BY <1>2, Serves DEF Boot, Pc, Rest
  <2>3. e \in Event
    BY DEF Event
  <2>4. /\ Emit(<<e>>) /\ UNCHANGED <<call, process>> /\ checkpoint'.pid = w /\ checkpoint'.alive
    BY <1>2 DEF Boot, ByWorker, OwnershipTypeOK, ProcessesTypeOK
  <2>5. e.kind = "worker_started" /\ e.pid = w
    OBVIOUS
  <2>6. p.pc \in Stage \cup Rest /\ p.pc \notin Stage
    BY <2>2 DEF Stage, Rest
  <2> HIDE DEF e
  <2> QED  BY <2>1, <2>2, <2>3, <2>4, <2>5, <2>6, SpeaksOnce
<1>3. CASE Take(w)
  <2>1. PICK r \in requests :
          /\ workers' = [workers EXCEPT ![w] =
               [pc |-> "preparing", id |-> r.id, op |-> r.op, ok |-> FALSE,
                tasks |-> [a \in Agents |-> IF a \in r.agents THEN "queued" ELSE "none"]]]
          /\ checkpoint' = [checkpoint EXCEPT !.pid = w, !.alive = TRUE, !.active = TRUE, !.id = r.id]
          /\ Emit(<<[kind |-> "operation_started", pid |-> w, op |-> r.op, id |-> r.id]>>)
    BY <1>3 DEF Take
  <2>2. r \in AnyRequest /\ r.id \in Nat /\ r.op \in Op
    BY DEF OwnershipTypeOK, FilesTypeOK, AnyRequest
  <2> DEFINE e == [kind |-> "operation_started", pid |-> w, op |-> r.op, id |-> r.id]
             p == [pc |-> "preparing", id |-> r.id, op |-> r.op, ok |-> FALSE,
                   tasks |-> [a \in Agents |-> IF a \in r.agents THEN "queued" ELSE "none"]]
  <2>3. e \in Event /\ e.kind = "operation_started" /\ e.pid = w
    BY <2>2 DEF Event
  <2>4. p \in Process /\ p.pc = "preparing"
    BY <2>2 DEF Process, Pc, Stage, AgentStatus, Pending
  <2>5. At(w, "idle") /\ Emit(<<e>>) /\ UNCHANGED <<call, process>> /\ checkpoint'.pid = w /\ checkpoint'.alive
    BY <1>3, <2>1 DEF Take, ByWorker, OwnershipTypeOK, ProcessesTypeOK
  <2>6. Moved(w, p)
    <3> HIDE DEF e
    <3> QED  BY <2>1, <2>4 DEF Moved
  <2>7. Serving(w)
    BY <2>5 DEF Serving, At
  <2> HIDE DEF e, p
  <2>8. p.pc \in Stage \cup Rest
    BY <2>4 DEF Stage
  <2> QED  BY <2>3, <2>4, <2>5, <2>6, <2>7, <2>8, SpeaksOnce
<1>4. CASE Prepare(w)
  <2> DEFINE p == [workers[w] EXCEPT !.pc = IF stop THEN "ending" ELSE "stage",
                                     !.tasks = IF stop THEN Asleep.tasks ELSE @]
             e == [kind |-> "prepared"]
  <2>1. workers[w].pc \in Stage /\ Serving(w) /\ Bound(w) /\ checkpoint.pid = w /\ checkpoint.alive
    BY <1>4, Serves DEF Prepare, At, Stage
  <2>2. p \in Process /\ p.pc \in Stage
    <3>1. workers[w] \in Process /\ Asleep.tasks \in [Agents -> AgentStatus]
      BY Serves DEF Asleep, AgentStatus
    <3> QED  BY <3>1 DEF Process, Pc, Stage
  <2>3. Moved(w, p)
    <3>1. workers' = [workers EXCEPT ![w] = p]
      BY <1>4 DEF Prepare, OwnershipTypeOK, ProcessesTypeOK
    <3> HIDE DEF p
    <3> QED  BY <2>2, <3>1 DEF Moved
  <2>4. UNCHANGED <<call, process, checkpoint>>
    BY <1>4 DEF Prepare, ByWorker, files
  <2>5. e \in Event /\ e.kind = "prepared"
    BY DEF Event
  <2>6. Emit(<<e>>) \/ Emit(<<>>)
    BY <1>4 DEF Prepare
  <2> HIDE DEF p, e
  <2>7. CASE Emit(<<e>>)
    BY <2>1, <2>2, <2>3, <2>4, <2>5, <2>7, SpeaksOnce
  <2>8. CASE Emit(<<>>)
    <3>1. tail \o <<>> = tail
      BY DEF OwnershipTypeOK, ViewsTypeOK
    <3>2. UNCHANGED <<record, disk, tail, seen>>
      BY <2>8, <3>1 DEF Emit
    <3>3. p.pc # "booting"
      BY <2>2 DEF Stage
    <3> QED  BY <2>1, <2>2, <2>3, <2>4, <3>2, <3>3, SpeaksNot
  <2> QED  BY <2>6, <2>7, <2>8
<1>5. CASE CloseStage(w)
  <2>1. Serving(w) /\ checkpoint.pid = w /\ checkpoint.alive
    BY <1>5, Serves DEF CloseStage, At, Stage, Rest
  <2>2. PICK p : Moved(w, p) /\ p.pc = "ending"
    BY <1>5, Serves DEF CloseStage, Pc, Stage, Rest
  <2>3. /\ UNCHANGED <<record, disk, tail, seen, call, process>>
        /\ checkpoint'.pid = checkpoint.pid /\ checkpoint'.alive = checkpoint.alive
    BY <1>5 DEF CloseStage, ByWorker, OwnershipTypeOK, ProcessesTypeOK
  <2>4. p.pc \in {"booting"} \cup Stage => Bound(w)
    BY <1>5, <2>2, Serves DEF CloseStage, At, Stage
  <2>5. p.pc \in Stage \cup Rest /\ p.pc # "booting"
    BY <2>2 DEF Stage, Rest
  <2> QED  BY <2>1, <2>2, <2>3, <2>4, <2>5, SpeaksNot
<1>6. CASE ReportFailure(w)
  <2> DEFINE e == [kind |-> "failed"]
  <2>1. Serving(w) /\ Bound(w) /\ checkpoint.pid = w /\ checkpoint.alive
    BY <1>6, Serves DEF ReportFailure, At, Stage
  <2>2. PICK p : Moved(w, p) /\ p.pc = "deactivating"
    BY <1>6, Serves DEF ReportFailure, Pc, Stage, Rest
  <2>3. e \in Event /\ e.kind = "failed"
    BY DEF Event
  <2>4. Emit(<<e>>) /\ UNCHANGED <<call, process, checkpoint>>
    BY <1>6 DEF ReportFailure, ByWorker, files
  <2>5. p.pc \in Stage \cup Rest
    BY <2>2 DEF Stage, Rest
  <2> HIDE DEF e
  <2> QED  BY <2>1, <2>2, <2>3, <2>4, <2>5, SpeaksOnce
<1>7. CASE Deactivate(w)
  <2>1. Serving(w) /\ checkpoint.pid = w /\ checkpoint.alive
    BY <1>7, Serves DEF Deactivate, At, Stage, Rest
  <2>2. PICK p : Moved(w, p) /\ p.pc = "finishing"
    BY <1>7, Serves DEF Deactivate, Pc, Stage, Rest
  <2>3. /\ UNCHANGED <<record, disk, tail, seen, call, process>>
        /\ checkpoint'.pid = checkpoint.pid /\ checkpoint'.alive = checkpoint.alive
    BY <1>7 DEF Deactivate, ByWorker, OwnershipTypeOK, ProcessesTypeOK
  <2>4. p.pc \in {"booting"} \cup Stage => Bound(w)
    BY <1>7, <2>2, Serves DEF Deactivate, At, Stage
  <2>5. p.pc \in Stage \cup Rest /\ p.pc # "booting"
    BY <2>2 DEF Stage, Rest
  <2> QED  BY <2>1, <2>2, <2>3, <2>4, <2>5, SpeaksNot
<1>8. CASE Finish(w)
  <2> DEFINE e == [kind |-> "operation_finished"]
  <2>1. Serving(w) /\ Bound(w) /\ checkpoint.pid = w /\ checkpoint.alive
    BY <1>8, Serves DEF Finish, At, Stage
  <2>2. PICK p : Moved(w, p) /\ p.pc = "closing"
    BY <1>8, Serves DEF Finish, Pc, Stage, Rest
  <2>3. e \in Event /\ e.kind = "operation_finished"
    BY DEF Event
  <2>4. Emit(<<e>>) /\ UNCHANGED <<call, process, checkpoint>>
    BY <1>8 DEF Finish, ByWorker, files
  <2>5. p.pc \in Stage \cup Rest /\ p.pc \notin Stage
    BY <2>2 DEF Stage, Rest
  <2> HIDE DEF e
  <2> QED  BY <2>1, <2>2, <2>3, <2>4, <2>5, SpeaksOnce
<1>9. CASE WriteCheckpoint(w)
  <2>1. Serving(w) /\ checkpoint.pid = w /\ checkpoint.alive
    BY <1>9, Serves DEF WriteCheckpoint, At, Stage, Rest
  <2>2. PICK p : Moved(w, p) /\ p.pc = "unlinking"
    BY <1>9, Serves DEF WriteCheckpoint, Pc, Stage, Rest
  <2>3. /\ UNCHANGED <<record, disk, tail, seen, call, process>>
        /\ checkpoint'.pid = checkpoint.pid /\ checkpoint'.alive = checkpoint.alive
    BY <1>9 DEF WriteCheckpoint, ByWorker, OwnershipTypeOK, ProcessesTypeOK
  <2>4. p.pc \in {"booting"} \cup Stage => Bound(w)
    BY <1>9, <2>2, Serves DEF WriteCheckpoint, At, Stage
  <2>5. p.pc \in Stage \cup Rest /\ p.pc # "booting"
    BY <2>2 DEF Stage, Rest
  <2> QED  BY <2>1, <2>2, <2>3, <2>4, <2>5, SpeaksNot
<1>10. CASE Leave(w)
  BY <1>10, LeaveOwns
<1>11. CASE Left(w)
  <2>1. checkpoint.pid = w
    <3>1. checkpoint.pid # w => "checkpoint" \in slips'
      BY <1>11 DEF Left, Slip
    <3> QED  BY <3>1 DEF Kept
  <2>2. /\ Go(w, "dead") /\ At(w, "leaving") /\ UNCHANGED <<record, disk, tail, seen, call, process>>
        /\ checkpoint'.pid = checkpoint.pid /\ ~checkpoint'.alive
    BY <1>11 DEF Left, ByWorker, OwnershipTypeOK, ProcessesTypeOK
  <2>3. workers[w].pc # "none"
    BY <2>2 DEF At
  <2> QED  BY <2>1, <2>2, <2>3, WorkerEnds
<1>12. CASE ReportEnd(w)
  <2> DEFINE e == [kind |-> "ended", cancelled |-> stop]
             p == [workers[w] EXCEPT !.pc = "deactivating",
                     !.ok = ~stop /\ \/ workers[w].op = "batch"
                                     \/ \E a \in Agents : workers[w].tasks[a] = "success"]
  <2>1. Serving(w) /\ Bound(w) /\ checkpoint.pid = w /\ checkpoint.alive
    BY <1>12, Serves DEF ReportEnd, At, Stage
  <2>2. p \in Process /\ p.pc = "deactivating"
    <3>1. workers[w] \in Process
      BY Serves
    <3>2. (~stop /\ \/ workers[w].op = "batch"
                    \/ \E a \in Agents : workers[w].tasks[a] = "success") \in BOOLEAN
      BY DEF OwnershipTypeOK, FilesTypeOK
    <3> QED  BY <3>1, <3>2 DEF Process, Pc, Stage
  <2>3. Moved(w, p)
    <3>1. workers' = [workers EXCEPT ![w] = p]
      BY <1>12 DEF ReportEnd, OwnershipTypeOK, ProcessesTypeOK
    <3> HIDE DEF p
    <3> QED  BY <2>2, <3>1 DEF Moved
  <2>4. e \in Event /\ e.kind = "ended"
    BY DEF Event, OwnershipTypeOK, FilesTypeOK
  <2>5. Emit(<<e>>) /\ UNCHANGED <<call, process, checkpoint>>
    BY <1>12 DEF ReportEnd, ByWorker, files
  <2> HIDE DEF e, p
  <2>6. p.pc \in Stage \cup Rest
    BY <2>2 DEF Stage
  <2> QED  BY <2>1, <2>2, <2>3, <2>4, <2>5, <2>6, SpeaksOnce
<1>13. CASE Drain(w)
  <2> DEFINE p == [workers[w] EXCEPT !.tasks =
                     [a \in Agents |-> IF a \in window.pending THEN "queued" ELSE @[a]]]
  <2>1. Serving(w) /\ Bound(w) /\ checkpoint.pid = w /\ checkpoint.alive
    BY <1>13, Serves DEF Drain, At, Stage
  <2>2. p \in Process /\ p.pc = "stage"
    <3>1. workers[w] \in Process /\ workers[w].pc = "stage" /\ workers[w].tasks \in [Agents -> AgentStatus]
      BY <1>13, Serves DEF Process, Drain, At
    <3>2. [a \in Agents |-> IF a \in window.pending THEN "queued" ELSE workers[w].tasks[a]]
            \in [Agents -> AgentStatus]
      BY <3>1 DEF AgentStatus, Pending
    <3> QED  BY <3>1, <3>2 DEF Process
  <2>3. Moved(w, p)
    <3>1. workers' = [workers EXCEPT ![w] = p]
      BY <1>13 DEF Drain, OwnershipTypeOK, ProcessesTypeOK
    <3> HIDE DEF p
    <3> QED  BY <2>2, <3>1 DEF Moved
  <2>4. UNCHANGED <<record, disk, tail, seen, call, process, checkpoint>>
    BY <1>13 DEF Drain, ByWorker
  <2> HIDE DEF p
  <2>5. p.pc \in Stage \cup Rest /\ p.pc # "booting"
    BY <2>2 DEF Stage
  <2> QED  BY <2>1, <2>2, <2>3, <2>4, <2>5, SpeaksNot
<1>14. CASE Unlink(w)
  <2> DEFINE p == [Asleep EXCEPT !.pc = "idle"]
  <2>1. Serving(w) /\ checkpoint.pid = w /\ checkpoint.alive
    BY <1>14, Serves DEF Unlink, At, Rest
  <2>2. p \in Process /\ p.pc = "idle"
    BY DEF Process, Pc, Rest, Asleep, AgentStatus
  <2>3. Moved(w, p)
    <3>1. workers' = [workers EXCEPT ![w] = p]
      BY <1>14 DEF Unlink
    <3> HIDE DEF p
    <3> QED  BY <2>2, <3>1 DEF Moved
  <2>4. UNCHANGED <<record, disk, tail, seen, call, process, checkpoint>>
    BY <1>14 DEF Unlink, ByWorker
  <2> HIDE DEF p
  <2>5. p.pc \in Rest /\ p.pc # "booting" /\ p.pc \notin {"booting"} \cup Stage
    BY <2>2 DEF Stage, Rest
  <2> QED  BY <2>1, <2>2, <2>3, <2>4, <2>5, SpeaksNot
<1>15. ASSUME NEW a \in Agents, StartAgent(w, a) \/ FinishAgent(w, a) \/ HaltAgent(w, a)
       PROVE  Ownership'
  <2>1. PICK s \in AgentStatus : /\ Emit(<<Agent(a, s)>>)
                                 /\ workers' = [workers EXCEPT ![w].tasks[a] = s]
    BY <1>15 DEF StartAgent, FinishAgent, HaltAgent, AgentEnds, AgentStatus, Pending, Terminal
  <2> DEFINE p == [workers[w] EXCEPT !.tasks = [@ EXCEPT ![a] = s]]
             e == Agent(a, s)
  <2>2. At(w, "stage") /\ UNCHANGED <<checkpoint, process, call>>
    BY <1>15 DEF StartAgent, FinishAgent, HaltAgent, AgentEnds, ByWorker, files
  <2>3. Serving(w) /\ Bound(w) /\ checkpoint.pid = w /\ checkpoint.alive
    BY <2>2, Serves DEF At, Stage
  <2>4. Moved(w, p)
    BY <2>1, ProcessStep DEF OwnershipTypeOK
  <2>5. p.pc = "stage"
    BY <2>2, Serves DEF Process, At
  <2>6. e \in Event /\ e.kind = "agent"
    BY DEF Event, Agent
  <2>7. Emit(<<e>>)
    BY <2>1
  <2> HIDE DEF p, e
  <2>8. p.pc \in Stage \cup Rest
    BY <2>5 DEF Stage
  <2> QED  BY <2>2, <2>3, <2>4, <2>6, <2>7, <2>8, SpeaksOnce
<1> QED  BY Worker(w), <1>1, <1>2, <1>3, <1>4, <1>5, <1>6, <1>7, <1>8, <1>9, <1>10, <1>11, <1>12, <1>13,
            <1>14, <1>15 DEF Worker

\* It is a matter of these variables alone.
LEMMA OwnershipStays ==
  ASSUME Ownership, UNCHANGED <<record, disk, tail, seen, checkpoint, workers, process, call>>
  PROVE  Ownership'
<1>1. /\ Refresh(record)' = Refresh(record) /\ Applied(disk, tail)' = Applied(disk, tail) /\ Unread' = Unread
      /\ InBatch' = InBatch /\ Refresh(Back)' = Refresh(Back)
  BY Kept0 DEF InBatch, Back, Refresh
<1>2. \A x \in Workers : /\ Holder(x)' = Holder(x) /\ Bound(x)' = Bound(x) /\ Waits(x)' = Waits(x)
                         /\ Serving(x)' = Serving(x)
  BY DEF Holder, Bound, Waits, Serving
<1>3. RecordKnows'
  BY <1>1, <1>2 DEF Ownership, RecordKnows, Names, Knows
<1>4. DiskKnows'
  BY <1>1, <1>2 DEF Ownership, DiskKnows, Names, Knows
<1>5. BackKnows'
  BY <1>1, <1>2 DEF Ownership, BackKnows, Knows
<1>6. OneHolder'
  BY <1>2 DEF Ownership, OneHolder
<1>7. Unheard'
  BY <1>2 DEF Ownership, Unheard
<1>8. CallFits'
  BY <1>1, <1>2 DEF Ownership, CallFits, NoHolder
<1> QED  BY <1>3, <1>4, <1>5, <1>6, <1>7, <1>8 DEF Ownership

\* A manager that starts again reads the record from disk, and a worker that waits has
\* lost its parent.
LEMMA RestartReads ==
  ASSUME OwnershipTypeOK, Restart
  PROVE  /\ call'.pc = "loading" /\ process' = 0 /\ record' = disk /\ seen' = 0
         /\ UNCHANGED <<disk, tail, checkpoint>>
         /\ tail \in Seq(Event) /\ Unread' = tail
         /\ Refresh(record)' = Applied(disk, tail) /\ Applied(disk, tail)' = Applied(disk, tail)
         /\ \A x \in Workers :
              /\ workers'[x] = workers[x] \/ (workers'[x].pc = "orphaned" /\ workers[x].pc = "awaiting")
              /\ Waits(x)' = Waits(x) /\ Serving(x)' = Serving(x) /\ Bound(x)' = Bound(x)
              /\ workers'[x].pc \in {"none", "booting"} => workers'[x] = workers[x]
              /\ workers'[x].id = workers[x].id
<1>0. /\ call'.pc = "loading" /\ process' = 0 /\ record' = disk /\ seen' = 0
      /\ workers' = [w \in Workers |-> IF At(w, "awaiting") THEN [workers[w] EXCEPT !.pc = "orphaned"]
                                       ELSE workers[w]]
      /\ UNCHANGED <<disk, tail, checkpoint>>
  BY DEF Restart, files
<1>1. /\ tail \in Seq(Event) /\ Unread' = tail
      /\ Refresh(record)' = Applied(disk, tail) /\ Applied(disk, tail)' = Applied(disk, tail)
  <2>1. tail \in Seq(Event)
    BY DEF OwnershipTypeOK, ViewsTypeOK
  <2>2. Unread' = tail
    BY <1>0, <2>1, UnreadEnds DEF Unread
  <2> QED  BY <1>0, <2>1, <2>2 DEF Refresh
<1>2. ASSUME NEW x \in Workers
      PROVE  /\ workers'[x] = workers[x] \/ (workers'[x].pc = "orphaned" /\ workers[x].pc = "awaiting")
             /\ Waits(x)' = Waits(x) /\ Serving(x)' = Serving(x) /\ Bound(x)' = Bound(x)
             /\ workers'[x].pc \in {"none", "booting"} => workers'[x] = workers[x]
             /\ workers'[x].id = workers[x].id
  <2>1. workers[x] \in Process
    BY DEF OwnershipTypeOK, ProcessesTypeOK
  <2>2. /\ workers'[x] = workers[x] \/ (workers'[x].pc = "orphaned" /\ workers[x].pc = "awaiting")
        /\ workers'[x].id = workers[x].id
    <3> DEFINE o == [workers[x] EXCEPT !.pc = "orphaned"]
    <3>1. o.pc = "orphaned" /\ o.id = workers[x].id
      BY <2>1 DEF Process
    <3>2. workers'[x] = IF At(x, "awaiting") THEN o ELSE workers[x]
      BY <1>0
    <3> HIDE DEF o
    <3> QED  BY <3>1, <3>2 DEF At
  <2> QED  BY <2>2 DEF Waits, Serving, Bound, Stage, Rest
<1> QED  BY <1>0, <1>1, <1>2

\* It knows what its record on disk and the events say.
LEMMA RestartOwns ==
  ASSUME OwnershipTypeOK, Ownership, Restart
  PROVE  Ownership'
<1>0. /\ call'.pc = "loading" /\ process' = 0 /\ record' = disk /\ seen' = 0
      /\ UNCHANGED <<disk, tail, checkpoint>>
  BY RestartReads
<1>1. /\ tail \in Seq(Event) /\ Unread' = tail
      /\ Refresh(record)' = Applied(disk, tail) /\ Applied(disk, tail)' = Applied(disk, tail)
  BY RestartReads
<1>2. ASSUME NEW x \in Workers
      PROVE  /\ workers'[x] = workers[x] \/ (workers'[x].pc = "orphaned" /\ workers[x].pc = "awaiting")
             /\ Waits(x)' = Waits(x) /\ Serving(x)' = Serving(x) /\ Bound(x)' = Bound(x)
             /\ workers'[x].pc \in {"none", "booting"} => workers'[x] = workers[x]
  BY RestartReads
<1>3. ~ InBatch'
  BY <1>0 DEF InBatch
<1>4. ASSUME NEW x \in Workers, Holder(x)'
      PROVE  Holder(x) /\ call.pc # "spawned"
  <2>1. Holder(x) /\ (Serving(x) \/ disk.pid = x)
    BY <1>0, <1>2, <1>4 DEF Holder
  <2>2. ASSUME call.pc = "spawned" PROVE FALSE
    <3>1. record.pid = x /\ At(x, "awaiting") /\ disk.pid # record.pid
      BY <2>1, <2>2, SpawnedQuiet DEF Ownership, CallFits
    <3> QED  BY <2>1, <3>1 DEF Serving, At
  <2> QED  BY <2>1, <2>2
<1>5. ASSUME NEW x \in Workers, Holder(x)'
      PROVE  Names(disk, x) /\ Knows(Applied(disk, tail), x)
  BY <1>4, <1>5 DEF Ownership, DiskKnows
<1>6. RecordKnows' /\ DiskKnows' /\ BackKnows'
  <2>1. ASSUME NEW x \in Workers, Holder(x)'
        PROVE  /\ Names(record, x)' /\ Knows(Refresh(record), x)' /\ process' \in {x, 0}
               /\ Names(disk, x)' /\ Knows(Applied(disk, tail), x)' /\ seen' = 0
    BY <1>0, <1>1, <1>2, <1>5, <2>1 DEF Names, Knows
  <2> QED  BY <1>3, <2>1 DEF RecordKnows, DiskKnows, BackKnows
<1>7. OneHolder'
  BY <1>4 DEF Ownership, OneHolder
<1>8. Unheard'
  BY <1>0, <1>2 DEF Ownership, Unheard
<1>9. CallFits'
  BY <1>0, <1>3 DEF Ownership, CallFits
<1> QED  BY <1>6, <1>7, <1>8, <1>9 DEF Ownership

\* Crashes and signals leave one worker to the run.
LEMMA IncidentOwns ==
  ASSUME WorkerAssumption, OwnershipTypeOK, Ownership, Incident
  PROVE  Ownership'
<1>1. CASE Restart
  BY <1>1, RestartOwns
<1>2. ASSUME NEW w \in Workers, Terminate(w) PROVE Ownership'
  BY <1>2, OwnershipStays DEF Terminate
<1>3. ASSUME NEW w \in Workers, Die(w) PROVE Ownership'
  <2>1. /\ Go(w, "dead") /\ workers[w].pc # "none" /\ checkpoint' = checkpoint
        /\ UNCHANGED <<record, disk, tail, seen, call, process>>
    BY <1>3 DEF Die, Alive, files
  <2> QED  BY <2>1, WorkerEnds
<1>4. ASSUME NEW w \in Workers, NEW a \in Agents, StageFails(w, a) PROVE Ownership'
  <2>4. PICK es \in Seq(Event) : Emit(es) /\ \A n \in 1..Len(es) : es[n].kind = "agent"
    BY <1>4, FailureEvents
  <2>6. At(w, "stage") /\ Go(w, "failing") /\ UNCHANGED <<checkpoint, process, call>>
    BY <1>4 DEF StageFails
  <2>7. Serving(w) /\ Bound(w) /\ checkpoint.pid = w /\ checkpoint.alive
    BY <2>6, Serves DEF At, Stage
  <2>8. PICK p : Moved(w, p) /\ p.pc = "failing"
    BY <2>6, Serves DEF Pc, Stage
  <2>9. ASSUME NEW rec \in Record, Knows(rec, w)
        PROVE  KnowsAs(Applied(rec, es), w, p.pc \in {"booting"} \cup Stage)
    <3>1. LET new == Applied(rec, es) IN
          new.pid = rec.pid /\ new.op = rec.op /\ new.state = rec.state /\ new.status = rec.status
      BY <2>4, AgentEvents
    <3> QED  BY <2>7, <2>9, <3>1 DEF Knows, KnowsAs
  <2>10. p.pc \in {"booting"} \cup Stage \cup Rest /\ p.pc # "booting"
    BY <2>8 DEF Stage
  <2>11. \A n \in 1..Len(es) :
            es[n].kind \in {"worker_started", "operation_started"} => es[n].pid = w
    BY <2>4
  <2> QED  BY <2>4, <2>6, <2>7, <2>8, <2>9, <2>10, <2>11, WorkerSpeaks
<1> QED  BY <1>1, <1>2, <1>3, <1>4 DEF Incident

\* What becomes of a record whose worker is looked for.
LEMMA DetectFields ==
  ASSUME NEW rec \in Record
  PROVE  LET new == Detect(rec) IN
         /\ Owned(rec) => new = rec
         /\ ~Owned(rec) /\ ResultsKept(rec) =>
              new.pid = 0 /\ new.op = "" /\ new.state = "stopped" /\ new.status = rec.status
         /\ ~Owned(rec) /\ ~ResultsKept(rec) /\ rec.state \in {"crashed", "stopped"} => new = rec
         /\ ~Owned(rec) /\ ~ResultsKept(rec) /\ rec.state \notin {"crashed", "stopped"} =>
              /\ new.pid = 0 /\ new.op = "" /\ new.state = "crashed"
              /\ new.status = IF rec.status \in ActiveStatus THEN "interrupted" ELSE rec.status
<1>1. CASE Owned(rec)
  BY <1>1 DEF Detect
<1>2. CASE ~Owned(rec) /\ ResultsKept(rec)
  BY <1>2 DEF Detect, NoOperation, Record
<1>3. CASE ~Owned(rec) /\ ~ResultsKept(rec) /\ rec.state \in {"crashed", "stopped"}
  BY <1>3 DEF Detect
<1>4. CASE ~Owned(rec) /\ ~ResultsKept(rec) /\ rec.state \notin {"crashed", "stopped"}
  <2> DEFINE agents == IF rec.status \in ActiveStatus
                       THEN [a \in Agents |-> IF rec.agents[a] \in Pending THEN "interrupted" ELSE rec.agents[a]]
                       ELSE rec.agents
  <2>1. Detect(rec) =
          [NoOperation(rec) EXCEPT
            !.pid = 0, !.state = "crashed",
            !.status = IF rec.status \in ActiveStatus THEN "interrupted" ELSE rec.status,
            !.agents = agents]
    BY <1>4 DEF Detect, NoOperation, Record
  <2> HIDE DEF agents
  <2> QED  BY <1>4, <2>1 DEF NoOperation, Record
<1> QED  BY <1>1, <1>2, <1>3, <1>4

\* Looking for a worker that serves the run loses sight of it only at rest.
LEMMA LookKnows ==
  ASSUME NEW rec \in Record, NEW w \in Workers, Holder(w), Knows(rec, w)
  PROVE  Knows(Detect(rec), w) /\ Knows(Maintained(Detect(rec)), w)
<1>0. w # 0 /\ Alive(w)
  BY DEF Workers, Holder, Serving, Waits, Alive
<1>1. rec.pid \in {w, 0} /\ (rec.pid = w => Owned(rec))
  BY <1>0 DEF Knows, KnowsAs, Owned
<1>2. CASE Bound(w)
  <2>1. rec.pid = w /\ rec.op # ""
    BY <1>2 DEF Knows, KnowsAs
  <2>2. Owned(rec) /\ Active(rec)
    BY <1>1, <2>1 DEF Active
  <2>3. Detect(rec) = rec /\ Maintained(rec) = rec
    BY <2>2, DetectFields DEF Maintained
  <2> QED  BY <2>3
<1>3. CASE ~Bound(w)
  <2>1. KnowsAs(rec, w, FALSE)
    BY DEF Knows, KnowsAs
  <2>2. KnowsAs(Detect(rec), w, FALSE)
    <3>1. CASE Owned(rec)
      BY <2>1, <3>1, DetectFields
    <3>2. CASE ~Owned(rec) /\ ResultsKept(rec)
      BY <1>1, <2>1, <3>2 DEF KnowsAs, ResultsKept
    <3>3. CASE ~Owned(rec) /\ ~ResultsKept(rec) /\ rec.state \in {"crashed", "stopped"}
      BY <2>1, <3>3, DetectFields
    <3>4. CASE ~Owned(rec) /\ ~ResultsKept(rec) /\ rec.state \notin {"crashed", "stopped"}
      <4>1. rec.status # "completed"
        BY <1>1, <2>1, <3>4 DEF KnowsAs
      <4>2. /\ Detect(rec).pid = 0 /\ Detect(rec).state = "crashed" /\ Detect(rec).status # "completed"
        BY <3>4, <4>1, DetectFields
      <4> QED  BY <4>2 DEF KnowsAs
    <3> QED  BY <3>1, <3>2, <3>3, <3>4
  <2>3. KnowsAs(Maintained(Detect(rec)), w, FALSE)
    BY <2>2, DetectType DEF Maintained, KnowsAs, Record
  <2> QED  BY <1>3, <2>2, <2>3 DEF Knows, KnowsAs
<1> QED  BY <1>2, <1>3

\* Who has not been heard of is named only where the record named it.
LEMMA NotNamed ==
  ASSUME OwnershipTypeOK, Ownership, NEW rec \in Record, rec.pid = record.pid, NEW w \in Workers,
         workers[w].pc = "none" \/ Waits(w), Refresh(rec).pid = w
  PROVE  record.pid = w /\ Waits(w) /\ Holder(w)
<1>1. \A n \in 1..Len(Unread) :
         Unread[n].kind \in {"worker_started", "operation_started"} => Unread[n].pid # w
  <2>1. tail \in Seq(Event) /\ seen \in 0..Len(tail)
    BY DEF OwnershipTypeOK, ViewsTypeOK
  <2>2. \A i \in DOMAIN tail :
          tail[i].kind \in {"worker_started", "operation_started"} => tail[i].pid # w
    BY DEF Ownership, Unheard
  <2>3. \A n \in 1..Len(Unread) : seen + n \in DOMAIN tail /\ Unread[n] = tail[seen + n]
    BY <2>1 DEF Unread
  <2> QED  BY <2>2, <2>3
<1>2. record.pid = w
  <2>1. Unread \in Seq(Event)
    BY ReadType
  <2> QED  BY <1>1, <2>1, PidFrom DEF Refresh
<1>3. Waits(w) /\ (disk.pid = w \/ call.pc = "spawned")
  BY <1>2 DEF Ownership, Unheard
<1> QED  BY <1>2, <1>3 DEF Holder

\* The manager reads everything and saves what it makes of it.
LEMMA ManagerSaves ==
  ASSUME OwnershipTypeOK, Ownership, NEW saved \in Record, NEW kept \in Record, SaveAnd(saved, kept),
         UNCHANGED <<workers, checkpoint>>, process' \in {process, 0}, call.pc # "spawned", call'.pc # "spawned",
         saved.pid = kept.pid,
         \A w \in Workers : (workers[w].pc = "none" \/ Waits(w)) /\ saved.pid = w => Waits(w) /\ Holder(w),
         \A w \in Workers : Holder(w) => Knows(saved, w) /\ Knows(kept, w)
  PROVE  /\ \A w \in Workers : (Holder(w)' => Holder(w)) /\ Bound(w)' = Bound(w)
         /\ Unread' = <<>> /\ (checkpoint'.alive => checkpoint'.pid # 0)
         /\ RecordKnows' /\ DiskKnows' /\ OneHolder' /\ Unheard'
         /\ (~InBatch' => BackKnows')
<1>1. /\ record' = kept /\ disk' = saved /\ Refresh(record)' = kept /\ Applied(disk, tail)' = saved
      /\ Unread' = <<>> /\ seen' = 0 /\ tail' = <<>>
  BY Saved
<1>2. \A w \in Workers : /\ Bound(w)' = Bound(w) /\ Waits(w)' = Waits(w) /\ Serving(w)' = Serving(w)
  BY DEF Bound, Waits, Serving
<1>3. \A w \in Workers : Holder(w)' => Holder(w)
  BY <1>1, <1>2 DEF Holder
<1>4. \A w \in Workers : Holder(w) => process \in {w, 0}
  BY DEF Ownership, RecordKnows
<1>5. \A w \in Workers : Holder(w)' =>
         /\ Names(record, w)' /\ Knows(Refresh(record), w)' /\ process' \in {w, 0}
         /\ Names(disk, w)' /\ Knows(Applied(disk, tail), w)'
  BY <1>1, <1>2, <1>3, <1>4 DEF Names, Knows, KnowsAs
<1>6. RecordKnows' /\ DiskKnows'
  BY <1>1, <1>5 DEF RecordKnows, DiskKnows
<1>7. OneHolder'
  BY <1>3 DEF Ownership, OneHolder
<1>8. Unheard'
  <2>1. ASSUME NEW x \in Workers
        PROVE  /\ workers[x].pc = "none" => kept.pid # x /\ saved.pid # x
               /\ workers[x].pc \in {"none", "awaiting", "orphaned", "booting"} => checkpoint.pid # x
               /\ Serving(x) /\ workers[x].pc # "booting" => checkpoint.pid = x /\ checkpoint.alive
    BY DEF Waits, Ownership, Unheard
  <2> QED  BY <1>1, <1>2, <2>1 DEF Unheard
<1>9. ~InBatch' => BackKnows'
  BY DEF BackKnows
<1>10. checkpoint'.alive => checkpoint'.pid # 0
  BY DEF Ownership, CallFits
<1> QED  BY <1>1, <1>2, <1>3, <1>6, <1>7, <1>8, <1>9, <1>10

\* What the manager makes of what it reads knows the worker as the record did.
LEMMA ReadKnows ==
  ASSUME OwnershipTypeOK, Ownership,
         NEW rec \in {Refresh(record), Required, Maintained(Required)}
  PROVE  /\ rec \in Record
         /\ \A w \in Workers : (workers[w].pc = "none" \/ Waits(w)) /\ rec.pid = w => Waits(w) /\ Holder(w)
         /\ \A w \in Workers : Holder(w) => Knows(rec, w)
<1> DEFINE R == Refresh(record)
<1>1. R \in Record /\ Required \in Record /\ Maintained(Required) \in Record /\ Required = Detect(R)
  BY ReadType DEF Required
<1>2. \A w \in Workers : (workers[w].pc = "none" \/ Waits(w)) /\ R.pid = w => Waits(w) /\ Holder(w)
  BY NotNamed DEF OwnershipTypeOK, ViewsTypeOK
<1>3. \A w \in Workers : Holder(w) => Knows(R, w)
  BY DEF Ownership, RecordKnows
<1> HIDE DEF R
<1>4. Required.pid \in {R.pid, 0}
  BY <1>1, DetectFields
<1>5. Maintained(Required).pid \in {R.pid, 0}
  BY <1>1, <1>4 DEF Maintained, Record
<1>6. rec.pid \in {R.pid, 0} /\ rec \in Record
  BY <1>1, <1>4, <1>5 DEF R
<1>7. \A w \in Workers : Holder(w) => Knows(rec, w)
  BY <1>1, <1>3, LookKnows DEF R
<1>8. 0 \notin Workers
  BY DEF Workers
<1> QED  BY <1>2, <1>6, <1>7, <1>8

\* A call that is nothing of the sort has nothing to fit.
LEMMA CallRests ==
  ASSUME Unread' = <<>>, checkpoint'.alive => checkpoint'.pid # 0,
         call'.pc \in {"none", "noting", "loading"} \/ (call'.pc = "begun" /\ call'.kind \notin {"rescue", "resume"})
  PROVE  CallFits' /\ ~InBatch'
  BY DEF CallFits, InBatch

\* Reading, listing and stopping leave one worker to the run.
LEMMA LooksOwn ==
  ASSUME OwnershipTypeOK, Ownership, Look \/ Load \/ Stop \/ Waited \/ Note
  PROVE  Ownership'
<1>1. CASE Look
  <2> DEFINE saved == Maintained(Required)  kept == Maintained(Required)
  <2>1. /\ saved \in Record /\ kept \in Record /\ saved.pid = kept.pid
        /\ \A w \in Workers : (workers[w].pc = "none" \/ Waits(w)) /\ saved.pid = w => Waits(w) /\ Holder(w)
        /\ \A w \in Workers : Holder(w) => Knows(saved, w) /\ Knows(kept, w)
    BY ReadKnows
  <2>2. SaveAnd(saved, kept) /\ UNCHANGED <<workers, checkpoint, process>>
    BY <1>1 DEF Look, SaveAll, ByManager, files, Required
  <2>3. /\ call.pc # "spawned"
        /\ call'.pc \in {"none", "noting", "loading"}
    BY <1>1 DEF Look, Idle
  <2> HIDE DEF saved, kept
  <2>4. /\ Unread' = <<>> /\ (checkpoint'.alive => checkpoint'.pid # 0)
        /\ RecordKnows' /\ DiskKnows' /\ OneHolder' /\ Unheard' /\ (~InBatch' => BackKnows')
    BY <2>1, <2>2, <2>3, ManagerSaves
  <2> QED  BY <2>3, <2>4, CallRests DEF Ownership
<1>2. CASE Load
  <2> DEFINE saved == Maintained(Required)  kept == Maintained(Required)
  <2>1. /\ saved \in Record /\ kept \in Record /\ saved.pid = kept.pid
        /\ \A w \in Workers : (workers[w].pc = "none" \/ Waits(w)) /\ saved.pid = w => Waits(w) /\ Holder(w)
        /\ \A w \in Workers : Holder(w) => Knows(saved, w) /\ Knows(kept, w)
    BY ReadKnows
  <2>2. SaveAnd(saved, kept) /\ UNCHANGED <<workers, checkpoint, process>>
    BY <1>2 DEF Load, SaveAll, ByManager, files, Required
  <2>3. /\ call.pc # "spawned"
        /\ call'.pc \in {"none", "noting", "loading"}
    BY <1>2 DEF Load, Idle
  <2> HIDE DEF saved, kept
  <2>4. /\ Unread' = <<>> /\ (checkpoint'.alive => checkpoint'.pid # 0)
        /\ RecordKnows' /\ DiskKnows' /\ OneHolder' /\ Unheard' /\ (~InBatch' => BackKnows')
    BY <2>1, <2>2, <2>3, ManagerSaves
  <2> QED  BY <2>3, <2>4, CallRests DEF Ownership
<1>3. CASE Stop
  <2> DEFINE saved == Required  kept == [Required EXCEPT !.status = "stopping"]
  <2>1. /\ saved \in Record /\ kept \in Record /\ saved.pid = kept.pid
        /\ \A w \in Workers : (workers[w].pc = "none" \/ Waits(w)) /\ saved.pid = w => Waits(w) /\ Holder(w)
        /\ \A w \in Workers : Holder(w) => Knows(saved, w) /\ Knows(kept, w)
    <3>1. /\ Required \in Record
          /\ \A w \in Workers : (workers[w].pc = "none" \/ Waits(w)) /\ Required.pid = w => Waits(w) /\ Holder(w)
          /\ \A w \in Workers : Holder(w) => Knows(Required, w)
      BY ReadKnows
    <3>2. kept \in Record /\ kept.pid = Required.pid /\ \A w \in Workers : Knows(Required, w) => Knows(kept, w)
      BY <3>1 DEF Knows, KnowsAs, Record, RunStatus, ActiveStatus
    <3> QED  BY <3>1, <3>2
  <2>2. SaveAnd(saved, kept) /\ UNCHANGED <<workers, checkpoint, process>>
    BY <1>3 DEF Stop, SaveAll, ByManager, files, Required
  <2>3. /\ call.pc # "spawned"
        /\ call'.pc \in {"none", "noting", "loading"}
    BY <1>3 DEF Stop, Idle
  <2> HIDE DEF saved, kept
  <2>4. /\ Unread' = <<>> /\ (checkpoint'.alive => checkpoint'.pid # 0)
        /\ RecordKnows' /\ DiskKnows' /\ OneHolder' /\ Unheard' /\ (~InBatch' => BackKnows')
    BY <2>1, <2>2, <2>3, ManagerSaves
  <2> QED  BY <2>3, <2>4, CallRests DEF Ownership
<1>4. CASE Waited
  <2> DEFINE saved == Required  kept == IF Active(Required) THEN [Required EXCEPT !.status = "stopping"] ELSE Required
  <2>1. /\ saved \in Record /\ kept \in Record /\ saved.pid = kept.pid
        /\ \A w \in Workers : (workers[w].pc = "none" \/ Waits(w)) /\ saved.pid = w => Waits(w) /\ Holder(w)
        /\ \A w \in Workers : Holder(w) => Knows(saved, w) /\ Knows(kept, w)
    <3>1. /\ Required \in Record
          /\ \A w \in Workers : (workers[w].pc = "none" \/ Waits(w)) /\ Required.pid = w => Waits(w) /\ Holder(w)
          /\ \A w \in Workers : Holder(w) => Knows(Required, w)
      BY ReadKnows
    <3>2. kept \in Record /\ kept.pid = Required.pid /\ \A w \in Workers : Knows(Required, w) => Knows(kept, w)
      BY <3>1 DEF Knows, KnowsAs, Record, RunStatus, ActiveStatus
    <3> QED  BY <3>1, <3>2
  <2>2. SaveAnd(saved, kept) /\ UNCHANGED <<workers, checkpoint, process>>
    BY <1>4 DEF Waited, SaveAll, ByManager, files, Required
  <2>3. /\ call.pc # "spawned"
        /\ call'.pc \in {"none", "noting", "loading"}
    BY <1>4 DEF Waited, Idle
  <2> HIDE DEF saved, kept
  <2>4. /\ Unread' = <<>> /\ (checkpoint'.alive => checkpoint'.pid # 0)
        /\ RecordKnows' /\ DiskKnows' /\ OneHolder' /\ Unheard' /\ (~InBatch' => BackKnows')
    BY <2>1, <2>2, <2>3, ManagerSaves
  <2> QED  BY <2>3, <2>4, CallRests DEF Ownership
<1>5. CASE Note
  <2> DEFINE saved == Refresh(record)  kept == Refresh(record)
  <2>1. /\ saved \in Record /\ kept \in Record /\ saved.pid = kept.pid
        /\ \A w \in Workers : (workers[w].pc = "none" \/ Waits(w)) /\ saved.pid = w => Waits(w) /\ Holder(w)
        /\ \A w \in Workers : Holder(w) => Knows(saved, w) /\ Knows(kept, w)
    BY ReadKnows
  <2>2. SaveAnd(saved, kept) /\ UNCHANGED <<workers, checkpoint, process>>
    BY <1>5 DEF Note, SaveAll, ByManager, files, Required
  <2>3. /\ call.pc # "spawned"
        /\ call'.pc \in {"none", "noting", "loading"}
    BY <1>5 DEF Note, Idle
  <2> HIDE DEF saved, kept
  <2>4. /\ Unread' = <<>> /\ (checkpoint'.alive => checkpoint'.pid # 0)
        /\ RecordKnows' /\ DiskKnows' /\ OneHolder' /\ Unheard' /\ (~InBatch' => BackKnows')
    BY <2>1, <2>2, <2>3, ManagerSaves
  <2> QED  BY <2>3, <2>4, CallRests DEF Ownership
<1> QED  BY <1>1, <1>2, <1>3, <1>4, <1>5

\* So does stopping an agent.
LEMMA KillOwns ==
  ASSUME OwnershipTypeOK, Ownership, NEW a \in Agents, Kill(a)
  PROVE  Ownership'
<1> DEFINE saved == Required  kept == [Required EXCEPT !.agents[a] = "stopping"]
<1>1. /\ saved \in Record /\ kept \in Record /\ saved.pid = kept.pid
      /\ \A w \in Workers : (workers[w].pc = "none" \/ Waits(w)) /\ saved.pid = w => Waits(w) /\ Holder(w)
      /\ \A w \in Workers : Holder(w) => Knows(saved, w) /\ Knows(kept, w)
  <2>1. /\ Required \in Record
        /\ \A w \in Workers : (workers[w].pc = "none" \/ Waits(w)) /\ Required.pid = w => Waits(w) /\ Holder(w)
        /\ \A w \in Workers : Holder(w) => Knows(Required, w)
    BY ReadKnows
  <2>2. kept \in Record /\ kept.pid = Required.pid /\ \A w \in Workers : Knows(Required, w) => Knows(kept, w)
    BY <2>1 DEF Knows, KnowsAs, Record, AgentStatus, Pending
  <2> QED  BY <2>1, <2>2
<1>2. SaveAnd(saved, kept) /\ UNCHANGED <<workers, checkpoint, process>>
  BY DEF Kill, ByManager
<1>3. call.pc # "spawned" /\ call'.pc = "noting"
  BY DEF Kill, Idle
<1> HIDE DEF saved, kept
<1>4. /\ Unread' = <<>> /\ (checkpoint'.alive => checkpoint'.pid # 0)
      /\ RecordKnows' /\ DiskKnows' /\ OneHolder' /\ Unheard' /\ (~InBatch' => BackKnows')
  BY <1>1, <1>2, <1>3, ManagerSaves
<1> QED  BY <1>3, <1>4, CallRests DEF Ownership

\* A call begins: one that rescues the run knows that nobody serves it, one that
\* asks the worker to leave knows which.
LEMMA BeginOwns ==
  ASSUME OwnershipTypeOK, Ownership, Begin
  PROVE  Ownership'
<1> DEFINE saved == Required
<1>1. PICK as \in SUBSET Agents, kind \in {"add", "retry", "retained", "resume", "rescue"} :
        /\ Admits(kind, as, Required)
        /\ call' = [pc |-> "begun", kind |-> kind, agents |-> as, prev |-> Required, heard |-> FALSE]
  BY DEF Begin
<1>2. /\ saved \in Record
      /\ \A w \in Workers : (workers[w].pc = "none" \/ Waits(w)) /\ saved.pid = w => Waits(w) /\ Holder(w)
      /\ \A w \in Workers : Holder(w) => Knows(saved, w)
  BY ReadKnows
<1>3. SaveAnd(saved, saved) /\ UNCHANGED <<workers, checkpoint, process>> /\ call.pc # "spawned" /\ call'.pc = "begun"
  BY <1>1 DEF Begin, SaveAll, ByManager, Idle
<1>4. saved.pid = saved.pid
  OBVIOUS
<1> HIDE DEF saved
<1>5. /\ \A w \in Workers : Holder(w)' => Holder(w)
      /\ Unread' = <<>> /\ (checkpoint'.alive => checkpoint'.pid # 0)
      /\ RecordKnows' /\ DiskKnows' /\ OneHolder' /\ Unheard' /\ (~InBatch' => BackKnows')
  BY <1>2, <1>3, <1>4, ManagerSaves
<1>6. ~InBatch' /\ record' = saved
  BY <1>3 DEF InBatch, SaveAnd
<1>7. kind = "rescue" => NoHolder' /\ record'.pid = 0
  <2> SUFFICES ASSUME kind = "rescue", NEW w \in Workers, Holder(w) PROVE FALSE
    BY <1>1, <1>5, <1>6 DEF Admits, NoHolder, saved
  <2>1. Required.pid = 0 /\ ~Alive(checkpoint.pid)
    BY <1>1 DEF Admits
  <2>2. ~Bound(w)
    <3>1. Knows(Required, w) /\ w # 0
      BY <1>2 DEF saved, Workers
    <3> QED  BY <2>1, <3>1 DEF Knows, KnowsAs
  <2>3. Serving(w) /\ workers[w].pc # "booting"
    BY <2>2 DEF Bound, Holder, Waits
  <2>4. checkpoint.pid = w
    BY <2>3 DEF Ownership, Unheard
  <2> QED  BY <2>1, <2>3, <2>4 DEF Alive, Serving, Workers
<1>8. kind = "resume" => record'.pid # 0
  <2> SUFFICES ASSUME kind = "resume" PROVE record'.pid # 0
    OBVIOUS
  <2>1. checkpoint.pid = Required.pid /\ checkpoint.alive
    BY <1>1 DEF Admits
  <2> QED  BY <1>6, <2>1 DEF saved, Ownership, CallFits
<1>9. CallFits'
  BY <1>1, <1>3, <1>5, <1>6, <1>7, <1>8 DEF CallFits
<1> QED  BY <1>5, <1>6, <1>9 DEF Ownership

\* What is left alone in the record stays known.
LEMMA CallChanges ==
  ASSUME OwnershipTypeOK, Ownership, UNCHANGED <<record, disk, tail, seen, checkpoint, workers, process>>,
         call.pc \notin {"spawned", "loading"}, call'.pc \in {"none", "retiring"},
         call'.pc = "retiring" => call.pc = "begun" /\ call.kind = "resume"
  PROVE  Ownership'
<1>1. /\ Refresh(record)' = Refresh(record) /\ Applied(disk, tail)' = Applied(disk, tail) /\ Unread' = Unread
      /\ ~InBatch'
  BY Kept0 DEF InBatch
<1>2. \A x \in Workers : /\ Holder(x)' => Holder(x)
                         /\ Bound(x)' = Bound(x) /\ Waits(x)' = Waits(x) /\ Serving(x)' = Serving(x)
  BY DEF Holder, Bound, Waits, Serving
<1>3. RecordKnows'
  BY <1>1, <1>2 DEF Ownership, RecordKnows, Names, Knows
<1>4. DiskKnows'
  BY <1>1, <1>2 DEF Ownership, DiskKnows, Names, Knows
<1>5. BackKnows'
  BY <1>1 DEF BackKnows
<1>6. OneHolder'
  BY <1>2 DEF Ownership, OneHolder
<1>7. Unheard'
  BY <1>2 DEF Ownership, Unheard
<1>8. CallFits'
  BY <1>1 DEF Ownership, CallFits
<1> QED  BY <1>3, <1>4, <1>5, <1>6, <1>7, <1>8 DEF Ownership

\* Nobody serves the run when the checkpoint of the worker it names says that it left.
LEMMA RetiredOwns ==
  ASSUME OwnershipTypeOK, Ownership, Retired
  PROVE  Ownership'
<1> DEFINE saved == [Refresh(record) EXCEPT !.pid = 0, !.state = "stopped"]
<1>1. saved \in Record /\ saved.pid = 0
  BY ReadType DEF Record, OrNobody
<1>2. NoHolder
  <2> SUFFICES ASSUME NEW w \in Workers, Holder(w) PROVE FALSE
    BY DEF NoHolder
  <2>1. record.pid # 0 /\ checkpoint.pid = record.pid /\ ~checkpoint.alive
    BY DEF Retired, Ownership, CallFits
  <2>2. record.pid = w
    BY <2>1 DEF Ownership, RecordKnows, Names
  <2>3. Serving(w) /\ workers[w].pc # "booting"
    BY <2>1, <2>2 DEF Holder, Waits, Ownership, Unheard
  <2> QED  BY <2>1, <2>3 DEF Ownership, Unheard
<1>3. SaveAnd(saved, saved) /\ UNCHANGED <<workers, checkpoint>> /\ process' = 0
      /\ call.pc # "spawned" /\ call'.pc = "begun" /\ call'.kind = "retained"
  <2>1. call.pc = "retiring" /\ call' = [call EXCEPT !.pc = "begun", !.kind = "retained"]
    BY DEF Retired
  <2>2. call'.pc = "begun" /\ call'.kind = "retained"
    BY <2>1, CallFields
  <2> QED  BY <2>1, <2>2 DEF Retired, SaveAll, Parted
<1>4. /\ saved.pid = saved.pid
      /\ \A w \in Workers : (workers[w].pc = "none" \/ Waits(w)) /\ saved.pid = w => Waits(w) /\ Holder(w)
      /\ \A w \in Workers : Holder(w) => Knows(saved, w)
  BY <1>1, <1>2 DEF NoHolder, Workers
<1> HIDE DEF saved
<1>5. /\ Unread' = <<>> /\ (checkpoint'.alive => checkpoint'.pid # 0)
      /\ RecordKnows' /\ DiskKnows' /\ OneHolder' /\ Unheard' /\ (~InBatch' => BackKnows')
  BY <1>1, <1>3, <1>4, ManagerSaves
<1> QED  BY <1>3, <1>5, CallRests DEF Ownership

\* A refused batch goes back to a record that knows the worker, unless an event
\* was read in between.
LEMMA RollBackOwns ==
  ASSUME OwnershipTypeOK, Ownership, Kept', RollBack
  PROVE  Ownership'
<1> DEFINE saved == Refresh(Back)
<1>1. call.pc = "announced" /\ ~call.heard
  <2>1. call.pc = "announced" /\ Slip("record", call.heard)
    BY DEF RollBack
  <2> QED  BY <2>1 DEF Slip, Kept
<1>2. SaveAnd(saved, saved) /\ UNCHANGED <<workers, checkpoint, process>> /\ call'.pc = "none"
  BY DEF RollBack, SaveAll, Back, ByManager, Idle
<1>3. Back \in Record /\ saved \in Record /\ Back.pid = record.pid
  <2>1. Back \in Record
    BY <1>1, BatchRecords
  <2>2. Back.pid = record.pid
    BY DEF Back, OwnershipTypeOK, ViewsTypeOK, Record
  <2> QED  BY <2>1, <2>2, ReadType, AppliedType DEF Refresh
<1>4. \A w \in Workers : (workers[w].pc = "none" \/ Waits(w)) /\ saved.pid = w => Waits(w) /\ Holder(w)
  BY <1>3, NotNamed
<1>5. \A w \in Workers : Holder(w) => Knows(saved, w)
  BY <1>1 DEF Ownership, BackKnows, InBatch
<1>6. saved.pid = saved.pid /\ call.pc # "spawned" /\ call'.pc # "spawned"
  BY <1>1, <1>2
<1> HIDE DEF saved
<1>7. /\ Unread' = <<>> /\ (checkpoint'.alive => checkpoint'.pid # 0)
      /\ RecordKnows' /\ DiskKnows' /\ OneHolder' /\ Unheard' /\ (~InBatch' => BackKnows')
  BY <1>2, <1>3, <1>4, <1>5, <1>6, ManagerSaves
<1> QED  BY <1>2, <1>7, CallRests DEF Ownership

\* Where nobody serves the run, little is left to know.
LEMMA NobodyOwns ==
  ASSUME NoHolder', Unheard', CallFits'
  PROVE  Ownership'
BY DEF NoHolder, Ownership, RecordKnows, DiskKnows, BackKnows, OneHolder

\* The request of a dead worker is moved away, and nobody serves the run.
LEMMA ArchiveOwns ==
  ASSUME OwnershipTypeOK, Ownership, Archive
  PROVE  Ownership' /\ Unread' = <<>> /\ record' = [record EXCEPT !.state = "stopped"]
<1>1. call.pc = "begun" /\ call.kind = "rescue" /\ call' = [call EXCEPT !.kind = "retained"]
  BY DEF Archive
<1>2. NoHolder /\ record.pid = 0 /\ Unread = <<>>
  BY <1>1 DEF Ownership, CallFits
<1>3. /\ record' = [record EXCEPT !.state = "stopped"] /\ seen' = Len(tail) /\ process' = 0
      /\ UNCHANGED <<disk, tail, workers, checkpoint>>
  BY <1>2, AppliedFew DEF Archive, Refresh, Parted
<1>4. call'.pc = "begun" /\ call'.kind = "retained"
  BY <1>1, CallFields
<1>5. Unread' = <<>> /\ record'.pid = 0
  <2>1. tail \in Seq(Event) /\ record \in Record
    BY DEF OwnershipTypeOK, ViewsTypeOK
  <2>2. Unread' = <<>>
    BY <1>3, <2>1, UnreadEnds DEF Unread
  <2> QED  BY <1>2, <1>3, <2>1, <2>2 DEF Record
<1>6. NoHolder'
  BY <1>2, <1>3, <1>4 DEF NoHolder, Holder, Waits, Serving
<1>7. Unheard'
  BY <1>3, <1>5 DEF Ownership, Unheard, Waits, Serving, Workers
<1>8. CallFits'
  BY <1>3, <1>5, CallRests, <1>4 DEF Ownership, CallFits
<1> QED  BY <1>3, <1>5, <1>6, <1>7, <1>8, NobodyOwns

\* A rival of a record that knows the worker knows it too.
LEMMA RivalKnows ==
  ASSUME NEW x, NEW y, Rival(x, y), NEW w, Knows(x, w)
  PROVE  Knows(y, w)
BY DEF Rival, Knows, KnowsAs

\* A batch is marked: the record says as much of the worker as it did, and a refusal
\* would go back to it.
LEMMA MarkRecords ==
  ASSUME OwnershipTypeOK, Mark, Mode # "refused"
  PROVE  /\ call'.pc = "marked" /\ call'.mode = Mode /\ ~call'.heard /\ InBatch'
         /\ record' \in Record /\ record'.pid = record.pid
         /\ IF Mode = "live" THEN record'.state = record.state /\ record'.op = record.op
            ELSE record'.state = "busy" /\ record'.op = "batch"
         /\ Mode # "fresh" => Rival(record, record')
         /\ Back' = record
<1>1. MarkedAs(Mode) /\ call.pc = "begun" /\ Mode \in {"live", "queued", "fresh"}
  BY MarkCases
<1>2. record \in Record /\ lastId \in Nat /\ Marked(record) \in Record
  BY <1>1, BatchRecords DEF OwnershipTypeOK, ViewsTypeOK, CallTypeOK
<1>3. call'.pc = "marked" /\ call'.mode = Mode /\ call'.prev = record /\ ~call'.heard /\ call'.agents = call.agents
  BY <1>1 DEF MarkedAs
<1>4. /\ Marked(record).status = "running" /\ Marked(record).pid = record.pid
      /\ Marked(record).state = record.state /\ Marked(record).op = record.op
      /\ Marked(record).agents = [a \in Agents |-> IF a \in call.agents THEN "queued" ELSE record.agents[a]]
  BY <1>2 DEF Marked, Record
<1>5. /\ record' \in Record /\ record'.pid = record.pid /\ record'.status = "running"
      /\ record'.agents = Marked(record).agents
      /\ IF Mode = "live" THEN record'.state = record.state /\ record'.op = record.op
         ELSE record'.state = "busy" /\ record'.op = "batch"
  <2>1. CASE Mode = "live"
    BY <1>1, <1>2, <1>4, <2>1 DEF MarkedAs
  <2>2. CASE Mode # "live"
    <3>1. record' = [Marked(record) EXCEPT !.state = "busy", !.op = "batch", !.id = lastId + 1]
      BY <1>1, <2>2 DEF MarkedAs
    <3>2. lastId + 1 \in Nat
      BY <1>2
    <3> QED  BY <1>2, <1>4, <2>2, <3>1, <3>2 DEF Record, Op
  <2> QED  BY <2>1, <2>2
<1>6. Mode # "fresh" => Rival(record, record')
  <2>1. Mode = "queued" => record.op = "" /\ record.state \notin {"stopped", "busy"}
    BY DEF Mode, Active, Available
  <2> QED  BY <1>1, <1>2, <1>5, <2>1 DEF Rival
<1>7. Back' = record
  <2>1. Back' = [record' EXCEPT
          !.status = record.status, !.state = record.state, !.op = record.op, !.id = record.id,
          !.agents = [a \in Agents |-> IF a \in call.agents THEN record.agents[a] ELSE record'.agents[a]]]
    BY <1>3 DEF Back
  <2>2. [a \in Agents |-> IF a \in call.agents THEN record.agents[a] ELSE record'.agents[a]] = record.agents
    <3>1. record'.agents = [a \in Agents |-> IF a \in call.agents THEN "queued" ELSE record.agents[a]]
      BY <1>4, <1>5
    <3>2. record.agents \in [Agents -> AgentStatus]
      BY <1>2 DEF Record
    <3> QED  BY <3>1, <3>2
  <2>3. Back' = [record' EXCEPT !.status = record.status, !.state = record.state, !.op = record.op,
                                !.id = record.id, !.agents = record.agents]
    BY <2>1, <2>2
  <2> QED  BY <1>2, <1>5, <2>3 DEF Record
<1> QED  BY <1>3, <1>5, <1>6, <1>7 DEF InBatch

\* Where a worker serves the run the marked record still knows it.
LEMMA MarkOwns ==
  ASSUME OwnershipTypeOK, Ownership, Mark
  PROVE  Ownership'
<1>1. /\ call.pc = "begun" /\ UNCHANGED <<disk, tail, seen, workers, checkpoint, process>>
      /\ Mode \in {"refused", "live", "queued", "fresh"}
      /\ Mode = "refused" => call' = Idle /\ UNCHANGED record
  BY MarkCases DEF ByManager
<1>3. CASE Mode = "refused"
  BY <1>1, <1>3, CallChanges DEF Idle
<1>4. ASSUME Mode # "refused"
      PROVE  /\ call'.pc = "marked" /\ call'.mode = Mode /\ ~call'.heard /\ InBatch'
             /\ record' \in Record /\ record'.pid = record.pid
             /\ IF Mode = "live" THEN record'.state = record.state /\ record'.op = record.op
                ELSE record'.state = "busy" /\ record'.op = "batch"
             /\ Unread' = Unread
             /\ \A x \in Workers : /\ Holder(x)' = Holder(x) /\ Bound(x)' = Bound(x)
                                   /\ Waits(x)' = Waits(x) /\ Serving(x)' = Serving(x)
  <2>1. /\ call'.pc = "marked" /\ call'.mode = Mode /\ ~call'.heard /\ InBatch'
        /\ record' \in Record /\ record'.pid = record.pid
        /\ IF Mode = "live" THEN record'.state = record.state /\ record'.op = record.op
           ELSE record'.state = "busy" /\ record'.op = "batch"
    BY <1>4, MarkRecords
  <2>2. Unread' = Unread
    BY <1>1 DEF Unread
  <2>3. \A x \in Workers : /\ Holder(x)' = Holder(x) /\ Bound(x)' = Bound(x)
                           /\ Waits(x)' = Waits(x) /\ Serving(x)' = Serving(x)
    BY <1>1, <2>1 DEF Holder, Bound, Waits, Serving
  <2> QED  BY <2>1, <2>2, <2>3
<1>5. Mode # "refused" => Unheard'
  BY <1>1, <1>4 DEF Ownership, Unheard
<1>6. CASE Mode = "fresh"
  <2>1. record.pid = 0 /\ record.state = "stopped"
    BY <1>6 DEF Mode
  <2>2. NoHolder /\ Unread = <<>>
    BY <1>1, <2>1 DEF Ownership, RecordKnows, Names, NoHolder, CallFits
  <2>3. NoHolder'
    BY <1>4, <1>6, <2>2 DEF NoHolder
  <2>4. CallFits'
    BY <1>1, <1>4, <1>6, <2>1, <2>2, <2>3 DEF Ownership, CallFits
  <2> QED  BY <1>5, <1>6, <2>3, <2>4, NobodyOwns
<1>7. CASE Mode \in {"live", "queued"}
  <2>1. Rival(record, record')
    BY <1>7, MarkRecords
  <2>2. Rival(Refresh(record), Refresh(record)')
    <3>1. Unread \in Seq(Event)
      BY ReadType
    <3>2. Rival(Applied(record, Unread), Applied(record', Unread))
      BY <2>1, <3>1, RivalsStay
    <3> QED  BY <1>4, <1>7, <3>2 DEF Refresh
  <2>3. RecordKnows'
    <3>1. ASSUME NEW w \in Workers, Holder(w)'
          PROVE  Names(record, w)' /\ Knows(Refresh(record), w)' /\ process' \in {w, 0}
      <4>1. Names(record, w) /\ Knows(Refresh(record), w) /\ process \in {w, 0}
        BY <1>4, <1>7, <3>1 DEF Ownership, RecordKnows
      <4>2. Names(record, w)'
        BY <1>4, <1>7, <4>1 DEF Names
      <4>3. KnowsAs(Refresh(record)', w, Bound(w))
        BY <2>2, <4>1, RivalKnows DEF Knows
      <4> QED  BY <1>1, <1>4, <1>7, <4>1, <4>2, <4>3 DEF Knows
    <3> QED  BY <3>1 DEF RecordKnows
  <2>4. DiskKnows'
    <3>1. \A w \in Workers : Holder(w) => Names(disk, w) /\ Knows(Applied(disk, tail), w) /\ seen = 0
      BY <1>1 DEF Ownership, DiskKnows
    <3> QED  BY <1>1, <1>4, <1>7, <3>1 DEF DiskKnows, Names, Knows
  <2>5. Back' = record
    BY <1>7, MarkRecords
  <2>6. BackKnows'
    <3>1. Refresh(Back)' = Refresh(record)
      BY <1>4, <1>7, <2>5 DEF Refresh
    <3>2. ASSUME NEW w \in Workers, Holder(w)' PROVE call'.mode # "fresh" /\ Knows(Refresh(Back), w)'
      <4>1. Knows(Refresh(record), w)
        BY <1>4, <1>7, <3>2 DEF Ownership, RecordKnows
      <4> QED  BY <1>4, <1>7, <3>1, <4>1 DEF Knows
    <3> QED  BY <3>2 DEF BackKnows
  <2>7. OneHolder'
    BY <1>4, <1>7 DEF Ownership, OneHolder
  <2>8. CallFits'
    BY <1>1, <1>4, <1>7 DEF Ownership, CallFits
  <2> QED  BY <1>5, <1>7, <2>3, <2>4, <2>6, <2>7, <2>8 DEF Ownership
<1> QED  BY <1>1, <1>3, <1>6, <1>7

\* A batch is announced: a refusal after that goes back to the same record unless an
\* event was read with it.
LEMMA AnnounceOwns ==
  ASSUME OwnershipTypeOK, Ownership, Announce
  PROVE  Ownership'
<1>1. /\ call.pc = "marked" /\ ~call.heard /\ InBatch
      /\ UNCHANGED <<workers, checkpoint, process>>
  BY DEF Announce, ByManager, Ownership, CallFits, InBatch
<1>2. /\ call'.pc = "announced" /\ call'.mode = call.mode /\ call'.agents = call.agents
      /\ call'.prev = call.prev /\ call'.heard = (Unread # <<>>) /\ InBatch'
  <2>1. call' = [call EXCEPT !.pc = "announced", !.heard = Unread # <<>>]
    BY DEF Announce
  <2> QED  BY <1>1, <2>1, CallFields DEF InBatch
<1>3. tail \in Seq(Event) /\ seen \in 0..Len(tail) /\ record \in Record
  BY DEF OwnershipTypeOK, ViewsTypeOK
<1>4. Unread = <<>> => Refresh(record) = record
  BY AppliedFew DEF Refresh
<1>5. CASE call.mode = "fresh"
  <2>1. NoHolder /\ Unread = <<>> /\ record.pid = 0 /\ record.state = "busy" /\ record.op # ""
    BY <1>1, <1>5 DEF Ownership, CallFits
  <2>2. record' = record /\ seen' = Len(tail) /\ UNCHANGED <<disk, tail>>
    BY <1>4, <1>5, <2>1 DEF Announce
  <2>3. Unread' = <<>>
    BY <1>3, <2>2, UnreadEnds DEF Unread
  <2>4. NoHolder'
    BY <1>1, <1>2, <2>1, <2>2 DEF NoHolder, Holder, Serving, Waits
  <2>5. Unheard'
    BY <1>1, <2>1, <2>2 DEF Ownership, Unheard, Waits, Serving, Workers
  <2>6. CallFits'
    BY <1>1, <1>2, <2>1, <2>2, <2>3, <2>4 DEF Ownership, CallFits
  <2> QED  BY <2>4, <2>5, <2>6, NobodyOwns
<1>6. CASE call.mode # "fresh"
  <2> DEFINE saved == Refresh(record)
  <2>1. /\ saved \in Record
        /\ \A w \in Workers : (workers[w].pc = "none" \/ Waits(w)) /\ saved.pid = w => Waits(w) /\ Holder(w)
        /\ \A w \in Workers : Holder(w) => Knows(saved, w)
    BY ReadKnows
  <2>2. SaveAnd(saved, saved) /\ saved.pid = saved.pid /\ call.pc # "spawned" /\ call'.pc # "spawned"
    BY <1>1, <1>2, <1>6 DEF Announce, SaveAll
  <2> HIDE DEF saved
  <2>3. /\ \A w \in Workers : (Holder(w)' => Holder(w)) /\ Bound(w)' = Bound(w)
        /\ Unread' = <<>> /\ (checkpoint'.alive => checkpoint'.pid # 0)
        /\ RecordKnows' /\ DiskKnows' /\ OneHolder' /\ Unheard'
    BY <1>1, <2>1, <2>2, ManagerSaves
  <2>4. BackKnows'
    <3>1. ASSUME NEW w \in Workers, Holder(w)', ~call'.heard
          PROVE  Knows(Refresh(Back), w)'
      <4>1. Unread = <<>> /\ record' = record
        BY <1>2, <1>4, <2>2, <3>1 DEF saved, SaveAnd
      <4>2. Back' = Back
        BY <1>2, <4>1 DEF Back
      <4>3. Refresh(Back) = Back /\ Refresh(Back)' = Back
        BY <2>3, <4>1, <4>2, AppliedFew DEF Refresh
      <4>4. Knows(Refresh(Back), w)
        BY <1>1, <2>3, <3>1 DEF Ownership, BackKnows
      <4> QED  BY <2>3, <4>3, <4>4 DEF Knows
    <3> QED  BY <1>2, <1>6, <3>1 DEF BackKnows
  <2>5. CallFits'
    BY <1>2, <1>6, <2>3 DEF CallFits
  <2> QED  BY <2>3, <2>4, <2>5 DEF Ownership
<1> QED  BY <1>5, <1>6

\* A new worker is started when nobody serves the run, and nobody has heard of it.
LEMMA SpawnOwns ==
  ASSUME OwnershipTypeOK, Ownership, Spawn
  PROVE  Ownership'
<1>1. call.pc = "announced" /\ call.mode = "fresh" /\ call'.pc = "spawned"
  <2>1. call.pc = "announced" /\ call.mode = "fresh" /\ call' = [call EXCEPT !.pc = "spawned"]
    BY DEF Spawn
  <2> QED  BY <2>1, CallFields
<1>2. NoHolder /\ Unread = <<>> /\ record.pid = 0 /\ record.state = "busy" /\ record.op # ""
  BY <1>1 DEF Ownership, CallFits, InBatch
<1>3. PICK w \in Workers :
        /\ At(w, "none")
        /\ workers' = [workers EXCEPT ![w] = [Asleep EXCEPT !.pc = "awaiting", !.id = RequestId]]
        /\ record' = [record EXCEPT !.pid = w] /\ process' = w
  BY DEF Spawn
<1>4. UNCHANGED <<disk, tail, seen, checkpoint>>
  BY DEF Spawn
<1>5. w # 0 /\ record \in Record
  BY DEF Workers, OwnershipTypeOK, ViewsTypeOK
<1>6. record'.pid = w /\ record'.state = "busy" /\ record'.op = record.op /\ record'.op # ""
  BY <1>2, <1>3, <1>5 DEF Record
<1>7. workers'[w].pc = "awaiting" /\ \A x \in Workers \ {w} : workers'[x] = workers[x]
  BY <1>3 DEF OwnershipTypeOK, ProcessesTypeOK, Asleep
<1>8. Unread' = <<>> /\ Refresh(record)' = record'
  BY <1>2, <1>4, AppliedFew DEF Unread, Refresh
<1>9. workers[w].pc = "none" /\ disk.pid # w /\ checkpoint.pid # w
  BY <1>3 DEF At, Ownership, Unheard
<1>10. \A x \in Workers : Holder(x)' => x = w
  <2> SUFFICES ASSUME NEW x \in Workers, Holder(x)', x # w PROVE FALSE
    OBVIOUS
  <2>1. workers'[x] = workers[x]
    BY <1>7
  <2>2. Serving(x) \/ (Waits(x) /\ disk.pid = x)
    BY <1>4, <1>6, <2>1 DEF Holder, Serving, Waits
  <2> QED  BY <1>2, <2>2 DEF NoHolder, Holder
<1>11. RecordKnows'
  BY <1>3, <1>5, <1>6, <1>8, <1>10 DEF RecordKnows, Names, Knows, KnowsAs
<1>12. DiskKnows' /\ BackKnows'
  BY <1>1 DEF DiskKnows, BackKnows, InBatch
<1>13. OneHolder'
  BY <1>10 DEF OneHolder
<1>14. Unheard'
  <2>1. ASSUME NEW x \in Workers
        PROVE  /\ workers'[x].pc = "none" => record'.pid # x /\ disk.pid # x
               /\ workers'[x].pc = "none" \/ Waits(x)' =>
                    \A i \in DOMAIN tail :
                       tail[i].kind \in {"worker_started", "operation_started"} => tail[i].pid # x
               /\ workers'[x].pc \in {"none", "awaiting", "orphaned", "booting"} => checkpoint.pid # x
               /\ Serving(x)' /\ workers'[x].pc # "booting" => checkpoint.pid = x /\ checkpoint.alive
    <3>1. CASE x = w
      BY <1>7, <1>9, <3>1 DEF Ownership, Unheard, Waits, Serving
    <3>2. CASE x # w
      BY <1>6, <1>7, <3>2 DEF Ownership, Unheard, Waits, Serving
    <3> QED  BY <3>1, <3>2
  <2> QED  BY <1>1, <1>4, <2>1 DEF Unheard
<1>15. CallFits'
  BY <1>1, <1>4, <1>5, <1>6, <1>7, <1>8, <1>9 DEF Ownership, CallFits, InBatch
<1> QED  BY <1>11, <1>12, <1>13, <1>14, <1>15 DEF Ownership

\* The record that names the new worker is saved.
LEMMA PublishOwns ==
  ASSUME OwnershipTypeOK, Ownership, Publish
  PROVE  Ownership'
<1>1. /\ call.pc = "spawned" /\ call'.pc = "none" /\ disk' = record /\ seen' = 0 /\ tail' = Unread
      /\ UNCHANGED <<record, workers, checkpoint, process>>
  BY DEF Publish, Idle, ByManager
<1>2. /\ Unread = <<>> /\ record.pid # 0 /\ record.op # "" /\ record.state = "busy"
  BY <1>1 DEF Ownership, CallFits
<1>3. Unread' = <<>> /\ tail' = <<>>
  <2>1. tail' = <<>> /\ seen' = 0
    BY <1>1, <1>2
  <2> QED  BY <2>1 DEF Unread
<1>4. Refresh(record) = record /\ Refresh(record)' = record /\ Applied(disk, tail)' = record
  BY <1>1, <1>2, <1>3, AppliedFew DEF Refresh
<1>5. \A x \in Workers : /\ Bound(x)' = Bound(x) /\ Waits(x)' = Waits(x) /\ Serving(x)' = Serving(x)
  BY <1>1 DEF Bound, Waits, Serving
<1>6. ASSUME NEW x \in Workers, Holder(x)'
      PROVE  Holder(x) /\ Names(record, x) /\ Knows(record, x) /\ process \in {x, 0}
  <2>1. Serving(x) \/ (Waits(x) /\ record.pid = x)
    BY <1>1, <1>5, <1>6 DEF Holder
  <2>2. Holder(x)
    BY <1>1, <2>1 DEF Holder
  <2> QED  BY <1>4, <2>2 DEF Ownership, RecordKnows
<1>7. RecordKnows' /\ DiskKnows'
  <2>1. ASSUME NEW x \in Workers, Holder(x)'
        PROVE  /\ Names(record, x)' /\ Knows(Refresh(record), x)' /\ process' \in {x, 0}
               /\ Names(disk, x)' /\ Knows(Applied(disk, tail), x)' /\ seen' = 0
    BY <1>1, <1>4, <1>5, <1>6, <2>1 DEF Names, Knows
  <2> QED  BY <2>1 DEF RecordKnows, DiskKnows
<1>8. BackKnows'
  BY <1>1 DEF BackKnows, InBatch
<1>9. OneHolder'
  BY <1>6 DEF Ownership, OneHolder
<1>10. Unheard'
  BY <1>1, <1>3, <1>5 DEF Ownership, Unheard
<1>11. CallFits'
  BY <1>1, <1>2, <1>3 DEF Ownership, CallFits, InBatch
<1> QED  BY <1>7, <1>8, <1>9, <1>10, <1>11 DEF Ownership

\* The calls of the manager leave one worker to the run.
LEMMA OperationOwns ==
  ASSUME OwnershipTypeOK, Ownership, Kept', Operation
  PROVE  Ownership'
<1>1. CASE Load \/ Note
  BY <1>1, LooksOwn
<1>2. CASE Retire
  <2>1. call.pc = "begun" /\ call.kind = "resume" /\ call' = [call EXCEPT !.pc = "retiring"]
        /\ UNCHANGED <<record, disk, tail, seen, checkpoint, workers, process>>
    BY <1>2 DEF Retire, ByManager
  <2>2. call'.pc = "retiring"
    BY <2>1, CallFields
  <2> QED  BY <2>1, <2>2, CallChanges
<1>3. CASE NotRetired \/ SubmitLive \/ SubmitRequest
  <2>1. call.pc \notin {"spawned", "loading"} /\ call'.pc = "none"
        /\ UNCHANGED <<record, disk, tail, seen, checkpoint, workers, process>>
    BY <1>3 DEF NotRetired, SubmitLive, SubmitRequest, ByManager, Idle
  <2> QED  BY <2>1, CallChanges
<1>4. CASE Retired
  BY <1>4, RetiredOwns
<1>5. CASE Archive
  BY <1>5, ArchiveOwns
<1>6. CASE Mark
  BY <1>6, MarkOwns
<1>7. CASE Announce
  BY <1>7, AnnounceOwns
<1>8. CASE RollBack
  BY <1>8, RollBackOwns
<1>9. CASE Spawn
  BY <1>9, SpawnOwns
<1>10. CASE Publish
  BY <1>10, PublishOwns
<1> QED  BY Operation, <1>1, <1>2, <1>3, <1>4, <1>5, <1>6, <1>7, <1>8, <1>9, <1>10 DEF Operation

\* What was written over by something older stays noted.
LEMMA SlipsGrow ==
  ASSUME [Next]_vars
  PROVE  slips \subseteq slips'
<1>1. CASE UNCHANGED vars
  BY <1>1 DEF vars, history
<1>2. CASE Look \/ Stop \/ Waited \/ Begin \/ \E a \in Agents : Kill(a)
  BY <1>2 DEF Look, Stop, Waited, Begin, Kill, Slip, history
<1>3. CASE Operation
  BY <1>3 DEF Operation, Load, Note, Retire, Retired, NotRetired, Archive, Mark, Announce, SubmitLive,
              SubmitRequest, RollBack, Spawn, Publish, Slip, Accepted, history
<1>4. CASE Incident
  BY <1>4 DEF Incident, Restart, Terminate, Die, StageFails, Slip, history
<1>5. CASE \E w \in Workers : Worker(w)
  BY <1>5 DEF Worker, AwaitPublication, Boot, Take, Prepare, Drain, CloseStage, ReportFailure, ReportEnd,
              Deactivate, Finish, WriteCheckpoint, Unlink, Leave, Left, StartAgent, FinishAgent, HaltAgent,
              AgentEnds, Slip, history
<1> QED  BY <1>1, <1>2, <1>3, <1>4, <1>5 DEF Next

\* At the start the first worker serves the run.
LEMMA OwnerInit ==
  ASSUME WorkerAssumption, Init
  PROVE  Ownership
<1>1. /\ record.status = "preparing" /\ record.state = "busy" /\ record.op = "initial" /\ record.pid = 1
      /\ disk = record /\ tail = <<>> /\ seen = 0 /\ process = 1 /\ call.pc = "none"
      /\ checkpoint.pid = 0 /\ ~checkpoint.alive
  BY DEF Init, Idle
<1>2. 1 \in Workers /\ 0 \notin Workers
  BY DEF Workers, WorkerAssumption
<1>3. workers[1].pc = "booting" /\ \A w \in Workers \ {1} : workers[w].pc = "none"
  BY <1>2 DEF Init, Asleep
<1>4. Unread = <<>> /\ Refresh(record) = record /\ Applied(disk, tail) = record
  <2>1. Unread = <<>>
    BY <1>1 DEF Unread
  <2> QED  BY <1>1, <2>1, AppliedFew DEF Refresh
<1>5. \A w \in Workers : Holder(w) => w = 1
  BY <1>3 DEF Holder, Serving, Waits
<1>6. RecordKnows /\ DiskKnows
  BY <1>1, <1>2, <1>4, <1>5 DEF RecordKnows, DiskKnows, Names, Knows, KnowsAs
<1>7. BackKnows /\ CallFits
  BY <1>1 DEF BackKnows, CallFits, InBatch
<1>8. OneHolder
  BY <1>5 DEF OneHolder
<1>9. Unheard
  BY <1>1, <1>2, <1>3 DEF Unheard, Waits, Serving
<1> QED  BY <1>6, <1>7, <1>8, <1>9 DEF Ownership

\* Every step keeps the inductive invariant.
LEMMA OwnerStep ==
  ASSUME WorkerAssumption, OwnerInv, [Next]_vars
  PROVE  OwnerInv'
<1>1. OwnershipTypeOK'
  BY TypeStep DEF OwnerInv
<1>2. ASSUME Kept' PROVE Ownership'
  <2>1. OwnershipTypeOK /\ Ownership
    BY <1>2, SlipsGrow DEF OwnerInv, Kept
  <2>2. CASE UNCHANGED vars
    BY <2>1, <2>2, OwnershipStays DEF vars, files
  <2>3. CASE Look \/ Stop \/ Waited
    BY <2>1, <2>3, LooksOwn
  <2>4. CASE Begin
    BY <2>1, <2>4, BeginOwns
  <2>5. CASE Operation
    BY <1>2, <2>1, <2>5, OperationOwns
  <2>6. CASE Incident
    BY <2>1, <2>6, IncidentOwns
  <2>7. ASSUME NEW a \in Agents, Kill(a) PROVE Ownership'
    BY <2>1, <2>7, KillOwns
  <2>8. ASSUME NEW w \in Workers, Worker(w) PROVE Ownership'
    BY <1>2, <2>1, <2>8, WorkerOwns
  <2> QED  BY <2>2, <2>3, <2>4, <2>5, <2>6, <2>7, <2>8 DEF Next
<1> QED  BY <1>1, <1>2 DEF OwnerInv

\* The worker and its manager keep the types, and as long as no record or checkpoint
\* was written over by an older one every view of the run knows the one worker that
\* serves it.
THEOREM OwnershipInvariant == Spec => []OwnerInv
<1>1. Init => OwnerInv
  BY TypeInit, OwnerInit, WorkerAssumption DEF OwnerInv
<1>2. OwnerInv /\ [Next]_vars => OwnerInv'
  BY OwnerStep, WorkerAssumption
<1> QED  BY <1>1, <1>2, PTL DEF Spec

\* Two workers never serve the run at the same time, for any agents, number of
\* workers and course of calls, stops and crashes.
THEOREM OneOwnerHolds == Spec => []OneOwner
<1>1. OwnerInv => OneOwner
  BY DEF OwnerInv, Ownership, OneHolder, Holder, OneOwner
<1> QED  BY <1>1, OwnershipInvariant, PTL

-----------------------------------------------------------------------------
(* What was begun is not begun again                                           *)

\* A sequence without repetitions stays one when something new is added.
LEMMA InjectiveGrows ==
  ASSUME NEW S, NEW s \in Seq(S), NEW r \in S, IsInjective(s), r \notin ToSet(s)
  PROVE  IsInjective(Append(s, r)) /\ ToSet(Append(s, r)) = ToSet(s) \cup {r}
<1>1. /\ DOMAIN Append(s, r) = 1..(Len(s) + 1) /\ Append(s, r)[Len(s) + 1] = r
      /\ \A i \in 1..Len(s) : Append(s, r)[i] = s[i]
      /\ DOMAIN s = 1..Len(s)
  OBVIOUS
<1>2. ToSet(s) = {s[i] : i \in 1..Len(s)} /\ ToSet(Append(s, r)) = {Append(s, r)[i] : i \in 1..(Len(s) + 1)}
  BY <1>1 DEF ToSet
<1>3. \A i, j \in 1..Len(s) : s[i] = s[j] => i = j
  BY <1>1 DEF IsInjective
<1>4. \A i \in 1..(Len(s) + 1) : i \in 1..Len(s) \/ i = Len(s) + 1
  OBVIOUS
<1>5. \A i, j \in 1..(Len(s) + 1) : Append(s, r)[i] = Append(s, r)[j] => i = j
  <2>1. \A i \in 1..Len(s) : s[i] # r
    BY <1>2
  <2> QED  BY <1>1, <1>3, <1>4, <2>1
<1>6. IsInjective(Append(s, r))
  BY <1>1, <1>5 DEF IsInjective
<1>7. ToSet(Append(s, r)) = ToSet(s) \cup {r}
  <2>1. \A x : x \in ToSet(Append(s, r)) <=> x \in ToSet(s) \cup {r}
    BY <1>1, <1>2, <1>4
  <2> QED  BY <2>1
<1> QED  BY <1>6, <1>7

\* A batch on its way to be submitted was not begun: its number is new.
LEMMA RequestIsNew ==
  ASSUME OwnershipTypeOK, Numbered, call.pc = "announced", call.mode # "live"
  PROVE  Request \notin Begun /\ Request.batch = NewestId
<1>1. \A r \in Begun : r.batch < lastId
  BY DEF Numbered, InBatch
<1>2. Request.batch = NewestId /\ NewestId >= lastId /\ NewestId \in Nat /\ lastId \in Nat
  BY BatchRecords DEF Request, OwnershipTypeOK, CallTypeOK
<1>3. Begun \subseteq AnyRequest
  BY DEF Begun, ToSet, OwnershipTypeOK, HistoryTypeOK
<1>4. \A r \in Begun : r.batch \in Nat
  BY <1>3 DEF AnyRequest
<1> QED  BY <1>1, <1>2, <1>4

\* Except for the worker that takes a request, nothing is begun, and no request
\* comes to be there that was begun.
LEMMA RequestsStep ==
  ASSUME OwnershipTypeOK, Numbered, [Next]_vars, \A w \in Workers : ~Take(w)
  PROVE  /\ executed' = executed
         /\ \/ requests' \subseteq requests /\ (lastId' = lastId \/ Mark)
            \/ /\ requests' = Written /\ lastId' = NewestId /\ call'.pc \in {"none", "spawned"}
               /\ Request \notin Begun /\ Request.batch = NewestId
<1>1. CASE UNCHANGED vars
  BY <1>1 DEF vars, files, history
<1>2. CASE Look \/ Stop \/ Waited \/ Begin \/ \E a \in Agents : Kill(a)
  BY <1>2 DEF Look, Stop, Waited, Begin, Kill, ByManager, OnlyFiles, files, history
<1>3. CASE SubmitRequest \/ Spawn
  <2>1. call.pc = "announced" /\ call.mode # "live"
    BY <1>3 DEF SubmitRequest, Spawn
  <2>2. call'.pc \in {"none", "spawned"}
    <3>1. CASE SubmitRequest
      BY <3>1 DEF SubmitRequest, Idle
    <3>2. CASE Spawn
      <4>1. call' = [call EXCEPT !.pc = "spawned"]
        BY <3>2 DEF Spawn
      <4> QED  BY <2>1, <4>1, CallFields
    <3> QED  BY <1>3, <3>1, <3>2
  <2> QED  BY <1>3, <2>1, <2>2, RequestIsNew DEF SubmitRequest, Spawn, Accepted, history
<1>4. CASE Load \/ Note \/ Retire \/ Retired \/ NotRetired \/ Archive \/ Mark \/ Announce \/ SubmitLive
           \/ RollBack \/ Publish
  BY <1>4 DEF Load, Note, Retire, Retired, NotRetired, Archive, Mark, Announce, SubmitLive, RollBack,
              Publish, Accepted, ByManager, Parted, OnlyFiles
<1>5. CASE Incident
  BY <1>5 DEF Incident, Restart, Terminate, Die, StageFails, files, history
<1>6. CASE \E w \in Workers : Worker(w)
  <2>1. PICK w \in Workers : Worker(w)
    BY <1>6
  <2>2. CASE Unlink(w)
    BY <2>2 DEF Unlink, ByWorker, Others
  <2>3. CASE ~Unlink(w)
    BY <2>1, <2>3 DEF Worker, AwaitPublication, Boot, Prepare, Drain, CloseStage, ReportFailure, ReportEnd,
              Deactivate, Finish, WriteCheckpoint, Leave, Left, StartAgent, FinishAgent, HaltAgent,
              AgentEnds, ByWorker, files, history
  <2> QED  BY <2>2, <2>3
<1> QED  BY <1>1, <1>2, <1>3, <1>4, <1>5, <1>6 DEF Next, Operation

\* A batch that is on its way stays so only from its mark to its announcement.
LEMMA BatchStep ==
  ASSUME OwnershipTypeOK, [Next]_vars, InBatch'
  PROVE  \/ Mark /\ call.pc = "begun"
         \/ Announce /\ call.pc = "marked" /\ call'.mode = call.mode
         \/ call' = call
<1>1. CASE UNCHANGED vars
  BY <1>1 DEF vars
<1>2. CASE Look \/ Stop \/ Waited \/ Begin \/ \E a \in Agents : Kill(a)
  <2>1. CASE Look \/ Waited
    BY <2>1 DEF Look, Waited
  <2>2. CASE Stop \/ Begin \/ \E a \in Agents : Kill(a)
    <3>1. call'.pc \in {"noting", "begun"}
      <4>1. CASE Stop
        BY <4>1 DEF Stop
      <4>2. CASE Begin
        BY <4>2 DEF Begin
      <4>3. ASSUME NEW a \in Agents, Kill(a) PROVE call'.pc = "noting"
        BY <4>3 DEF Kill
      <4> QED  BY <2>2, <4>1, <4>2, <4>3
    <3> QED  BY <3>1 DEF InBatch
  <2> QED  BY <1>2, <2>1, <2>2
<1>3. CASE Load \/ Note \/ NotRetired \/ SubmitLive \/ SubmitRequest \/ RollBack \/ Publish
  BY <1>3 DEF Load, Note, NotRetired, SubmitLive, SubmitRequest, RollBack, Publish, InBatch, Idle
<1>4. CASE Retire \/ Retired \/ Archive
  <2>1. \/ call.pc = "begun" /\ call' = [call EXCEPT !.pc = "retiring"]
        \/ call.pc = "retiring" /\ call' = [call EXCEPT !.pc = "begun", !.kind = "retained"]
        \/ call.pc = "begun" /\ call' = [call EXCEPT !.kind = "retained"]
    BY <1>4 DEF Retire, Retired, Archive
  <2>2. call'.pc \in {"begun", "retiring"}
    BY <2>1, CallFields
  <2> QED  BY <2>2 DEF InBatch
<1>5. CASE Spawn
  <2>1. call.pc = "announced" /\ call' = [call EXCEPT !.pc = "spawned"]
    BY <1>5 DEF Spawn
  <2>2. call'.pc = "spawned"
    BY <2>1, CallFields
  <2> QED  BY <2>2 DEF InBatch
<1>6. CASE Mark
  BY <1>6 DEF Mark
<1>7. CASE Announce
  <2>1. call.pc = "marked" /\ call' = [call EXCEPT !.pc = "announced", !.heard = Unread # <<>>]
    BY <1>7 DEF Announce
  <2> QED  BY <1>7, <2>1, CallFields
<1>8. CASE Incident
  BY <1>8 DEF Incident, Restart, Terminate, Die, StageFails, InBatch
<1>9. CASE \E w \in Workers : Worker(w)
  BY <1>9 DEF Worker, AwaitPublication, Boot, Take, Prepare, Drain, CloseStage, ReportFailure, ReportEnd,
              Deactivate, Finish, WriteCheckpoint, Unlink, Leave, Left, StartAgent, FinishAgent, HaltAgent,
              AgentEnds, ByWorker
<1> QED  BY <1>1, <1>2, <1>3, <1>4, <1>5, <1>6, <1>7, <1>8, <1>9 DEF Next, Operation

\* Every batch has a number of its own.
LEMMA NumberedStep ==
  ASSUME OwnershipTypeOK, Numbered, [Next]_vars, \A w \in Workers : Take(w) => Clean
  PROVE  Numbered'
<1>1. /\ requests \subseteq AnyRequest /\ Begun \subseteq AnyRequest /\ lastId \in Nat
      /\ executed \in Seq(AnyRequest)
  BY DEF Begun, ToSet, OwnershipTypeOK, FilesTypeOK, HistoryTypeOK, CallTypeOK
<1>2. \A r \in requests \cup Begun : r.batch \in Nat /\ r.batch <= lastId
                                     /\ (InBatch /\ call.mode # "live" => r.batch < lastId)
  BY <1>1 DEF AnyRequest, Numbered
<1>3. ASSUME NEW w \in Workers, Take(w) PROVE Numbered'
  <2>1. PICK r \in requests : executed' = Append(executed, r)
    BY <1>3 DEF Take
  <2>2. r \in AnyRequest /\ r \notin Begun
    BY <1>1, <1>3 DEF Clean
  <2>3. IsInjective(executed') /\ Begun' = Begun \cup {r}
    BY <1>1, <2>1, <2>2, InjectiveGrows DEF Numbered, Begun
  <2>4. UNCHANGED <<requests, lastId, call>>
    BY <1>3 DEF Take, ByWorker
  <2> QED  BY <2>3, <2>4 DEF Numbered, InBatch
<1>4. CASE \A w \in Workers : ~Take(w)
  <2>1. executed' = executed /\ Begun' = Begun /\ IsInjective(executed')
    BY <1>4, RequestsStep DEF Begun, Numbered
  <2>2. CASE requests' \subseteq requests /\ (lastId' = lastId \/ Mark)
    <3>1. \A r \in (requests \cup Begun)' : r \in requests \cup Begun
      BY <2>1, <2>2
    <3>2. CASE Mark
      <4>1. lastId' = lastId \/ lastId' = lastId + 1
        BY <3>2, MarkCases DEF MarkedAs
      <4>2. InBatch' /\ call'.mode # "live" => lastId' = lastId + 1
        <5>1. Mode = "refused" => ~InBatch'
          BY <3>2, MarkCases DEF InBatch, Idle
        <5>2. Mode # "refused" => MarkedAs(Mode)
          BY <3>2, MarkCases
        <5> QED  BY <5>1, <5>2 DEF MarkedAs
      <4>3. \A r \in (requests \cup Begun)' :
              r.batch <= lastId' /\ (lastId' = lastId + 1 => r.batch < lastId')
        BY <1>1, <1>2, <3>1, <4>1
      <4> QED  BY <2>1, <4>2, <4>3 DEF Numbered
    <3>3. CASE lastId' = lastId /\ ~Mark
      <4>1. InBatch' /\ call'.mode # "live" => InBatch /\ call.mode # "live"
        BY <3>3, BatchStep DEF InBatch
      <4> QED  BY <1>2, <2>1, <3>1, <3>3, <4>1 DEF Numbered
    <3> QED  BY <2>2, <3>2, <3>3
  <2>3. CASE /\ requests' = Written /\ lastId' = NewestId /\ call'.pc \in {"none", "spawned"}
             /\ Request.batch = NewestId
    <3>1. NewestId \in Nat /\ NewestId >= lastId
      BY BatchRecords
    <3>2. \A r \in (requests \cup Begun)' : r \in requests \cup Begun \/ r = Request
      BY <2>1, <2>3 DEF Written, Others
    <3>3. \A r \in (requests \cup Begun)' : r.batch <= lastId'
      BY <1>1, <1>2, <2>3, <3>1, <3>2
    <3> QED  BY <2>1, <2>3, <3>3 DEF Numbered, InBatch
  <2> QED  BY <1>4, <2>2, <2>3, RequestsStep
<1> QED  BY <1>3, <1>4

\* A worker takes a request only when no request is there that was begun.
LEMMA TakesClean ==
  ASSUME OwnershipTypeOK, Ownership, Clean \/ InHand, NEW w \in Workers, Take(w)
  PROVE  Clean
<1>1. workers[w].pc = "idle"
  BY DEF Take, At
<1>2. Holder(w) /\ ~Works(w)
  BY <1>1 DEF Holder, Serving, Works, Stage
<1> QED  BY <1>2 DEF InHand

\* A request that is taken is in the hands of the one worker.
LEMMA TakeOwns ==
  ASSUME OwnershipTypeOK, Ownership, Ownership', Clean, NEW w \in Workers, Take(w)
  PROVE  InHand'
<1>1. PICK r \in requests :
        /\ workers' = [workers EXCEPT ![w] =
             [pc |-> "preparing", id |-> r.id, op |-> r.op, ok |-> FALSE,
              tasks |-> [a \in Agents |-> IF a \in r.agents THEN "queued" ELSE "none"]]]
        /\ checkpoint' = [checkpoint EXCEPT !.pid = w, !.alive = TRUE, !.active = TRUE, !.id = r.id]
        /\ Emit(<<[kind |-> "operation_started", pid |-> w, op |-> r.op, id |-> r.id]>>)
        /\ executed' = Append(executed, r)
  BY DEF Take
<1>2. r \in AnyRequest /\ executed \in Seq(AnyRequest)
  BY DEF OwnershipTypeOK, FilesTypeOK, HistoryTypeOK
<1> DEFINE e == [kind |-> "operation_started", pid |-> w, op |-> r.op, id |-> r.id]
<1>3. e \in Event /\ e.kind = "operation_started"
  BY <1>2 DEF Event, AnyRequest
<1>4. Emit(<<e>>)
  BY <1>1
<1> HIDE DEF e
<1>5. UNCHANGED <<requests, call>> /\ At(w, "idle")
  BY DEF Take, ByWorker
<1>6. /\ workers'[w].pc = "preparing" /\ workers'[w].id = r.id
      /\ \A x \in Workers \ {w} : workers'[x] = workers[x]
  BY <1>1 DEF OwnershipTypeOK, ProcessesTypeOK
<1>7. checkpoint'.pid = w /\ checkpoint'.alive
  BY <1>1 DEF OwnershipTypeOK, ProcessesTypeOK
<1>8. Holder(w) /\ Holder(w)'
  BY <1>5, <1>6 DEF Holder, Serving, At
<1>9. call.pc # "spawned" /\ (InBatch => call.mode # "fresh")
  <2>1. call.pc = "spawned" => At(w, "awaiting")
    BY <1>8, SpawnedQuiet
  <2> QED  BY <1>5, <1>8, <2>1 DEF At, Ownership, CallFits, NoHolder
<1>10. \A rec \in Record : Applied(rec, <<e>>).state = "busy"
  <2> SUFFICES ASSUME NEW rec \in Record PROVE Applied(rec, <<e>>).state = "busy"
    OBVIOUS
  <2>1. Applied(rec, <<e>>) = Apply(rec, e)
    BY AppliedFew
  <2>2. Apply(rec, e).state = "busy"
    BY <1>3, ApplyFields
  <2> QED  BY <2>1, <2>2
<1>11. /\ Refresh(record)'.state = "busy" /\ Applied(disk, tail)'.state = "busy"
       /\ record' = record /\ disk' = disk
       /\ InBatch => Refresh(Back)'.state = "busy"
  <2>1. Refresh(record) \in Record /\ Applied(disk, tail) \in Record
    BY ReadType
  <2>2. <<e>> \in Seq(Event)
    BY <1>3
  <2>3. /\ Refresh(record)' = Applied(Refresh(record), <<e>>)
        /\ Applied(disk, tail)' = Applied(Applied(disk, tail), <<e>>)
        /\ InBatch => Refresh(Back)' = Applied(Refresh(Back), <<e>>) /\ Refresh(Back) \in Record
        /\ record' = record /\ disk' = disk
    BY <1>4, <1>5, <2>2, Grown DEF InBatch
  <2> QED  BY <1>10, <2>1, <2>3
<1>12. record.state # "stopped" /\ disk.state # "stopped"
  BY <1>8, <1>9 DEF Ownership, RecordKnows, DiskKnows, Names
<1>13. NotStopped'
  <2>1. InBatch' => Refresh(Back)'.state = "busy"
    BY <1>5, <1>11 DEF InBatch
  <2> QED  BY <1>7, <1>11, <1>12, <2>1 DEF NotStopped
<1>14. Others(workers[w].id)' \cap Begun' = {}
  <2>1. Begun' \subseteq Begun \cup {r}
    <3>1. \A i \in DOMAIN executed' : executed'[i] = r \/ (i \in DOMAIN executed /\ executed'[i] = executed[i])
      BY <1>1, <1>2
    <3> QED  BY <3>1 DEF Begun, ToSet
  <2>2. \A q \in Others(workers[w].id)' : q \in requests /\ q # r
    BY <1>5, <1>6 DEF Others
  <2> QED  BY <2>1, <2>2 DEF Clean
<1>15. Works(w)'
  BY <1>6 DEF Works, Stage
<1>16. \A x \in Workers : Holder(x)' => x = w
  BY <1>8 DEF Ownership, OneHolder
<1>17. \A x \in Workers : workers'[x].pc = "leaving" => checkpoint'.pid # x
  BY <1>6, <1>7
<1>18. (InBatch' => call'.mode # "fresh") /\ call'.pc # "spawned"
  BY <1>5, <1>9 DEF InBatch
<1> QED  BY <1>13, <1>14, <1>15, <1>16, <1>17, <1>18 DEF InHand

\* Events other than the last one of a worker do not stop a run.
LEMMA RunsOn ==
  ASSUME NEW rec \in Record, rec.state # "stopped", NEW es \in Seq(Event),
         \A n \in 1..Len(es) : es[n].kind # "worker_stopped"
  PROVE  Applied(rec, es).state # "stopped"
<1> DEFINE S == {x \in Record : x.state # "stopped"}
<1>1. \A x \in S : \A n \in 1..Len(es) : Apply(x, es[n]) \in S
  <2> SUFFICES ASSUME NEW x \in S, NEW n \in 1..Len(es) PROVE Apply(x, es[n]) \in S
    OBVIOUS
  <2>1. es[n] \in Event /\ es[n].kind # "worker_stopped"
    OBVIOUS
  <2>2. Apply(x, es[n]) \in Record
    BY <2>1, ApplyType
  <2>3. Apply(x, es[n]).state # "stopped"
    BY <2>1, ApplyFields, EventKinds
  <2> QED  BY <2>2, <2>3
<1>2. rec \in S
  OBVIOUS
<1> HIDE DEF S
<1>3. Applied(rec, es) \in S
  BY <1>1, <1>2, AppliedWithin
<1> QED  BY <1>3 DEF S

\* Where the views say no more than before, and no other worker holds the run, a
\* request stays in the hands it was in.
LEMMA HandsStay ==
  ASSUME InHand, NotStopped', requests' \subseteq requests \/ (requests' = Written /\ Request \notin Begun),
         executed' = executed, checkpoint'.pid = checkpoint.pid,
         \A x \in Workers : /\ Holder(x)' => Holder(x) /\ Works(x)' = Works(x)
                            /\ workers'[x].pc = "leaving" => workers[x].pc = "leaving"
                            /\ workers'[x].id = workers[x].id,
         InBatch' => call'.mode # "fresh", call'.pc # "spawned"
  PROVE  InHand'
<1>1. Begun' = Begun
  BY DEF Begun
<1>2. \A q \in requests' : q \in requests \/ q \notin Begun
  BY DEF Written, Others
<1>3. ASSUME NEW x \in Workers, Holder(x)' PROVE Works(x)' /\ Others(workers[x].id)' \cap Begun' = {}
  <2>1. Works(x)' /\ Others(workers[x].id) \cap Begun = {}
    BY <1>3 DEF InHand
  <2>2. workers'[x].id = workers[x].id
    BY <1>3
  <2> QED  BY <1>1, <1>2, <2>1, <2>2 DEF Others
<1>4. \A x \in Workers : workers'[x].pc = "leaving" => checkpoint'.pid # x
  BY DEF InHand
<1> QED  BY <1>3, <1>4 DEF InHand

\* A worker goes on with its operation.
LEMMA WorksOn ==
  ASSUME OwnershipTypeOK, InHand, NEW w \in Workers, Works(w), NEW p, Moved(w, p),
         p.pc \in Stage \cup {"closing", "unlinking"}, p.id = workers[w].id,
         NEW es \in Seq(Event), Emit(es), \A n \in 1..Len(es) : es[n].kind # "worker_stopped",
         UNCHANGED <<requests, executed, call>>,
         checkpoint'.pid = checkpoint.pid, checkpoint'.alive = checkpoint.alive
  PROVE  InHand'
<1>1. workers'[w] = p /\ \A x \in Workers \ {w} : workers'[x] = workers[x]
  BY ProcessStep DEF OwnershipTypeOK
<1>2. NotStopped'
  <2>1. /\ Refresh(record)' = Applied(Refresh(record), es)
        /\ Applied(disk, tail)' = Applied(Applied(disk, tail), es)
        /\ InBatch => Refresh(Back)' = Applied(Refresh(Back), es) /\ Refresh(Back) \in Record
        /\ UNCHANGED <<record, disk, seen>>
    BY Grown DEF InBatch
  <2>2. Refresh(record) \in Record /\ Applied(disk, tail) \in Record
    BY ReadType
  <2>3. NotStopped
    BY DEF InHand
  <2>4. Refresh(record)'.state # "stopped" /\ Applied(disk, tail)'.state # "stopped"
    BY <2>1, <2>2, <2>3, RunsOn DEF NotStopped
  <2>5. InBatch => call.heard \/ Refresh(Back)'.state # "stopped"
    BY <2>1, <2>3, RunsOn DEF NotStopped
  <2>6. InBatch' = InBatch /\ call' = call
    BY DEF InBatch
  <2> QED  BY <2>1, <2>3, <2>4, <2>5, <2>6 DEF NotStopped
<1>3. Works(w)'
  BY <1>1 DEF Works
<1>4. \A x \in Workers : /\ Holder(x)' => Holder(x) /\ Works(x)' = Works(x)
                         /\ workers'[x].pc = "leaving" => workers[x].pc = "leaving"
                         /\ workers'[x].id = workers[x].id
  <2>1. Holder(w)
    BY DEF Works, Holder, Serving, Stage
  <2>2. ASSUME NEW x \in Workers \ {w} PROVE (Holder(x)' => Holder(x)) /\ Works(x)' = Works(x)
    BY <1>1 DEF Holder, Serving, Waits, Emit, Works
  <2>3. workers'[w].pc # "leaving" /\ workers'[w].id = workers[w].id /\ Works(w)' = Works(w)
    BY <1>1, <1>3 DEF Stage
  <2>4. ASSUME NEW x \in Workers
        PROVE  /\ Holder(x)' => Holder(x) /\ Works(x)' = Works(x)
               /\ workers'[x].pc = "leaving" => workers[x].pc = "leaving"
               /\ workers'[x].id = workers[x].id
    <3>1. CASE x = w
      BY <2>1, <2>3, <3>1
    <3>2. CASE x # w
      BY <1>1, <2>2, <3>2
    <3> QED  BY <3>1, <3>2
  <2> QED  BY <2>4
<1>5. (InBatch' => call'.mode # "fresh") /\ call'.pc # "spawned"
  BY DEF InHand, InBatch
<1> QED  BY <1>2, <1>4, <1>5, HandsStay

\* The steps of a worker after the request was taken: it stays in hand until its file
\* is gone.
LEMMA WorkerHands ==
  ASSUME OwnershipTypeOK, Ownership, Kept', InHand, NEW w \in Workers, Worker(w), ~Take(w)
  PROVE  Clean' \/ InHand'
<1> DEFINE Quietly(p) ==
      /\ Moved(w, p) /\ p.pc \in Stage \cup {"closing", "unlinking"} /\ p.id = workers[w].id
      /\ UNCHANGED <<requests, executed, call>>
      /\ checkpoint'.pid = checkpoint.pid /\ checkpoint'.alive = checkpoint.alive
<1>1. ASSUME NEW p, Works(w), Quietly(p), UNCHANGED <<record, disk, tail, seen>>
      PROVE  InHand'
  <2>1. tail \in Seq(Event) /\ tail \o <<>> = tail
    BY DEF OwnershipTypeOK, ViewsTypeOK
  <2> DEFINE es == <<>>
  <2>2. Emit(es) /\ es \in Seq(Event) /\ \A n \in 1..Len(es) : es[n].kind # "worker_stopped"
    BY <1>1, <2>1 DEF Emit
  <2> HIDE DEF es
  <2> QED  BY <1>1, <2>2, WorksOn
<1>2. ASSUME NEW p, Works(w), Quietly(p), NEW e \in Event, Emit(<<e>>), e.kind # "worker_stopped"
      PROVE  InHand'
  <2>1. <<e>> \in Seq(Event) /\ \A n \in 1..Len(<<e>>) : <<e>>[n].kind # "worker_stopped"
    BY <1>2
  <2> DEFINE es == <<e>>
  <2>2. es \in Seq(Event) /\ Emit(es) /\ \A n \in 1..Len(es) : es[n].kind # "worker_stopped"
    BY <1>2, <2>1
  <2> HIDE DEF es
  <2> QED  BY <1>2, <2>2, WorksOn
<1>3. workers[w] \in Process
  BY ProcessStep DEF OwnershipTypeOK
<1>4. \A pc \in Stage \cup {"closing", "unlinking"} :
        Go(w, pc) => LET p == [workers[w] EXCEPT !.pc = pc]
                     IN  Moved(w, p) /\ p.pc = pc /\ p.id = workers[w].id
  BY <1>3, ProcessStep DEF OwnershipTypeOK, Process, Pc, Rest
<1>5. workers[w].pc \in {"idle", "booting"} => FALSE
  <2>1. workers[w].pc \in {"idle", "booting"} => Holder(w) /\ ~Works(w)
    BY DEF Holder, Serving, Works, Stage
  <2> QED  BY <2>1 DEF InHand
<1>6. CASE AwaitPublication(w)
  <2>1. Waits(w) /\ UNCHANGED <<record, disk, tail, seen, requests, checkpoint, call, executed>>
    BY <1>6 DEF AwaitPublication, Waits, files, history, ByWorker
  <2>2. ~Holder(w)
    <3>1. ~Works(w)
      BY <2>1 DEF Waits, Works, Stage
    <3> QED  BY <3>1 DEF InHand
  <2>3. Go(w, "dead")
    <3>1. ~Published(w)
      BY <2>1, <2>2 DEF Holder, Published
    <3> QED  BY <1>6, <3>1 DEF AwaitPublication
  <2>4. /\ workers'[w].pc = "dead" /\ workers'[w].id = workers[w].id
        /\ \A x \in Workers \ {w} : workers'[x] = workers[x]
    BY <1>3, <2>3 DEF Go, OwnershipTypeOK, ProcessesTypeOK, Process
  <2>5. ASSUME NEW x \in Workers
        PROVE  /\ Holder(x)' => Holder(x) /\ Works(x)' = Works(x)
               /\ workers'[x].pc = "leaving" => workers[x].pc = "leaving"
               /\ workers'[x].id = workers[x].id
    <3>1. CASE x = w
      BY <2>4, <3>1 DEF Holder, Serving, Waits
    <3>2. CASE x # w
      BY <2>1, <2>4, <3>2 DEF Holder, Serving, Waits, Works
    <3> QED  BY <3>1, <3>2
  <2>6. NotStopped'
    <3>1. /\ Refresh(record)' = Refresh(record) /\ Applied(disk, tail)' = Applied(disk, tail)
          /\ Refresh(Back)' = Refresh(Back) /\ InBatch' = InBatch
      BY <2>1, Kept0 DEF Refresh, Back, InBatch, Unread
    <3> QED  BY <2>1, <3>1 DEF InHand, NotStopped
  <2> QED  BY <2>1, <2>5, <2>6, HandsStay DEF InHand, InBatch
<1>7. CASE Boot(w) \/ Leave(w)
  BY <1>5, <1>7 DEF Boot, Leave, At
<1>8. CASE Left(w)
  <2>1. checkpoint.pid # w /\ Slip("checkpoint", checkpoint.pid # w)
    BY <1>8 DEF Left, At, InHand
  <2> QED  BY <2>1 DEF Slip, Kept
<1>9. CASE Unlink(w)
  <2>1. At(w, "unlinking") /\ requests' = Others(workers[w].id) /\ executed' = executed
    BY <1>9 DEF Unlink
  <2>2. Holder(w)
    BY <2>1 DEF At, Holder, Serving
  <2> QED  BY <2>1, <2>2 DEF InHand, Clean, Begun
<1>10. CASE Prepare(w)
  <2> DEFINE p == [workers[w] EXCEPT !.pc = IF stop THEN "ending" ELSE "stage",
                                     !.tasks = IF stop THEN Asleep.tasks ELSE @]
             e == [kind |-> "prepared"]
  <2>1. p \in Process /\ p.pc \in Stage /\ p.id = workers[w].id
    <3>1. Asleep.tasks \in [Agents -> AgentStatus]
      BY DEF Asleep, AgentStatus
    <3> QED  BY <1>3, <3>1 DEF Process, Pc, Stage
  <2>2. Moved(w, p)
    <3>1. workers' = [workers EXCEPT ![w] = p]
      BY <1>10 DEF Prepare, OwnershipTypeOK, ProcessesTypeOK
    <3> HIDE DEF p
    <3> QED  BY <2>1, <3>1 DEF Moved
  <2>3. e \in Event /\ e.kind = "prepared"
    BY DEF Event
  <2>4. (Emit(<<e>>) \/ Emit(<<>>)) /\ UNCHANGED <<requests, executed, call, checkpoint>> /\ Works(w)
    BY <1>10 DEF Prepare, ByWorker, files, history, Works, At, Stage
  <2>5. Emit(<<>>) => UNCHANGED <<record, disk, tail, seen>>
    BY DEF Emit, OwnershipTypeOK, ViewsTypeOK
  <2> HIDE DEF p, e
  <2> QED  BY <1>1, <1>2, <2>1, <2>2, <2>3, <2>4, <2>5
<1>11. CASE Drain(w)
  <2> DEFINE p == [workers[w] EXCEPT !.tasks =
                     [a \in Agents |-> IF a \in window.pending THEN "queued" ELSE @[a]]]
  <2>1. p \in Process /\ p.pc = "stage" /\ p.id = workers[w].id
    <3>1. workers[w].pc = "stage"
      BY <1>11 DEF Drain, At
    <3>2. [a \in Agents |-> IF a \in window.pending THEN "queued" ELSE workers[w].tasks[a]]
            \in [Agents -> AgentStatus]
      BY <1>3 DEF AgentStatus, Pending, Process
    <3> QED  BY <1>3, <3>1, <3>2 DEF Process
  <2>2. Moved(w, p)
    <3>1. workers' = [workers EXCEPT ![w] = p]
      BY <1>11 DEF Drain, OwnershipTypeOK, ProcessesTypeOK
    <3> HIDE DEF p
    <3> QED  BY <2>1, <3>1 DEF Moved
  <2>3. /\ UNCHANGED <<record, disk, tail, seen, requests, executed, call, checkpoint>>
        /\ Works(w)
    BY <1>11 DEF Drain, ByWorker, history, Works, At, Stage
  <2> HIDE DEF p
  <2>4. p.pc \in Stage
    BY <2>1 DEF Stage
  <2> QED  BY <1>1, <2>1, <2>2, <2>3, <2>4
<1>12. CASE CloseStage(w) \/ Deactivate(w) \/ WriteCheckpoint(w)
  <2>1. PICK pc \in {"ending", "finishing", "unlinking"} : Go(w, pc)
    BY <1>12 DEF CloseStage, Deactivate, WriteCheckpoint
  <2>2. /\ UNCHANGED <<record, disk, tail, seen, requests, executed, call>> /\ Works(w)
        /\ checkpoint'.pid = checkpoint.pid /\ checkpoint'.alive = checkpoint.alive
    BY <1>12 DEF CloseStage, Deactivate, WriteCheckpoint, ByWorker, history, Works, At, Stage,
                 OwnershipTypeOK, ProcessesTypeOK
  <2>3. pc \in Stage \cup {"closing", "unlinking"}
    BY DEF Stage
  <2> QED  BY <1>1, <1>4, <2>1, <2>2, <2>3
<1>13. CASE ReportFailure(w) \/ Finish(w)
  <2>1. PICK pc \in {"deactivating", "closing"}, kind \in {"failed", "operation_finished"} :
          Go(w, pc) /\ Emit(<<[kind |-> kind]>>)
    BY <1>13 DEF ReportFailure, Finish
  <2>2. UNCHANGED <<requests, executed, call, checkpoint>> /\ Works(w)
    BY <1>13 DEF ReportFailure, Finish, ByWorker, files, history, Works, At, Stage
  <2>3. pc \in Stage \cup {"closing", "unlinking"}
    BY DEF Stage
  <2> DEFINE e == [kind |-> kind]
  <2>4. e \in Event /\ e.kind # "worker_stopped" /\ Emit(<<e>>)
    BY <2>1 DEF Event
  <2> HIDE DEF e
  <2> QED  BY <1>2, <1>4, <2>1, <2>2, <2>3, <2>4
<1>14. CASE ReportEnd(w)
  <2> DEFINE e == [kind |-> "ended", cancelled |-> stop]
             p == [workers[w] EXCEPT !.pc = "deactivating",
                     !.ok = ~stop /\ \/ workers[w].op = "batch"
                                     \/ \E a \in Agents : workers[w].tasks[a] = "success"]
  <2>1. p \in Process /\ p.pc = "deactivating" /\ p.id = workers[w].id
    <3>1. (~stop /\ \/ workers[w].op = "batch"
                    \/ \E a \in Agents : workers[w].tasks[a] = "success") \in BOOLEAN
      BY DEF OwnershipTypeOK, FilesTypeOK
    <3> QED  BY <1>3, <3>1 DEF Process, Pc, Stage
  <2>2. Moved(w, p)
    <3>1. workers' = [workers EXCEPT ![w] = p]
      BY <1>14 DEF ReportEnd, OwnershipTypeOK, ProcessesTypeOK
    <3> HIDE DEF p
    <3> QED  BY <2>1, <3>1 DEF Moved
  <2>3. e \in Event /\ e.kind # "worker_stopped"
    BY DEF Event, OwnershipTypeOK, FilesTypeOK
  <2>4. Emit(<<e>>) /\ UNCHANGED <<requests, executed, call, checkpoint>> /\ Works(w)
    BY <1>14 DEF ReportEnd, ByWorker, files, history, Works, At, Stage
  <2> HIDE DEF e, p
  <2>5. p.pc \in Stage
    BY <2>1 DEF Stage
  <2> QED  BY <1>2, <2>1, <2>2, <2>3, <2>4, <2>5
<1>15. ASSUME NEW a \in Agents, StartAgent(w, a) \/ FinishAgent(w, a) \/ HaltAgent(w, a)
       PROVE  InHand'
  <2>1. PICK s \in AgentStatus : /\ Emit(<<Agent(a, s)>>)
                                 /\ workers' = [workers EXCEPT ![w].tasks[a] = s]
    BY <1>15 DEF StartAgent, FinishAgent, HaltAgent, AgentEnds, AgentStatus, Pending, Terminal
  <2> DEFINE p == [workers[w] EXCEPT !.tasks = [@ EXCEPT ![a] = s]]
             e == Agent(a, s)
  <2>2. At(w, "stage") /\ UNCHANGED <<requests, executed, checkpoint, call>>
    BY <1>15 DEF StartAgent, FinishAgent, HaltAgent, AgentEnds, ByWorker, files, history
  <2>3. Moved(w, p)
    BY <2>1, ProcessStep DEF OwnershipTypeOK
  <2>4. p.pc = "stage" /\ p.id = workers[w].id
    BY <1>3, <2>2 DEF Process, At
  <2>5. e \in Event /\ e.kind # "worker_stopped" /\ Emit(<<e>>)
    BY <2>1 DEF Event, Agent
  <2>6. Works(w)
    BY <2>2 DEF Works, At, Stage
  <2> HIDE DEF p, e
  <2>7. p.pc \in Stage
    BY <2>4 DEF Stage
  <2> QED  BY <1>2, <2>2, <2>3, <2>4, <2>5, <2>6, <2>7
<1> QED  BY Worker(w), <1>6, <1>7, <1>8, <1>9, <1>10, <1>11, <1>12, <1>13, <1>14, <1>15 DEF Worker

\* Signals, crashes and failures leave the request in the hands it was in.
LEMMA IncidentHands ==
  ASSUME WorkerAssumption, OwnershipTypeOK, Ownership, InHand, Incident
  PROVE  InHand'
<1>1. CASE Restart
  <2>1. /\ call'.pc = "loading" /\ record' = disk
        /\ Refresh(record)' = Applied(disk, tail) /\ Applied(disk, tail)' = Applied(disk, tail)
        /\ UNCHANGED <<disk, checkpoint>>
    BY <1>1, RestartReads
  <2>2. UNCHANGED <<requests, executed>>
    BY <1>1 DEF Restart, files
  <2>3. ~InBatch'
    BY <2>1 DEF InBatch
  <2>4. NotStopped'
    BY <2>1, <2>3 DEF InHand, NotStopped
  <2>5. ASSUME NEW x \in Workers
        PROVE  /\ Holder(x)' => Holder(x) /\ Works(x)' = Works(x)
               /\ workers'[x].pc = "leaving" => workers[x].pc = "leaving"
               /\ workers'[x].id = workers[x].id
    <3>1. /\ workers'[x] = workers[x] \/ (workers'[x].pc = "orphaned" /\ workers[x].pc = "awaiting")
          /\ Waits(x)' = Waits(x) /\ Serving(x)' = Serving(x) /\ workers'[x].id = workers[x].id
      BY <1>1, RestartReads
    <3>2. Holder(x)' => Holder(x)
      BY <2>1, <3>1 DEF Holder
    <3>3. Works(x)' = Works(x)
      BY <3>1 DEF Works, Stage
    <3> QED  BY <3>1, <3>2, <3>3
  <2> QED  BY <2>1, <2>2, <2>3, <2>4, <2>5, HandsStay
<1>2. ASSUME NEW w \in Workers, Terminate(w) \/ Die(w) PROVE InHand'
  <2>1. UNCHANGED <<record, disk, tail, seen, requests, checkpoint, call, executed>>
    BY <1>2 DEF Terminate, Die, files, history
  <2>2. \/ workers' = workers
        \/ /\ workers'[w].pc = "dead" /\ workers'[w].id = workers[w].id
           /\ \A x \in Workers \ {w} : workers'[x] = workers[x]
    <3>1. workers \in [Workers -> Process] /\ workers[w] \in Process
      BY DEF OwnershipTypeOK, ProcessesTypeOK
    <3>2. CASE Terminate(w)
      BY <3>2 DEF Terminate
    <3>3. CASE Die(w)
      <4>1. workers' = [workers EXCEPT ![w].pc = "dead"]
        BY <3>3 DEF Die, Go
      <4>2. [workers[w] EXCEPT !.pc = "dead"].pc = "dead" /\ [workers[w] EXCEPT !.pc = "dead"].id = workers[w].id
        BY <3>1 DEF Process
      <4> QED  BY <3>1, <4>1, <4>2
    <3> QED  BY <1>2, <3>2, <3>3
  <2>3. ASSUME NEW x \in Workers
        PROVE  /\ Holder(x)' => Holder(x) /\ Works(x)' = Works(x)
               /\ workers'[x].pc = "leaving" => workers[x].pc = "leaving"
               /\ workers'[x].id = workers[x].id
    <3>1. CASE workers'[x] = workers[x]
      BY <2>1, <3>1 DEF Holder, Serving, Waits, Works
    <3>2. CASE workers'[x].pc = "dead" /\ workers'[x].id = workers[x].id
      BY <3>2 DEF Holder, Serving, Waits
    <3> QED  BY <2>2, <3>1, <3>2
  <2>4. NotStopped'
    <3>1. /\ Refresh(record)' = Refresh(record) /\ Applied(disk, tail)' = Applied(disk, tail)
          /\ Refresh(Back)' = Refresh(Back) /\ InBatch' = InBatch
      BY <2>1, Kept0 DEF Refresh, Back, InBatch, Unread
    <3> QED  BY <2>1, <3>1 DEF InHand, NotStopped
  <2> QED  BY <2>1, <2>3, <2>4, HandsStay DEF InHand, InBatch
<1>3. ASSUME NEW w \in Workers, NEW a \in Agents, StageFails(w, a) PROVE InHand'
  <2>1. PICK es \in Seq(Event) : Emit(es) /\ \A n \in 1..Len(es) : es[n].kind = "agent"
    BY <1>3, FailureEvents
  <2>2. At(w, "stage") /\ Go(w, "failing") /\ UNCHANGED <<checkpoint, requests, executed, call>>
    BY <1>3 DEF StageFails
  <2> DEFINE p == [workers[w] EXCEPT !.pc = "failing"]
  <2>3. Moved(w, p) /\ p.pc = "failing" /\ p.id = workers[w].id
    BY <2>2, ProcessStep DEF OwnershipTypeOK, Process, Pc, Stage
  <2>4. Works(w) /\ "failing" \in Stage
    BY <2>2 DEF Works, At, Stage
  <2>5. \A n \in 1..Len(es) : es[n].kind # "worker_stopped"
    BY <2>1
  <2> HIDE DEF p
  <2> QED  BY <2>1, <2>2, <2>3, <2>4, <2>5, WorksOn
<1> QED  BY <1>1, <1>2, <1>3 DEF Incident

\* The manager reads everything, and what it saves says of no worker that it left.
LEMMA SavesHands ==
  ASSUME InHand, NEW saved, NEW kept, SaveAnd(saved, kept), saved.state # "stopped", kept.state # "stopped",
         \A x \in Workers : Waits(x) /\ saved.pid = x => Holder(x),
         UNCHANGED <<workers, checkpoint, requests, executed>>, call'.pc # "spawned",
         InBatch' => call'.mode # "fresh" /\ (call'.heard \/ Refresh(Back)'.state # "stopped")
  PROVE  InHand'
<1>1. /\ record' = kept /\ disk' = saved /\ Refresh(record)' = kept /\ Applied(disk, tail)' = saved
  BY Saved
<1>2. NotStopped'
  BY <1>1 DEF InHand, NotStopped
<1>3. ASSUME NEW x \in Workers
      PROVE  /\ Holder(x)' => Holder(x) /\ Works(x)' = Works(x)
             /\ workers'[x].pc = "leaving" => workers[x].pc = "leaving"
             /\ workers'[x].id = workers[x].id
  BY <1>1 DEF Holder, Serving, Waits, Works
<1> QED  BY <1>2, <1>3, HandsStay

\* As long as the request is there its worker is not taken to have left.
LEMMA LooksOpen ==
  ASSUME OwnershipTypeOK, Ownership, InHand, ~Clean,
         NEW rec \in {Refresh(record), Required, Maintained(Required)}
  PROVE  /\ rec \in Record /\ rec.state # "stopped"
         /\ \A x \in Workers : Waits(x) /\ rec.pid = x => Holder(x)
<1>1. Refresh(record).state # "stopped" /\ Refresh(record) \in Record
  BY ReadType DEF InHand, NotStopped
<1>2. requests # {}
  BY DEF Clean
<1>3. Required.state # "stopped" /\ Required \in Record
  <2>1. ~ResultsKept(Refresh(record))
    BY <1>2 DEF ResultsKept
  <2> QED  BY <1>1, <2>1, DetectFields, DetectType DEF Required
<1>4. Maintained(Required).state # "stopped"
  BY <1>3 DEF Maintained, Record
<1> QED  BY <1>1, <1>3, <1>4, ReadKnows

\* A batch that is marked leaves it in hand: the record says no more than before that
\* the worker has left.
LEMMA MarkHands ==
  ASSUME OwnershipTypeOK, Ownership, InHand, Mark, executed' = executed
  PROVE  InHand'
<1>1. /\ call.pc = "begun" /\ UNCHANGED <<disk, tail, seen, requests, workers, checkpoint>>
      /\ Mode \in {"refused", "live", "queued", "fresh"}
      /\ Mode = "refused" => call' = Idle /\ UNCHANGED record
      /\ Mode # "refused" => MarkedAs(Mode)
  BY MarkCases DEF ByManager
<1>2. Mode # "fresh"
  BY DEF Mode, InHand, NotStopped
<1>3. Ownership' /\ OwnershipTypeOK'
  BY MarkOwns, ManagerType DEF Operation
<1>4. record \in Record /\ lastId \in Nat /\ Marked(record) \in Record
  BY <1>1, BatchRecords DEF OwnershipTypeOK, ViewsTypeOK, CallTypeOK
<1>5. Unread' = Unread /\ Applied(disk, tail)' = Applied(disk, tail)
  BY <1>1 DEF Unread
<1>6. ASSUME Mode # "refused"
      PROVE  /\ Rival(record, record') /\ Back' = record
             /\ call'.pc = "marked" /\ call'.mode # "fresh"
  BY <1>2, <1>6, MarkRecords
<1>7. NotStopped'
  <2>1. CASE Mode = "refused"
    <3>1. Refresh(record)' = Refresh(record) /\ ~InBatch'
      BY <1>1, <1>5, <2>1 DEF Refresh, InBatch, Idle
    <3> QED  BY <1>1, <1>5, <2>1, <3>1 DEF InHand, NotStopped
  <2>2. CASE Mode # "refused"
    <3>1. Rival(Refresh(record), Refresh(record)')
      <4>1. Rival(Applied(record, Unread), Applied(record', Unread))
        BY <1>6, <2>2, ReadType, RivalsStay
      <4> QED  BY <1>5, <4>1 DEF Refresh
    <3>2. Refresh(Back)' = Refresh(record)
      BY <1>5, <1>6, <2>2 DEF Refresh
    <3>3. record'.state # "stopped" /\ Refresh(record)'.state # "stopped"
      BY <1>6, <2>2, <3>1 DEF Rival, InHand, NotStopped
    <3> QED  BY <1>1, <1>5, <3>2, <3>3 DEF InHand, NotStopped
  <2> QED  BY <2>1, <2>2
<1>8. (InBatch' => call'.mode # "fresh") /\ call'.pc # "spawned"
  BY <1>1, <1>6 DEF Idle, InBatch
<1>9. \A x \in Workers : /\ Holder(x)' => Holder(x) /\ Works(x)' = Works(x)
                         /\ workers'[x].pc = "leaving" => workers[x].pc = "leaving"
                         /\ workers'[x].id = workers[x].id
  BY <1>1, <1>8 DEF Holder, Serving, Waits, Works
<1> QED  BY <1>1, <1>7, <1>8, <1>9, HandsStay

\* The calls of the manager leave it in hand, or move its file away.
LEMMA ManagerHands ==
  ASSUME OwnershipTypeOK, Ownership, Kept', InHand, ~Clean,
         Look \/ Stop \/ Waited \/ Begin \/ Operation \/ \E a \in Agents : Kill(a),
         requests' \subseteq requests \/ (requests' = Written /\ Request \notin Begun), executed' = executed
  PROVE  Clean' \/ InHand'
<1>1. ASSUME NEW rec \in {Refresh(record), Required, Maintained(Required)},
             NEW kept \in Record, kept.state = rec.state, SaveAnd(rec, kept),
             UNCHANGED <<workers, checkpoint, requests, executed>>,
             call'.pc \in {"none", "noting", "begun"}
      PROVE  InHand'
  <2>1. /\ rec.state # "stopped" /\ kept.state # "stopped"
        /\ \A x \in Workers : Waits(x) /\ rec.pid = x => Holder(x)
    BY <1>1, LooksOpen
  <2>2. ~InBatch' /\ call'.pc # "spawned"
    BY <1>1 DEF InBatch
  <2> QED  BY <1>1, <2>1, <2>2, SavesHands
<1>2. Refresh(record) \in Record /\ Required \in Record /\ Maintained(Required) \in Record
  BY LooksOpen
<1>3. CASE Look \/ Load \/ Note \/ Begin
  <2>1. PICK rec \in {Refresh(record), Required, Maintained(Required)} : SaveAnd(rec, rec)
    BY <1>3 DEF Look, Load, Note, Begin, SaveAll, Required
  <2>2. UNCHANGED <<workers, checkpoint, requests, executed>>
    BY <1>3 DEF Look, Load, Note, Begin, ByManager, OnlyFiles, files, history
  <2>3. call'.pc \in {"none", "noting", "begun"}
    <3>1. CASE Look \/ Load \/ Note
      BY <3>1 DEF Look, Load, Note, Idle
    <3>2. CASE Begin
      BY <3>2 DEF Begin
    <3> QED  BY <1>3, <3>1, <3>2
  <2> QED  BY <1>1, <1>2, <2>1, <2>2, <2>3
<1>4. CASE Stop
  <2> DEFINE kept == [Required EXCEPT !.status = "stopping"]
  <2>1. kept \in Record /\ kept.state = Required.state
    BY <1>2 DEF Record, RunStatus, ActiveStatus
  <2>2. /\ SaveAnd(Required, kept) /\ UNCHANGED <<workers, checkpoint, requests, executed>>
        /\ call'.pc = "noting"
    BY <1>4 DEF Stop, ByManager
  <2> QED  BY <1>1, <2>1, <2>2
<1>5. CASE Waited
  <2> DEFINE kept == IF Active(Required) THEN [Required EXCEPT !.status = "stopping"] ELSE Required
  <2>1. kept \in Record /\ kept.state = Required.state
    BY <1>2 DEF Record, RunStatus, ActiveStatus
  <2>2. /\ SaveAnd(Required, kept) /\ UNCHANGED <<workers, checkpoint, requests, executed>>
        /\ call'.pc = "none"
    BY <1>5 DEF Waited, ByManager, OnlyFiles, Idle
  <2> QED  BY <1>1, <2>1, <2>2
<1>6. ASSUME NEW a \in Agents, Kill(a) PROVE InHand'
  <2> DEFINE kept == [Required EXCEPT !.agents[a] = "stopping"]
  <2>1. kept \in Record /\ kept.state = Required.state
    BY <1>2 DEF Record, AgentStatus, Pending
  <2>2. /\ SaveAnd(Required, kept) /\ UNCHANGED <<workers, checkpoint, requests, executed>>
        /\ call'.pc = "noting"
    BY <1>6 DEF Kill, ByManager
  <2> QED  BY <1>1, <2>1, <2>2
<1>7. CASE Retired
  BY <1>7 DEF Retired, InHand, NotStopped
<1>8. CASE Archive
  BY <1>8 DEF Archive, Clean
<1>9. CASE Spawn \/ Publish
  BY <1>9 DEF Spawn, Publish, InHand, InBatch
<1>10. CASE Retire \/ NotRetired \/ SubmitLive \/ SubmitRequest
  <2>1. /\ UNCHANGED <<record, disk, tail, seen, checkpoint, workers>>
        /\ call'.pc \in {"none", "retiring"}
    <3>1. CASE Retire
      <4>1. call.pc = "begun" /\ call' = [call EXCEPT !.pc = "retiring"]
        BY <3>1 DEF Retire
      <4>2. call'.pc = "retiring"
        BY <4>1, CallFields
      <4> QED  BY <3>1, <4>2 DEF Retire, ByManager
    <3>2. CASE NotRetired \/ SubmitLive \/ SubmitRequest
      BY <3>2 DEF NotRetired, SubmitLive, SubmitRequest, ByManager, Idle
    <3> QED  BY <1>10, <3>1, <3>2
  <2>2. ~InBatch' /\ call'.pc # "spawned"
    BY <2>1 DEF InBatch
  <2>3. NotStopped'
    <3>1. Refresh(record)' = Refresh(record) /\ Applied(disk, tail)' = Applied(disk, tail)
      BY <2>1, Kept0
    <3> QED  BY <2>1, <2>2, <3>1 DEF InHand, NotStopped
  <2>4. \A x \in Workers : /\ Holder(x)' => Holder(x) /\ Works(x)' = Works(x)
                           /\ workers'[x].pc = "leaving" => workers[x].pc = "leaving"
                           /\ workers'[x].id = workers[x].id
    BY <2>1, <2>2 DEF Holder, Serving, Waits, Works
  <2> QED  BY <2>1, <2>2, <2>3, <2>4, HandsStay
<1>11. CASE Announce
  <2>1. call.pc = "marked" /\ InBatch /\ call.mode # "fresh"
    BY <1>11 DEF Announce, InHand, InBatch
  <2>2. /\ call'.pc = "announced" /\ call'.mode = call.mode /\ call'.agents = call.agents
        /\ call'.prev = call.prev /\ call'.heard = (Unread # <<>>)
    <3>1. call' = [call EXCEPT !.pc = "announced", !.heard = Unread # <<>>]
      BY <1>11 DEF Announce
    <3> QED  BY <2>1, <3>1, CallFields
  <2> DEFINE saved == Refresh(record)
  <2>3. SaveAnd(saved, saved) /\ UNCHANGED <<workers, checkpoint, requests, executed>>
    BY <1>11, <2>1 DEF Announce, SaveAll, ByManager, OnlyFiles
  <2>4. saved.state # "stopped" /\ \A x \in Workers : Waits(x) /\ saved.pid = x => Holder(x)
    BY LooksOpen
  <2>5. call'.heard \/ Refresh(Back)'.state # "stopped"
    <3> SUFFICES ASSUME ~call'.heard PROVE Refresh(Back)'.state # "stopped"
      OBVIOUS
    <3>1. Unread = <<>> /\ Refresh(record) = record
      BY <2>2, AppliedFew DEF Refresh
    <3>2. record' = record /\ Unread' = <<>>
      BY <2>3, <3>1, Saved
    <3>3. Back' = Back
      BY <2>2, <3>2 DEF Back
    <3>4. Refresh(Back)' = Back /\ Refresh(Back) = Back
      BY <3>1, <3>2, <3>3, AppliedFew DEF Refresh
    <3>5. ~call.heard
      BY <2>1 DEF Ownership, CallFits
    <3> QED  BY <2>1, <3>4, <3>5 DEF InHand, NotStopped
  <2> HIDE DEF saved
  <2>6. call'.pc # "spawned" /\ (InBatch' => call'.mode # "fresh" /\ (call'.heard \/ Refresh(Back)'.state # "stopped"))
    BY <2>1, <2>2, <2>5
  <2> QED  BY <2>3, <2>4, <2>6, SavesHands
<1>12. CASE RollBack
  <2> DEFINE saved == Refresh(Back)
  <2>1. call.pc = "announced" /\ ~call.heard /\ InBatch
    <3>1. call.pc = "announced" /\ Slip("record", call.heard)
      BY <1>12 DEF RollBack
    <3> QED  BY <3>1 DEF Slip, Kept, InBatch
  <2>2. /\ SaveAnd(saved, saved) /\ UNCHANGED <<workers, checkpoint, requests, executed>>
        /\ call'.pc = "none"
    BY <1>12 DEF RollBack, SaveAll, Back, ByManager, OnlyFiles, Idle
  <2>3. saved.state # "stopped"
    BY <2>1 DEF InHand, NotStopped
  <2>4. \A x \in Workers : Waits(x) /\ saved.pid = x => Holder(x)
    <3>1. Back \in Record /\ Back.pid = record.pid
      BY <2>1, BatchRecords DEF Back, OwnershipTypeOK, ViewsTypeOK, Record
    <3> QED  BY <3>1, NotNamed
  <2> HIDE DEF saved
  <2>5. ~InBatch' /\ call'.pc # "spawned"
    BY <2>2 DEF InBatch
  <2> QED  BY <2>2, <2>3, <2>4, <2>5, SavesHands
<1>13. CASE Mark
  BY <1>13, MarkHands
<1> QED  BY <1>3, <1>4, <1>5, <1>6, <1>7, <1>8, <1>9, <1>10, <1>11, <1>12, <1>13 DEF Operation

\* Every step keeps what is known of the requests that were begun.
LEMMA BegunStep ==
  ASSUME WorkerAssumption, BegunInv, [Next]_vars
  PROVE  BegunInv'
<1>1. OwnerInv /\ OwnerInv' /\ OwnershipTypeOK
  BY OwnerStep DEF BegunInv, OwnerInv
<1>2. ASSUME Kept' PROVE Numbered' /\ (Clean' \/ InHand')
  <2>1. Kept /\ Ownership /\ Ownership' /\ Numbered /\ (Clean \/ InHand)
    BY <1>1, <1>2, SlipsGrow DEF BegunInv, OwnerInv, Kept
  <2>2. \A w \in Workers : Take(w) => Clean
    BY <1>1, <2>1, TakesClean
  <2>3. Numbered'
    BY <1>1, <2>1, <2>2, NumberedStep
  <2>4. ASSUME NEW w \in Workers, Take(w) PROVE InHand'
    BY <1>1, <2>1, <2>2, <2>4, TakeOwns
  <2>5. ASSUME \A w \in Workers : ~Take(w) PROVE Clean' \/ InHand'
    <3>1. executed' = executed /\ (requests' \subseteq requests \/ (requests' = Written /\ Request \notin Begun))
      BY <1>1, <2>1, <2>5, RequestsStep
    <3>2. Begun' = Begun
      BY <3>1 DEF Begun
    <3>3. CASE Clean
      BY <3>1, <3>2, <3>3 DEF Clean, Written, Others
    <3>4. CASE ~Clean
      <4>1. InHand
        BY <2>1, <3>4
      <4>2. CASE UNCHANGED vars
        <5>1. UNCHANGED <<record, disk, tail, seen, requests, checkpoint, workers, call, executed>>
          BY <4>2 DEF vars, files, history
        <5>2. /\ Refresh(record)' = Refresh(record) /\ Applied(disk, tail)' = Applied(disk, tail)
              /\ Refresh(Back)' = Refresh(Back) /\ InBatch' = InBatch
          BY <5>1, Kept0 DEF Refresh, Back, InBatch, Unread
        <5>3. NotStopped'
          BY <4>1, <5>1, <5>2 DEF InHand, NotStopped
        <5>4. \A x \in Workers : /\ Holder(x)' => Holder(x) /\ Works(x)' = Works(x)
                                 /\ workers'[x].pc = "leaving" => workers[x].pc = "leaving"
                                 /\ workers'[x].id = workers[x].id
          BY <5>1 DEF Holder, Serving, Waits, Works
        <5> QED  BY <4>1, <5>1, <5>3, <5>4, HandsStay DEF InHand, InBatch
      <4>3. CASE Look \/ Stop \/ Waited \/ Begin \/ Operation \/ \E a \in Agents : Kill(a)
        BY <1>1, <1>2, <2>1, <3>1, <3>4, <4>1, <4>3, ManagerHands
      <4>4. CASE Incident
        BY <1>1, <2>1, <4>1, <4>4, IncidentHands
      <4>5. ASSUME NEW w \in Workers, Worker(w) PROVE Clean' \/ InHand'
        BY <1>1, <1>2, <2>1, <2>5, <4>1, <4>5, WorkerHands
      <4> QED  BY <4>2, <4>3, <4>4, <4>5 DEF Next
    <3> QED  BY <3>3, <3>4
  <2> QED  BY <2>3, <2>4, <2>5
<1> QED  BY <1>1, <1>2 DEF BegunInv

\* No batch is executed a second time, for any agents, number of workers and course of
\* calls, stops, crashes and rescues.
THEOREM ExecutedOnceHolds == Spec => []ExecutedOnce
<1>1. Init => BegunInv
  <2> SUFFICES ASSUME Init PROVE BegunInv
    OBVIOUS
  <2>1. OwnerInv
    BY TypeInit, OwnerInit, WorkerAssumption DEF OwnerInv
  <2>2. /\ executed = <<>> /\ lastId = 1 /\ call.pc = "none"
        /\ \A r \in requests : r.batch = 1
    BY DEF Init, Idle
  <2>3. Begun = {} /\ IsInjective(executed)
    BY <2>2 DEF Begun, ToSet, IsInjective
  <2>4. Numbered
    BY <2>2, <2>3 DEF Numbered, InBatch
  <2> QED  BY <2>1, <2>3, <2>4 DEF BegunInv, Clean
<1>2. BegunInv /\ [Next]_vars => BegunInv'
  BY BegunStep, WorkerAssumption
<1>3. BegunInv => ExecutedOnce
  BY DEF BegunInv, Numbered, ExecutedOnce
<1> QED  BY <1>1, <1>2, <1>3, PTL DEF Spec

-----------------------------------------------------------------------------
(* The first batch                                                             *)

\* The first worker is one.
LEMMA FirstWorker ==
  ASSUME WorkerAssumption
  PROVE  1 \in Workers
  BY DEF WorkerAssumption, Workers

\* A record that shows the first batch shows it after its events, too.
LEMMA ShownStays ==
  ASSUME NEW rec \in Record, Shown(rec), NEW es \in Seq(Event), \A n \in 1..Len(es) : OpeningEvent(es[n])
  PROVE  Applied(rec, es) \in Record /\ Shown(Applied(rec, es))
<1> DEFINE S == {x \in Record : Shown(x)}
<1>1. \A x \in S : \A n \in 1..Len(es) : Apply(x, es[n]) \in S
  <2> SUFFICES ASSUME NEW x \in S, NEW n \in 1..Len(es) PROVE Apply(x, es[n]) \in S
    OBVIOUS
  <2>1. es[n] \in Event /\ OpeningEvent(es[n])
    OBVIOUS
  <2>2. Apply(x, es[n]) \in Record
    BY <2>1, ApplyType
  <2>3. Shown(Apply(x, es[n]))
    BY <2>1, ApplyFields, EventKinds DEF OpeningEvent, Shown, Asked
  <2> QED  BY <2>2, <2>3
<1>2. rec \in S
  OBVIOUS
<1> HIDE DEF S
<1>3. Applied(rec, es) \in S
  BY <1>1, <1>2, AppliedWithin
<1> QED  BY <1>3 DEF S

UntakenEvents == {<<>>, <<StartEvent>>, <<StopEvent>>, <<StartEvent, StopEvent>>}

\* What these two events make of a record.
LEMMA StartOrStop ==
  ASSUME WorkerAssumption, NEW rec \in Record
  PROVE  LET started == Apply(rec, StartEvent)
             stopped == Apply(rec, StopEvent)
         IN /\ StartEvent \in Event /\ StopEvent \in Event /\ UntakenEvents \subseteq Seq(Event)
            /\ started \in Record /\ stopped \in Record
            /\ Asked(rec) => Asked(started)
            /\ started.agents = rec.agents /\ stopped.agents = rec.agents
            /\ stopped.op = "" /\ stopped.state = "stopped"
<1>1. StartEvent \in Event /\ StopEvent \in Event
  BY FirstWorker DEF StartEvent, StopEvent, Event
<1>2. StartEvent.kind = "worker_started" /\ StopEvent.kind = "worker_stopped"
  BY DEF StartEvent, StopEvent
<1>3. Apply(rec, StartEvent).agents = rec.agents /\ Apply(rec, StopEvent).agents = rec.agents
  BY <1>2 DEF Apply, Record, NoOperation
<1>4. UntakenEvents \subseteq Seq(Event)
  BY <1>1 DEF UntakenEvents
<1>5. Apply(rec, StartEvent) \in Record /\ Apply(rec, StopEvent) \in Record
  BY <1>1, ApplyType
<1>6. Asked(rec) => Asked(Apply(rec, StartEvent))
  BY <1>1, <1>2, ApplyFields DEF Asked
<1>7. Apply(rec, StopEvent).op = "" /\ Apply(rec, StopEvent).state = "stopped"
  BY <1>1, <1>2, ApplyFields
<1> QED  BY <1>1, <1>3, <1>4, <1>5, <1>6, <1>7

\* One event put after none or one.
LEMMA Pairs ==
  ASSUME NEW E, NEW d \in E, NEW e \in E
  PROVE  <<>> \o <<e>> = <<e>> /\ <<d>> \o <<e>> = <<d, e>>
<1>1. \A x \in E : <<x>> \in Seq(E) /\ Len(<<x>>) = 1 /\ <<x>>[1] = x
  OBVIOUS
<1>2. <<d, e>> \in Seq(E) /\ Len(<<d, e>>) = 2 /\ <<d, e>>[1] = d /\ <<d, e>>[2] = e
  OBVIOUS
<1>3. <<>> \o <<e>> = <<e>>
  BY <1>1, ConcatEmptySeq
<1>4. PICK s \in Seq(E) : s = <<d>> /\ Len(s) = 1 /\ s[1] = d
  BY <1>1
<1>5. PICK t \in Seq(E) : t = <<e>> /\ Len(t) = 1 /\ t[1] = e
  BY <1>1
<1>6. PICK p \in Seq(E) : p = <<d, e>> /\ Len(p) = 2 /\ p[1] = d /\ p[2] = e
  BY <1>2
<1>7. s \o t \in Seq(E) /\ Len(s \o t) = 2 /\ \A i \in 1..2 : (s \o t)[i] = p[i]
  BY <1>4, <1>5, <1>6, ConcatProperties
<1>8. s \o t = p
  BY <1>6, <1>7, SeqEqual
<1> QED  BY <1>3, <1>4, <1>5, <1>6, <1>8

\* Two events are taken in one after the other.
LEMMA TwoApplied ==
  ASSUME NEW rec, NEW E, NEW d \in E, NEW e \in E
  PROVE  Applied(rec, <<d, e>>) = Applied(Applied(rec, <<d>>), <<e>>)
<1> DEFINE s == <<d>>  t == <<e>>
<1>1. s \in Seq(E) /\ t \in Seq(E)
  OBVIOUS
<1>2. s \o t = <<d, e>>
  BY Pairs
<1> HIDE DEF s, t
<1>3. Applied(rec, s \o t) = Applied(Applied(rec, s), t)
  BY <1>1, AppliedConcat
<1> QED  BY <1>2, <1>3 DEF s, t

\* Before the batch is taken, events leave a record that did not move unmoved.
LEMMA UnmovedStays ==
  ASSUME WorkerAssumption, NEW rec \in Record, NEW es \in UntakenEvents, Unmoved(rec, es)
  PROVE  /\ Applied(rec, es) \in Record /\ Unmoved(Applied(rec, es), <<>>)
         /\ Applied(rec, es).state = "crashed" => rec.state = "crashed"
<1>1. Applied(rec, <<>>) = rec
  BY AppliedFew
<1>2. CASE es = <<>>
  BY <1>1, <1>2 DEF Unmoved
<1>3. CASE es # <<>>
  <2>1. Asked(rec) /\ Untouched(rec)
    BY <1>3 DEF Unmoved
  <2> DEFINE started == Apply(rec, StartEvent)
  <2>2. started \in Record /\ Asked(started) /\ Untouched(started)
    BY <2>1, StartOrStop DEF Untouched
  <2>3. ASSUME NEW x \in Record, Untouched(x)
        PROVE  LET y == Apply(x, StopEvent) IN
               y \in Record /\ y.op = "" /\ y.state = "stopped" /\ Untouched(y)
    BY <2>3, StartOrStop DEF Untouched
  <2>4. CASE es = <<StartEvent>>
    <3>1. Applied(rec, es) = started
      BY <2>4, AppliedFew
    <3> QED  BY <2>2, <3>1 DEF Unmoved, Asked
  <2>5. CASE es = <<StopEvent>>
    <3>1. Applied(rec, es) = Apply(rec, StopEvent)
      BY <2>5, AppliedFew
    <3> QED  BY <2>1, <2>3, <3>1 DEF Unmoved
  <2>6. CASE es = <<StartEvent, StopEvent>>
    <3>1. StartEvent \in Event /\ StopEvent \in Event
      BY StartOrStop
    <3>2. Applied(rec, es) = Applied(Applied(rec, <<StartEvent>>), <<StopEvent>>)
      BY <2>6, <3>1, TwoApplied
    <3>3. Applied(rec, es) = Apply(started, StopEvent)
      BY <3>2, AppliedFew
    <3> QED  BY <2>2, <2>3, <3>3 DEF Unmoved
  <2> QED  BY <1>3, <2>4, <2>5, <2>6 DEF UntakenEvents
<1> QED  BY <1>2, <1>3

(* The first request is not written again, and who is at it went on or took it.*)
FirstMoves ==
    /\ \A r \in requests' : r.op = "initial" => r \in requests
    /\ executed # <<>> => executed' # <<>>
    /\ \A w \in Workers : workers'[w].op = "initial" =>
         \/ /\ workers[w].op = "initial" /\ workers'[w].id = workers[w].id
            /\ workers'[w].pc \in Stage => workers[w].pc \in Stage
         \/ At(w, "idle") /\ \E r \in requests : r.op = "initial" /\ workers'[w].id = r.id

\* The steps of a worker move it so.
LEMMA WorkerMovesFirst ==
  ASSUME OwnershipTypeOK, NEW v \in Workers, Worker(v)
  PROVE  FirstMoves
<1>0. /\ workers \in [Workers -> Process]
      /\ \A w \in Workers : workers[w] \in Process
      /\ executed \in Seq(AnyRequest)
  BY DEF OwnershipTypeOK, ProcessesTypeOK, HistoryTypeOK
<1>1. CASE Take(v)
  <2>1. PICK r \in requests :
          /\ workers' = [workers EXCEPT ![v] =
                [pc |-> "preparing", id |-> r.id, op |-> r.op, ok |-> FALSE,
                 tasks |-> [a \in Agents |-> IF a \in r.agents THEN "queued" ELSE "none"]]]
          /\ executed' = Append(executed, r)
    BY <1>1 DEF Take
  <2>2. At(v, "idle") /\ requests' = requests
    BY <1>1 DEF Take
  <2>3. r \in AnyRequest
    BY DEF OwnershipTypeOK, FilesTypeOK
  <2>4. executed' # <<>>
    BY <1>0, <2>1, <2>3
  <2>5. workers'[v].id = r.id /\ workers'[v].op = r.op /\ \A w \in Workers \ {v} : workers'[w] = workers[w]
    BY <1>0, <2>1
  <2> QED  BY <2>2, <2>4, <2>5 DEF FirstMoves
<1>2. CASE Unlink(v)
  <2>1. workers' = [workers EXCEPT ![v] = [Asleep EXCEPT !.pc = "idle"]] /\ requests' \subseteq requests
    BY <1>2 DEF Unlink, Others
  <2>2. executed' = executed
    BY <1>2 DEF Unlink
  <2>3. workers'[v].op = "" /\ \A w \in Workers \ {v} : workers'[w] = workers[w]
    BY <1>0, <2>1 DEF Asleep
  <2> QED  BY <2>1, <2>2, <2>3 DEF FirstMoves
<1>3. CASE AwaitPublication(v) \/ Boot(v) \/ Drain(v) \/ CloseStage(v) \/ ReportFailure(v) \/ Deactivate(v)
           \/ Finish(v) \/ WriteCheckpoint(v) \/ Leave(v) \/ Left(v)
  <2>1. requests' = requests /\ executed' = executed
    BY <1>3 DEF AwaitPublication, Boot, Drain, CloseStage, ReportFailure, Deactivate, Finish, WriteCheckpoint,
                Leave, Left, files, history
  <2>2. /\ workers'[v].op = workers[v].op /\ workers'[v].id = workers[v].id
        /\ workers'[v].pc \in Stage => workers[v].pc \in Stage
        /\ \A w \in Workers \ {v} : workers'[w] = workers[w]
    <3>1. CASE Drain(v)
      BY <1>0, <3>1 DEF Drain, Process
    <3>2. CASE ~Drain(v)
      <4>1. \E pc \in Pc : Go(v, pc) /\ (pc \in Stage => workers[v].pc \in Stage)
        BY <1>3, <3>2 DEF AwaitPublication, Boot, CloseStage, ReportFailure, Deactivate, Finish, WriteCheckpoint,
                          Leave, Left, At, Pc, Stage, Rest
      <4>2. PICK pc \in Pc : Go(v, pc) /\ (pc \in Stage => workers[v].pc \in Stage)
        BY <4>1
      <4> QED  BY <1>0, <4>2 DEF Go, Process
    <3> QED  BY <3>1, <3>2
  <2> QED  BY <2>1, <2>2 DEF FirstMoves
<1>4. CASE Prepare(v) \/ ReportEnd(v) \/ \E a \in Agents : StartAgent(v, a) \/ FinishAgent(v, a) \/ HaltAgent(v, a)
  <2>1. requests' = requests /\ executed' = executed
    BY <1>4 DEF Prepare, ReportEnd, StartAgent, FinishAgent, HaltAgent, AgentEnds, files, history
  <2>2. /\ workers'[v].op = workers[v].op /\ workers'[v].id = workers[v].id
        /\ workers'[v].pc \in Stage => workers[v].pc \in Stage
        /\ \A w \in Workers \ {v} : workers'[w] = workers[w]
    <3>1. CASE Prepare(v)
      BY <1>0, <3>1 DEF Prepare, At, Process, Stage
    <3>2. CASE ReportEnd(v)
      BY <1>0, <3>2 DEF ReportEnd, At, Process, Stage
    <3>3. ASSUME NEW a \in Agents, StartAgent(v, a) \/ FinishAgent(v, a) \/ HaltAgent(v, a)
          PROVE  \E st : workers' = [workers EXCEPT ![v].tasks[a] = st]
      BY <3>3 DEF StartAgent, FinishAgent, HaltAgent, AgentEnds
    <3>4. ASSUME NEW a \in Agents, NEW st, workers' = [workers EXCEPT ![v].tasks[a] = st]
          PROVE  /\ workers'[v].op = workers[v].op /\ workers'[v].id = workers[v].id
                 /\ workers'[v].pc = workers[v].pc
                 /\ \A w \in Workers \ {v} : workers'[w] = workers[w]
      BY <1>0, <3>4 DEF Process
    <3> QED  BY <1>4, <3>1, <3>2, <3>3, <3>4
  <2> QED  BY <2>1, <2>2 DEF FirstMoves
<1> QED  BY <1>1, <1>2, <1>3, <1>4 DEF Worker

\* So does every step.
LEMMA StepMovesFirst ==
  ASSUME OwnershipTypeOK, [Next]_vars
  PROVE  FirstMoves
<1>0. /\ workers \in [Workers -> Process]
      /\ \A w \in Workers : workers[w] \in Process
  BY DEF OwnershipTypeOK, ProcessesTypeOK
<1>1. CASE UNCHANGED vars
  BY <1>1 DEF vars, files, history, FirstMoves
<1>2. CASE Look \/ Stop \/ Waited \/ Begin \/ \E a \in Agents : Kill(a)
  BY <1>2 DEF Look, Stop, Waited, Begin, Kill, ByManager, OnlyFiles, files, history, FirstMoves
<1>3. CASE SubmitRequest \/ Spawn
  <2>1. requests' = Written /\ Request.op = "batch"
    BY <1>3 DEF SubmitRequest, Spawn, Request
  <2>2. executed' = executed
    BY <1>3 DEF SubmitRequest, Spawn, Accepted, history
  <2>3. \A w \in Workers : workers'[w] = workers[w] \/ workers'[w].op = ""
    BY <1>0, <1>3 DEF SubmitRequest, Spawn, Asleep
  <2> QED  BY <2>1, <2>2, <2>3 DEF FirstMoves, Written, Others
<1>4. CASE Load \/ Note \/ Retire \/ Retired \/ NotRetired \/ Archive \/ Mark \/ Announce \/ SubmitLive
           \/ RollBack \/ Publish
  BY <1>4 DEF Load, Note, Retire, Retired, NotRetired, Archive, Mark, Announce, SubmitLive, RollBack,
              Publish, Accepted, ByManager, Parted, OnlyFiles, FirstMoves
<1>5. CASE Incident
  <2>1. requests' = requests /\ executed' = executed
    BY <1>5 DEF Incident, Restart, Terminate, Die, StageFails, files, history
  <2>2. \A w \in Workers :
          /\ workers'[w].op = workers[w].op /\ workers'[w].id = workers[w].id
          /\ workers'[w].pc \in Stage => workers[w].pc \in Stage
    <3>1. CASE Restart
      BY <1>0, <3>1 DEF Restart, Process, Stage, Pc
    <3>2. ASSUME NEW v \in Workers, Terminate(v) \/ Die(v) \/ \E a \in Agents : StageFails(v, a)
          PROVE  \A w \in Workers :
                   /\ workers'[w].op = workers[w].op /\ workers'[w].id = workers[w].id
                   /\ workers'[w].pc \in Stage => workers[w].pc \in Stage
      <4>1. UNCHANGED workers \/ \E pc \in {"dead", "failing"} : Go(v, pc) /\ (pc = "failing" => At(v, "stage"))
        BY <3>2 DEF Terminate, Die, StageFails
      <4>2. ASSUME NEW pc \in {"dead", "failing"}, Go(v, pc), pc = "failing" => At(v, "stage")
            PROVE  \A w \in Workers :
                     /\ workers'[w].op = workers[w].op /\ workers'[w].id = workers[w].id
                     /\ workers'[w].pc \in Stage => workers[w].pc \in Stage
        BY <1>0, <4>2 DEF Go, At, Process, Stage
      <4> QED  BY <4>1, <4>2
    <3> QED  BY <1>5, <3>1, <3>2 DEF Incident
  <2> QED  BY <2>1, <2>2 DEF FirstMoves
<1>6. CASE \E w \in Workers : Worker(w)
  BY <1>6, WorkerMovesFirst
<1> QED  BY <1>1, <1>2, <1>3, <1>4, <1>5, <1>6 DEF Next, Operation

\* What holds of the first batch in any case, and all of it when its request is gone.
LEMMA FirstGone ==
  ASSUME WorkerAssumption, OwnershipTypeOK, FirstBatch, FirstMoves
  PROVE  OnlyFirst' /\ (~FirstHere => FirstBatch')
<1>1. OnlyFirst'
  <2>1. OnlyFirst /\ (FirstHere => NoOther)
    BY DEF FirstBatch
  <2>2. ASSUME NEW w \in Workers, At(w, "idle"), FirstHere PROVE w = 1
    <3>1. Asleep.pc = "none"
      BY DEF Asleep
    <3> QED  BY <2>1, <2>2, <3>1 DEF NoOther, At
  <2> QED  BY <2>1, <2>2 DEF FirstMoves, OnlyFirst, FirstHere
<1>2. ASSUME ~FirstHere PROVE FirstBatch'
  <2>1. ~FirstHere' /\ executed # <<>> /\ executed' # <<>>
    BY <1>2 DEF FirstBatch, FirstMoves, FirstHere
  <2>2. ~Opening'
    BY <1>2, <2>1, FirstWorker DEF FirstBatch, FirstMoves, FirstHere, Opening
  <2> QED  BY <1>1, <2>1, <2>2 DEF FirstBatch
<1> QED  BY <1>1, <1>2

\* What is unread is part of the events, and all of them when nothing was seen.
LEMMA UnreadWithin ==
  ASSUME OwnershipTypeOK
  PROVE  /\ Unread \in Seq(Event)
         /\ \A n \in 1..Len(Unread) : \E i \in DOMAIN tail : Unread[n] = tail[i]
         /\ seen = 0 => Unread = tail
<1>1. tail \in Seq(Event) /\ seen \in 0..Len(tail)
  BY DEF OwnershipTypeOK, ViewsTypeOK
<1>2. Unread \in Seq(Event) /\ Unread = SubSeq(tail, seen + 1, Len(tail))
  BY ReadType DEF Unread
<1>3. \A n \in 1..Len(Unread) : Unread[n] = tail[seen + n] /\ seen + n \in 1..Len(tail)
  BY <1>1, <1>2
<1>4. seen = 0 => Unread = tail
  BY <1>1, <1>2, UnreadEnds
<1> QED  BY <1>1, <1>2, <1>3, <1>4

(* What the manager may be in the middle of while the first request is there   *)
FirstCall ==
    /\ call.pc \notin {"retiring", "spawned"}
    /\ call.pc = "begun" =>
         /\ call.kind # "resume" /\ (call.kind = "retained" => record.state # "stopped")
         /\ Opening \/ executed = <<>> => call.kind # "rescue"
    /\ InBatch =>
         /\ call.mode # "fresh"
         /\ Opening \/ executed = <<>> => call.mode = "live" /\ Asked(call.prev)
         /\ executed = <<>> => Untouched(call.prev) /\ record.state # "crashed"
         /\ executed # <<>> => call.prev.state # "stopped"

\* What a record may be that has read all events
FirstRecord(rec) ==
    /\ rec \in Record
    /\ Opening => Shown(rec)
    /\ executed = <<>> => Unmoved(rec, <<>>)
    /\ executed # <<>> => rec.state # "stopped"

\* The parts of the invariant, as the steps of the manager need them.
LEMMA FirstParts ==
  ASSUME WorkerAssumption, OwnershipTypeOK, FirstBatch, FirstHere
  PROVE  /\ FirstCall /\ NoOther
         /\ Opening => OpeningFits
         /\ executed = <<>> => UntakenFits /\ tail \in UntakenEvents /\ Unread = tail
         /\ executed # <<>> => TakenFits
         /\ workers[1].pc \in {"booting", "idle", "leaving", "closing", "unlinking", "dead"} \cup Stage
<1>1. /\ NoOther /\ (Opening => OpeningFits) /\ (executed = <<>> => UntakenFits)
      /\ (executed # <<>> => TakenFits)
  BY DEF FirstBatch
<1>2. FirstCall
  BY <1>1 DEF FirstCall, NoOther, OpeningFits, UntakenFits, TakenFits
<1>3. executed = <<>> => tail \in UntakenEvents /\ Unread = tail
  BY <1>1, UnreadWithin DEF UntakenFits, UntakenEvents
<1>4. workers[1].pc \in {"booting", "idle", "leaving", "closing", "unlinking", "dead"} \cup Stage
  BY <1>1 DEF UntakenFits, TakenFits
<1> QED  BY <1>1, <1>2, <1>3, <1>4

\* Reading the events makes such a record of the manager's.
LEMMA RefreshFirst ==
  ASSUME WorkerAssumption, OwnershipTypeOK, FirstBatch, FirstHere
  PROVE  FirstRecord(Refresh(record))
<1>0. record \in Record /\ Unread \in Seq(Event)
  BY UnreadWithin DEF OwnershipTypeOK, ViewsTypeOK
<1>1. Refresh(record) \in Record
  BY ReadType
<1>2. ASSUME Opening PROVE Shown(Refresh(record))
  <2>1. Shown(record) /\ \A i \in DOMAIN tail : OpeningEvent(tail[i])
    BY <1>2, FirstParts DEF OpeningFits
  <2>2. \A n \in 1..Len(Unread) : OpeningEvent(Unread[n])
    BY <2>1, UnreadWithin
  <2> QED  BY <1>0, <2>1, <2>2, ShownStays DEF Refresh
<1>3. ASSUME executed = <<>> PROVE Unmoved(Refresh(record), <<>>)
  <2>1. Unread \in UntakenEvents /\ Unmoved(record, Unread)
    BY <1>3, FirstParts DEF UntakenFits
  <2> QED  BY <1>0, <2>1, UnmovedStays DEF Refresh
<1>4. ASSUME executed # <<>> PROVE Refresh(record).state # "stopped"
  <2>1. record.state # "stopped" /\ \A i \in DOMAIN tail : tail[i].kind # "worker_stopped"
    BY <1>4, FirstParts DEF TakenFits
  <2>2. \A n \in 1..Len(Unread) : Unread[n].kind # "worker_stopped"
    BY <2>1, UnreadWithin
  <2> QED  BY <1>0, <2>1, <2>2, RunsOn DEF Refresh
<1> QED  BY <1>1, <1>2, <1>3, <1>4 DEF FirstRecord

\* Looking at the worker, and taking a run for interrupted, leaves it such a record.
LEMMA ReadFirst ==
  ASSUME WorkerAssumption, OwnershipTypeOK, FirstBatch, FirstHere,
         NEW rec \in {Refresh(record), Required, Maintained(Required)}
  PROVE  FirstRecord(rec)
<1>1. FirstRecord(Refresh(record))
  BY RefreshFirst
<1>2. ASSUME NEW x, FirstRecord(x), Opening PROVE Owned(x) /\ Active(x)
  <2>1. 1 \in Workers /\ x.pid = 1 /\ x.op = "initial"
    BY <1>2, FirstWorker DEF FirstRecord, Shown, Asked
  <2>2. Alive(1)
    BY <1>2 DEF Opening, Alive, Stage
  <2> QED  BY <2>1, <2>2 DEF Owned, Active
<1>3. ASSUME NEW x, FirstRecord(x) PROVE FirstRecord(Detect(x))
  <2>1. x \in Record /\ Detect(x) \in Record /\ ~ResultsKept(x)
    BY <1>3, DetectType DEF FirstRecord, ResultsKept, FirstHere
  <2>2. Detect(x) = x \/ (Detect(x).state = "crashed" /\ Detect(x).op = "" /\ ~Owned(x))
    BY <2>1, DetectFields
  <2> QED  BY <1>2, <1>3, <2>1, <2>2 DEF FirstRecord, Unmoved
<1>4. ASSUME NEW x, FirstRecord(x) PROVE FirstRecord(Maintained(x))
  <2>1. x \in Record /\ Maintained(x) \in Record
    BY <1>4, ReadType DEF FirstRecord
  <2>2. Maintained(x) = x \/ (~Active(x) /\ Maintained(x).state = x.state /\ Maintained(x).op = x.op
                              /\ Maintained(x).agents = x.agents)
    BY <2>1 DEF Maintained, Record
  <2> QED  BY <1>2, <1>4, <2>1, <2>2 DEF FirstRecord, Unmoved, Asked, Untouched
<1> QED  BY <1>1, <1>3, <1>4 DEF Required

\* A save of such records by an operation that may go on leaves the first batch as it was.
LEMMA FirstSaves ==
  ASSUME WorkerAssumption, OwnershipTypeOK, FirstBatch, FirstHere, FirstMoves,
         NEW saved, NEW kept, SaveAnd(saved, kept), FirstRecord(saved), FirstRecord(kept), FirstCall',
         UNCHANGED <<workers, executed, requests, window, checkpoint>>,
         process' \in {process, 0}, stop' \in {stop, TRUE}
  PROVE  FirstBatch'
<1>1. /\ record' = kept /\ disk' = saved /\ tail' = <<>> /\ seen' = 0
  BY DEF SaveAnd
<1>2. OnlyFirst' /\ FirstHere' /\ Opening' = Opening
  BY FirstGone DEF FirstHere, Opening
<1>3. NoOther'
  BY FirstParts DEF NoOther, FirstCall
<1>4. ASSUME Opening PROVE OpeningFits'
  <2>1. OpeningFits
    BY <1>4, FirstParts
  <2>2. WindowFits'
    BY <2>1 DEF OpeningFits, WindowFits
  <2> QED  BY <1>1, <1>2, <1>4, <2>1, <2>2 DEF OpeningFits, FirstCall, FirstRecord
<1>5. ASSUME executed = <<>> PROVE UntakenFits'
  <2>1. UntakenFits
    BY <1>5, FirstParts
  <2>2. Unmoved(record, tail)' /\ Unmoved(disk, tail)'
    BY <1>1, <1>5 DEF FirstRecord
  <2> QED  BY <1>1, <1>5, <2>1, <2>2 DEF UntakenFits, FirstCall
<1>6. ASSUME executed # <<>> PROVE TakenFits'
  <2>1. TakenFits
    BY <1>6, FirstParts
  <2> QED  BY <1>1, <1>6, <2>1 DEF TakenFits, FirstCall, FirstRecord
<1> QED  BY <1>2, <1>3, <1>4, <1>5, <1>6 DEF FirstBatch

\* Another status makes no difference.
LEMMA StatusFirst ==
  ASSUME NEW rec, FirstRecord(rec), NEW status \in RunStatus
  PROVE  FirstRecord([rec EXCEPT !.status = status])
  BY DEF FirstRecord, Record, Unmoved, Asked, Untouched, Shown

\* Between two calls nothing of a call is in the way.
LEMMA RestFirst ==
  ASSUME call'.pc \in {"none", "noting", "loading"}
  PROVE  FirstCall'
  BY DEF FirstCall, InBatch

\* Looking, stopping, waiting, killing and what they note leave the first batch as it was.
LEMMA LooksFirst ==
  ASSUME WorkerAssumption, OwnershipTypeOK, FirstBatch, FirstHere, FirstMoves,
         Look \/ Load \/ Stop \/ Waited \/ Note
  PROVE  FirstBatch'
<1>1. FirstRecord(Refresh(record)) /\ FirstRecord(Required) /\ FirstRecord(Maintained(Required))
  BY ReadFirst
<1>2. "stopping" \in RunStatus
  BY DEF RunStatus, ActiveStatus
<1>3. FirstRecord([Required EXCEPT !.status = "stopping"])
  BY <1>1, <1>2, StatusFirst
<1>4. PICK saved, kept : SaveAnd(saved, kept) /\ FirstRecord(saved) /\ FirstRecord(kept)
  <2>1. CASE Look \/ Load
    <3>1. SaveAll(Maintained(Required))
      BY <2>1 DEF Look, Load, Required
    <3> QED  BY <1>1, <3>1 DEF SaveAll
  <2>2. CASE Stop
    BY <2>2, <1>1, <1>3 DEF Stop
  <2>3. CASE Waited
    BY <2>3, <1>1, <1>3 DEF Waited
  <2>4. CASE Note
    BY <2>4, <1>1 DEF Note, SaveAll
  <2> QED  BY <2>1, <2>2, <2>3, <2>4
<1>5. call'.pc \in {"none", "noting"}
  BY DEF Look, Load, Stop, Waited, Note, Idle
<1>6. /\ UNCHANGED <<workers, executed, requests, window, checkpoint, process>> /\ stop' \in {stop, TRUE}
  BY DEF Look, Load, Stop, Waited, Note, ByManager, OnlyFiles, files, history
<1> QED  BY <1>4, <1>5, <1>6, RestFirst, FirstSaves

\* An agent that may be stopped is running, so the batch was taken.
LEMMA KillFirst ==
  ASSUME WorkerAssumption, OwnershipTypeOK, FirstBatch, FirstHere, FirstMoves, NEW a \in Agents, Kill(a)
  PROVE  FirstBatch'
<1> DEFINE kept == [Required EXCEPT !.agents[a] = "stopping"]
<1>1. FirstRecord(Required)
  BY ReadFirst
<1>2. Active(Required) /\ Required.agents[a] = "running" /\ SaveAnd(Required, kept)
  BY DEF Kill
<1>3. executed # <<>>
  <2>1. ASSUME executed = <<>> PROVE FALSE
    BY <2>1, <1>1, <1>2 DEF FirstRecord, Unmoved, Untouched, Active
  <2> QED  BY <2>1
<1>4. FirstRecord(kept)
  BY <1>1, <1>3 DEF FirstRecord, Record, Shown, Asked, AgentStatus, Pending
<1> HIDE DEF kept
<1>5. call'.pc = "noting" /\ UNCHANGED <<workers, executed, requests, window, checkpoint, process, stop>>
  BY DEF Kill, ByManager
<1> QED  BY <1>1, <1>2, <1>4, <1>5, RestFirst, FirstSaves

\* No operation begins that needs another worker, or none.
LEMMA BeginFirst ==
  ASSUME WorkerAssumption, OwnershipTypeOK, FirstBatch, FirstHere, FirstMoves, Begin
  PROVE  FirstBatch'
<1>1. FirstRecord(Required)
  BY ReadFirst
<1>2. PICK as \in SUBSET Agents, kind \in {"add", "retry", "retained", "resume", "rescue"} :
         /\ Admits(kind, as, Required)
         /\ call' = [pc |-> "begun", kind |-> kind, agents |-> as, prev |-> Required, heard |-> FALSE]
  BY DEF Begin
<1>3. SaveAnd(Required, Required)
      /\ UNCHANGED <<workers, executed, requests, window, checkpoint, process, stop>>
  BY DEF Begin, SaveAll, ByManager, OnlyFiles
<1>4. call'.pc = "begun" /\ call'.kind = kind /\ record' = Required /\ Opening' = Opening
  BY <1>2, <1>3 DEF SaveAnd, Opening
<1>5. kind # "resume"
  BY <1>2 DEF Admits, FirstHere
<1>6. ASSUME kind = "retained", Required.state = "stopped" PROVE FALSE
  <2>1. executed = <<>> /\ Untouched(Required)
    BY <1>1, <1>6 DEF FirstRecord, Unmoved, Asked
  <2>2. Cardinality(as) = 1 /\ \A a \in as : Required.agents[a] \in {"failed", "interrupted"}
    BY <1>2, <1>6 DEF Admits
  <2>3. as # {}
    <3>1. Cardinality({}) = 0
      BY FS_EmptySet, Zenon
    <3>2. as = {} => Cardinality(as) = Cardinality({})
      BY Zenon
    <3>3. Cardinality(as) # 0
      BY <2>2
    <3> QED  BY <3>1, <3>2, <3>3, Zenon
  <2> QED  BY <2>1, <2>2, <2>3 DEF Untouched
<1>7. ASSUME kind = "rescue", Opening \/ executed = <<>> PROVE FALSE
  <2>1. Required.state = "crashed" /\ checkpoint.active
    BY <1>2, <1>7 DEF Admits
  <2>2. ~Opening
    BY <1>1, <2>1 DEF FirstRecord, Shown, Asked
  <2>3. executed # <<>>
    BY <2>1, FirstParts DEF UntakenFits
  <2> QED  BY <1>7, <2>2, <2>3
<1>8. FirstCall'
  BY <1>3, <1>4, <1>5, <1>6, <1>7 DEF FirstCall, InBatch
<1> QED  BY <1>1, <1>3, <1>8, FirstSaves

\* A step of the manager that reads no event, saves nothing and leaves the request leaves the
\* first batch as it was, too.
LEMMA FirstStays ==
  ASSUME WorkerAssumption, OwnershipTypeOK, FirstBatch, FirstHere, FirstMoves,
         UNCHANGED <<disk, tail, seen, workers, executed, checkpoint, process>>, FirstCall',
         Opening \/ executed = <<>> => requests' = requests,
         Opening => Shown(record)' /\ WindowFits',
         executed = <<>> => Unmoved(record, tail)',
         executed # <<>> => record'.state # "stopped"
  PROVE  FirstBatch'
<1>1. OnlyFirst' /\ Opening' = Opening
  BY FirstGone DEF Opening
<1>2. NoOther'
  BY FirstParts DEF NoOther, FirstCall
<1>3. ASSUME Opening PROVE FirstHere' /\ OpeningFits'
  <2>1. OpeningFits /\ requests' = requests
    BY <1>3, FirstParts
  <2> QED  BY <1>1, <1>3, <2>1 DEF OpeningFits, FirstCall, FirstHere
<1>4. ASSUME executed = <<>> PROVE FirstHere' /\ UntakenFits'
  <2>1. UntakenFits /\ requests' = requests
    BY <1>4, FirstParts
  <2> QED  BY <1>4, <2>1 DEF UntakenFits, FirstCall, FirstHere
<1>5. ASSUME executed # <<>> PROVE TakenFits'
  <2>1. TakenFits
    BY <1>5, FirstParts
  <2> QED  BY <1>5, <2>1 DEF TakenFits, FirstCall
<1> QED  BY <1>1, <1>2, <1>3, <1>4, <1>5 DEF FirstBatch

\* What the record of the manager is while the first request is there.
LEMMA RecordFirst ==
  ASSUME WorkerAssumption, OwnershipTypeOK, FirstBatch, FirstHere
  PROVE  /\ Opening => Shown(record)
         /\ executed = <<>> => Unmoved(record, tail)
         /\ executed # <<>> => record.state # "stopped"
  BY FirstParts DEF OpeningFits, UntakenFits, TakenFits

\* No second worker is made ready; the dead one's request is moved away only if it was begun.
LEMMA ReplaceFirst ==
  ASSUME WorkerAssumption, OwnershipTypeOK, FirstBatch, FirstHere, FirstMoves,
         Retire \/ Retired \/ NotRetired \/ Archive \/ Spawn \/ Publish
  PROVE  FirstBatch'
<1>1. FirstCall
  BY FirstParts
<1>2. Archive
  BY <1>1 DEF FirstCall, InBatch, Retire, Retired, NotRetired, Spawn, Publish
<1>3. call.pc = "begun" /\ call.kind = "rescue" /\ requests' = {} /\ workers' = workers /\ executed' = executed
  BY <1>2 DEF Archive, Parted
<1>4. ~Opening /\ executed # <<>> /\ ~FirstHere'
  BY <1>1, <1>3 DEF FirstCall, FirstHere
<1> QED  BY <1>3, <1>4, FirstGone DEF FirstBatch, Opening

\* An addition to the first batch is marked in a record that shows it.
LEMMA MarkFirst ==
  ASSUME WorkerAssumption, OwnershipTypeOK, FirstBatch, FirstHere, FirstMoves, Mark
  PROVE  FirstBatch'
<1>0. /\ FirstCall /\ record \in Record
      /\ Opening => Shown(record)
      /\ executed = <<>> => Unmoved(record, tail)
      /\ executed # <<>> => record.state # "stopped"
      /\ Opening => WindowFits
  BY FirstParts, RecordFirst DEF OpeningFits, OwnershipTypeOK, ViewsTypeOK
<1>1. UNCHANGED <<disk, tail, seen, workers, executed, checkpoint, process, requests, window>>
  BY MarkCases DEF ByManager
<1>2. Opening' = Opening
  BY <1>1 DEF Opening
<1>3. ASSUME stop' = stop, Opening PROVE WindowFits'
  BY <1>0, <1>1, <1>3 DEF WindowFits
<1>4. ASSUME Opening PROVE Owned(record)
  <2>1. 1 \in Workers /\ record.pid = 1 /\ Alive(1)
    BY <1>0, <1>4, FirstWorker DEF Shown, Opening, Alive, Stage
  <2> QED  BY <2>1 DEF Owned
<1>5. CASE Mode = "refused"
  <2>1. call' = Idle /\ record' = record /\ stop' = stop
    BY <1>5 DEF Mark
  <2>2. FirstCall'
    BY <2>1, RestFirst DEF Idle
  <2> QED  BY <1>0, <1>1, <1>3, <2>1, <2>2, FirstStays
<1>6. CASE Mode = "live"
  <2>1. MarkedAs("live") /\ record' = Marked(record) /\ record' \in Record
    BY <1>6, MarkCases, MarkRecords DEF MarkedAs
  <2>2. /\ call' = [pc |-> "marked", mode |-> "live", agents |-> call.agents, prev |-> record, heard |-> FALSE]
        /\ record.op = "initial" /\ Active(record) /\ stop' = stop
    BY <1>6, <2>1 DEF MarkedAs, Mark, Mode, Live, Fresh
  <2>3. record'.op = record.op /\ record'.state = record.state /\ record'.pid = record.pid
        /\ \A a \in Agents : record'.agents[a] \in {"queued", record.agents[a]}
    BY <1>0, <2>1 DEF Marked, Record
  <2>4. Opening => Shown(record) /\ Shown(record')
    BY <1>0, <2>3 DEF Shown, Asked
  <2>5. executed = <<>> => /\ Asked(record) /\ Untouched(record)
                           /\ Asked(record') /\ Untouched(record')
    BY <1>0, <2>2, <2>3 DEF Unmoved, Asked, Untouched
  <2>6. FirstCall'
    BY <1>0, <1>1, <1>2, <2>2, <2>3, <2>4, <2>5 DEF FirstCall, InBatch, Shown, Asked
  <2> QED  BY <1>0, <1>1, <1>3, <2>2, <2>3, <2>4, <2>5, <2>6, FirstStays DEF Unmoved
<1>7. CASE Mode = "queued"
  <2>1. ~Active(record) /\ Available(record)
    BY <1>7 DEF Mode
  <2>2. executed # <<>> /\ ~Opening
    <3>1. ~Opening
      BY <1>0, <1>4, <2>1 DEF Active, Shown, Asked
    <3>2. executed # <<>>
      BY <1>0, <2>1 DEF Active, Available, Unmoved, Asked
    <3> QED  BY <3>1, <3>2
  <2>3. record'.state = "busy"
    BY <1>7, MarkRecords
  <2>4. call' = [pc |-> "marked", mode |-> "queued", agents |-> call.agents, prev |-> record, heard |-> FALSE]
    BY <1>7, MarkCases DEF MarkedAs
  <2>5. FirstCall'
    BY <1>0, <1>1, <1>2, <2>2, <2>4 DEF FirstCall, InBatch
  <2> QED  BY <1>1, <2>2, <2>3, <2>5, FirstStays
<1>8. CASE Mode = "fresh"
  <2>1. call.kind = "retained" /\ record.state = "stopped" /\ call.pc = "begun"
    BY <1>8 DEF Mode, Fresh, Live, Mark
  <2> QED  BY <1>0, <2>1 DEF FirstCall
<1> QED  BY <1>5, <1>6, <1>7, <1>8, MarkCases

\* Announcing a batch reads what its worker has said in the meantime.
LEMMA AnnounceFirst ==
  ASSUME WorkerAssumption, OwnershipTypeOK, FirstBatch, FirstHere, FirstMoves, Announce
  PROVE  FirstBatch'
<1>1. FirstCall /\ call.pc = "marked" /\ call.mode # "fresh"
  BY FirstParts DEF Announce, FirstCall, InBatch
<1>2. /\ SaveAnd(Refresh(record), Refresh(record)) /\ call' = [call EXCEPT !.pc = "announced", !.heard = Unread # <<>>]
      /\ UNCHANGED <<workers, executed, requests, window, checkpoint, process, stop>>
  BY <1>1 DEF Announce, SaveAll, OnlyFiles, ByManager
<1>3. FirstRecord(Refresh(record))
  BY RefreshFirst
<1>4. ASSUME executed = <<>>, record.state # "crashed" PROVE Refresh(record).state # "crashed"
  <2>1. Unread \in UntakenEvents /\ Unmoved(record, Unread) /\ record \in Record
    BY <1>4, FirstParts DEF UntakenFits, OwnershipTypeOK, ViewsTypeOK
  <2> QED  BY <1>4, <2>1, UnmovedStays DEF Refresh
<1>5. call'.pc = "announced" /\ call'.mode = call.mode /\ call'.prev = call.prev
  BY <1>1, <1>2, CallFields
<1>6. Opening' = Opening /\ record' = Refresh(record)
  BY <1>2 DEF Opening, SaveAnd
<1>7. FirstCall'
  BY <1>1, <1>2, <1>4, <1>5, <1>6 DEF FirstCall, InBatch
<1> QED  BY <1>2, <1>3, <1>7, FirstSaves

\* An addition gets only into an open window; a batch of its own is asked for only afterwards.
LEMMA SubmitFirst ==
  ASSUME WorkerAssumption, OwnershipTypeOK, FirstBatch, FirstHere, FirstMoves, SubmitLive \/ SubmitRequest
  PROVE  FirstBatch'
<1>1. FirstCall /\ (Opening => WindowFits)
  BY FirstParts DEF OpeningFits
<1>2. /\ UNCHANGED <<record, disk, tail, seen, workers, executed, checkpoint, process, stop>> /\ call' = Idle
  BY DEF SubmitLive, SubmitRequest, Accepted
<1>3. FirstCall'
  BY <1>2, RestFirst DEF Idle
<1>4. requests' = requests \/ (~Opening /\ executed # <<>>)
  BY <1>1 DEF SubmitLive, SubmitRequest, FirstCall, InBatch
<1>5. window' = window \/ window.open
  BY DEF SubmitLive, SubmitRequest
<1>6. Opening => WindowFits'
  BY <1>1, <1>2, <1>5 DEF WindowFits
<1> QED  BY <1>2, <1>3, <1>4, <1>6, RecordFirst, FirstStays

\* What a refused batch goes back to shows the first one as well.
LEMMA RollBackFirst ==
  ASSUME WorkerAssumption, OwnershipTypeOK, FirstBatch, FirstHere, FirstMoves, RollBack
  PROVE  FirstBatch'
<1>0. /\ FirstCall /\ record \in Record /\ Back \in Record /\ Unread \in Seq(Event)
      /\ call.pc = "announced" /\ InBatch
  BY FirstParts, BatchRecords, UnreadWithin DEF OwnershipTypeOK, ViewsTypeOK, RollBack, InBatch
<1>1. SaveAnd(Refresh(Back), Refresh(Back))
  BY DEF RollBack, SaveAll, Back
<1>2. /\ Back.state = call.prev.state /\ Back.op = call.prev.op /\ Back.pid = record.pid
      /\ \A a \in Agents : Back.agents[a] \in {record.agents[a], call.prev.agents[a]}
  BY <1>0 DEF Back, Record
<1>3. Refresh(Back) \in Record
  BY <1>0, AppliedType DEF Refresh
<1>4. ASSUME Opening PROVE Shown(Refresh(Back))
  <2>1. Shown(Back)
    BY <1>0, <1>2, <1>4, RecordFirst DEF FirstCall, Shown, Asked
  <2>2. \A n \in 1..Len(Unread) : OpeningEvent(Unread[n])
    BY <1>4, FirstParts, UnreadWithin DEF OpeningFits
  <2> QED  BY <1>0, <2>1, <2>2, ShownStays DEF Refresh
<1>5. ASSUME executed = <<>> PROVE Unmoved(Refresh(Back), <<>>)
  <2>1. Asked(call.prev) /\ Untouched(call.prev) /\ record.state # "crashed"
    BY <1>0, <1>5 DEF FirstCall
  <2>2. Untouched(record)
    BY <1>5, <2>1, RecordFirst DEF Unmoved
  <2>3. Asked(Back) /\ Untouched(Back)
    BY <1>2, <2>1, <2>2 DEF Asked, Untouched
  <2>4. Unread \in UntakenEvents /\ Unmoved(Back, Unread)
    BY <1>5, <2>3, FirstParts DEF Unmoved
  <2> QED  BY <1>0, <2>4, UnmovedStays DEF Refresh
<1>6. ASSUME executed # <<>> PROVE Refresh(Back).state # "stopped"
  <2>1. Back.state # "stopped"
    BY <1>0, <1>2, <1>6 DEF FirstCall
  <2>2. \A n \in 1..Len(Unread) : Unread[n].kind # "worker_stopped"
    BY <1>6, FirstParts, UnreadWithin DEF TakenFits
  <2> QED  BY <1>0, <2>1, <2>2, RunsOn DEF Refresh
<1>7. FirstRecord(Refresh(Back))
  BY <1>3, <1>4, <1>5, <1>6 DEF FirstRecord
<1>8. call' = Idle /\ UNCHANGED <<workers, executed, requests, window, checkpoint, process, stop>>
  BY DEF RollBack, OnlyFiles, ByManager
<1>9. FirstCall'
  BY <1>8, RestFirst DEF Idle
<1> QED  BY <1>1, <1>7, <1>8, <1>9, FirstSaves

\* Operations of the manager leave the first batch as it was.
LEMMA OperationFirst ==
  ASSUME WorkerAssumption, OwnershipTypeOK, FirstBatch, FirstHere, FirstMoves, Operation
  PROVE  FirstBatch'
  BY LooksFirst, ReplaceFirst, MarkFirst, AnnounceFirst, SubmitFirst, RollBackFirst DEF Operation

\* What is said of all events of a row holds with those that come after them.
LEMMA MoreEvents ==
  ASSUME NEW E, NEW s \in Seq(E), NEW t \in Seq(E)
  PROVE  \A i \in DOMAIN (s \o t) :
           (\E n \in DOMAIN s : (s \o t)[i] = s[n]) \/ (\E n \in 1..Len(t) : (s \o t)[i] = t[n])
<1> DEFINE st == s \o t
<1>1. Len(s) \in Nat /\ Len(t) \in Nat /\ Len(st) = Len(s) + Len(t) /\ DOMAIN st = 1..Len(st) /\ DOMAIN s = 1..Len(s)
  OBVIOUS
<1>2. ASSUME NEW i \in 1..Len(st) PROVE st[i] = IF i <= Len(s) THEN s[i] ELSE t[i - Len(s)]
  BY <1>2, ConcatProperties
<1> HIDE DEF st
<1>3. ASSUME NEW i \in DOMAIN st PROVE (\E n \in DOMAIN s : st[i] = s[n]) \/ (\E n \in 1..Len(t) : st[i] = t[n])
  <2>1. CASE i <= Len(s)
    BY <1>1, <1>2, <1>3, <2>1
  <2>2. CASE ~(i <= Len(s))
    <3>1. i - Len(s) \in 1..Len(t) /\ st[i] = t[i - Len(s)]
      BY <1>1, <1>2, <1>3, <2>2
    <3> QED  BY <3>1
  <2> QED  BY <2>1, <2>2
<1> QED  BY <1>3 DEF st

(* What its worker says, and where it is then, as long as its request stays     *)
GoesOn(es) ==
    /\ UNCHANGED <<record, disk, requests, process, call>>
    /\ Emit(es) /\ \A n \in 1..Len(es) : es[n].kind # "worker_stopped"
    /\ \A w \in Workers : w # 1 => workers'[w] = workers[w]
    /\ workers'[1].pc \in Stage \cup {"closing", "unlinking", "dead"} /\ workers'[1].op = "initial"
    /\ workers'[1].pc \in Stage => (\A n \in 1..Len(es) : OpeningEvent(es[n])) /\ WindowFits'

\* Once it is taken, its worker goes on with it until the request is removed.
LEMMA TakenGoesOn ==
  ASSUME WorkerAssumption, OwnershipTypeOK, FirstBatch, FirstHere, FirstMoves, executed # <<>>,
         NEW es \in Seq(Event), GoesOn(es)
  PROVE  FirstBatch'
<1>1. OnlyFirst' /\ FirstHere' /\ executed' # <<>> /\ NoOther /\ TakenFits /\ tail \in Seq(Event)
  BY FirstGone, FirstParts DEF FirstHere, FirstMoves, OwnershipTypeOK, ViewsTypeOK, GoesOn
<1>2. NoOther'
  BY <1>1 DEF NoOther, InBatch, GoesOn
<1>3. ASSUME NEW i \in DOMAIN tail'
      PROVE  (\E n \in DOMAIN tail : tail'[i] = tail[n]) \/ (\E n \in 1..Len(es) : tail'[i] = es[n])
  BY <1>1, <1>3, MoreEvents DEF Emit, GoesOn
<1>4. TakenFits'
  BY <1>1, <1>3 DEF TakenFits, InBatch, GoesOn
<1>5. ASSUME Opening' PROVE OpeningFits'
  <2>1. workers'[1].pc \in Stage
    BY <1>1, <1>5 DEF Opening
  <2>2. workers[1].pc \in Stage /\ workers[1].op = "initial"
    BY <1>1, <2>1, FirstWorker DEF FirstMoves, TakenFits, Stage, At, GoesOn
  <2>3. OpeningFits
    BY <2>2, FirstParts DEF Opening
  <2> QED  BY <1>3, <2>1, <2>3 DEF OpeningFits, InBatch, GoesOn
<1> QED  BY <1>1, <1>2, <1>4, <1>5 DEF FirstBatch

\* An event that its worker may say while it is at work
LEMMA StageEvents ==
  ASSUME NEW e \in Event, e.kind \in {"prepared", "failed", "agent", "ended"}
  PROVE  OpeningEvent(e) /\ e.kind # "worker_stopped"
  BY DEF OpeningEvent

\* Before it is taken, its worker starts, takes it, or leaves.
LEMMA UntakenGoesOn ==
  ASSUME WorkerAssumption, OwnershipTypeOK, FirstBatch, FirstHere, FirstMoves, executed = <<>>,
         Boot(1) \/ Take(1) \/ Leave(1) \/ Left(1) \/ Die(1)
  PROVE  FirstBatch'
<1>0. /\ OnlyFirst' /\ NoOther /\ UntakenFits /\ 1 \in Workers
      /\ workers \in [Workers -> Process] /\ workers[1] \in Process /\ tail \in Seq(Event)
      /\ executed \in Seq(AnyRequest) /\ requests \subseteq AnyRequest
      /\ checkpoint \in [pid : OrNobody, alive : BOOLEAN, active : BOOLEAN, id : Nat, ok : BOOLEAN]
  BY FirstWorker, FirstGone, FirstParts DEF OwnershipTypeOK, ViewsTypeOK, ProcessesTypeOK, HistoryTypeOK, FilesTypeOK
<1>1. UNCHANGED <<record, disk, seen, requests, process, call>>
  BY DEF Boot, Take, Leave, Left, Die, Emit, ByWorker, files
<1>2. \A w \in Workers : w # 1 => workers'[w] = workers[w]
  BY <1>0 DEF Boot, Take, Leave, Left, Die, Go
<1>3. NoOther' /\ FirstHere'
  BY <1>0, <1>1, <1>2 DEF NoOther, InBatch, FirstHere
<1>4. StartEvent \in Event /\ StopEvent \in Event
  BY FirstWorker DEF StartEvent, StopEvent, Event
<1>5. Opening => /\ OpeningFits
                 /\ Asked(record) /\ Untouched(record) /\ Asked(disk) /\ Untouched(disk)
  BY <1>0, FirstParts DEF UntakenFits, OpeningFits, Unmoved, Shown, Asked
<1>6. CASE Boot(1)
  <2>1. /\ workers' = [workers EXCEPT ![1].pc = "idle"] /\ At(1, "booting") /\ ~checkpoint'.active
        /\ tail' = tail \o <<StartEvent>> /\ executed' = executed
    BY <1>0, <1>6 DEF Boot, Go, Emit, StartEvent, history
  <2>2. tail = <<>> /\ Opening
    BY <1>0, <2>1 DEF UntakenFits, Opening, At
  <2>3. tail' = <<StartEvent>>
    BY <1>4, <2>1, <2>2, Pairs
  <2>4. workers'[1].pc = "idle" /\ workers'[1].op = workers[1].op
    BY <1>0, <2>1 DEF Process
  <2>5. UntakenFits'
    BY <1>0, <1>1, <1>5, <2>1, <2>2, <2>3, <2>4 DEF UntakenFits, InBatch, Unmoved
  <2>6. \A i \in DOMAIN tail' : tail'[i] = StartEvent
    BY <2>3
  <2>7. OpeningFits'
    BY <1>1, <1>5, <2>2, <2>4, <2>6 DEF OpeningFits, InBatch, OpeningEvent, StartEvent, WindowFits
  <2> QED  BY <1>0, <1>3, <2>1, <2>5, <2>7 DEF FirstBatch
<1>7. CASE Take(1)
  <2>1. At(1, "idle") /\ Opening
    BY <1>7 DEF Take, At, Opening
  <2>2. PICK r \in requests :
          /\ workers' = [workers EXCEPT ![1] =
                [pc |-> "preparing", id |-> r.id, op |-> r.op, ok |-> FALSE,
                 tasks |-> [a \in Agents |-> IF a \in r.agents THEN "queued" ELSE "none"]]]
          /\ Emit(<<[kind |-> "operation_started", pid |-> 1, op |-> r.op, id |-> r.id]>>)
          /\ executed' = Append(executed, r)
    BY <1>7 DEF Take
  <2>3. r.op = "initial" /\ r.id \in Nat /\ r \in AnyRequest
    BY <1>0, <1>5, <2>1 DEF OpeningFits, AnyRequest
  <2> DEFINE e == [kind |-> "operation_started", pid |-> 1, op |-> r.op, id |-> r.id]
  <2>4. e \in Event /\ OpeningEvent(e)
    BY <1>0, <2>3 DEF Event, Op, OpeningEvent
  <2>5. workers'[1].pc = "preparing" /\ workers'[1].op = "initial"
    BY <1>0, <2>2, <2>3
  <2>6. executed' # <<>>
    BY <1>0, <2>2, <2>3
  <2>7. tail' = tail \o <<e>>
    BY <2>2 DEF Emit
  <2> HIDE DEF e
  <2>8. \A i \in DOMAIN tail' : OpeningEvent(tail'[i])
    <3>1. \A i \in DOMAIN tail : OpeningEvent(tail[i])
      BY <1>5, <2>1 DEF OpeningFits
    <3>2. <<e>> \in Seq(Event) /\ \A n \in 1..Len(<<e>>) : <<e>>[n] = e
      BY <2>4
    <3> QED  BY <1>0, <2>4, <2>7, <3>1, <3>2, MoreEvents
  <2>9. OpeningFits'
    BY <1>1, <1>5, <2>1, <2>5, <2>8 DEF OpeningFits, InBatch, WindowFits
  <2>10. TakenFits'
    BY <2>5, <2>8, <2>9 DEF TakenFits, OpeningFits, Shown, Asked, Stage, OpeningEvent
  <2> QED  BY <1>0, <1>3, <2>6, <2>9, <2>10 DEF FirstBatch
<1>8. CASE Leave(1)
  <2>1. /\ workers' = [workers EXCEPT ![1].pc = "leaving"] /\ At(1, "idle") /\ checkpoint' = checkpoint
        /\ tail' = tail \o <<StopEvent>> /\ executed' = executed
    BY <1>0, <1>8 DEF Leave, Go, Emit, StopEvent, history, files
  <2>2. tail \in {<<>>, <<StartEvent>>} /\ Opening
    BY <1>0, <2>1 DEF UntakenFits, Opening, At
  <2>3. tail' \in {<<StopEvent>>, <<StartEvent, StopEvent>>}
    BY <1>4, <2>1, <2>2, Pairs
  <2>4. workers'[1].pc = "leaving" /\ workers'[1].op = workers[1].op
    BY <1>0, <2>1 DEF Process
  <2>5. UntakenFits'
    BY <1>0, <1>1, <1>5, <2>1, <2>2, <2>3, <2>4 DEF UntakenFits, InBatch, Unmoved
  <2>6. ~Opening'
    BY <2>4 DEF Opening, Stage
  <2> QED  BY <1>0, <1>3, <2>1, <2>5, <2>6 DEF FirstBatch
<1>9. CASE Left(1) \/ Die(1)
  <2>1. /\ workers' = [workers EXCEPT ![1].pc = "dead"] /\ (checkpoint'.active => checkpoint.active)
        /\ tail' = tail /\ executed' = executed
        /\ Left(1) => At(1, "leaving")
    BY <1>0, <1>9 DEF Left, Die, Go, history, files
  <2>2. workers'[1].pc = "dead" /\ workers'[1].op = workers[1].op
    BY <1>0, <2>1 DEF Process
  <2>3. UntakenFits'
    BY <1>0, <1>1, <2>1, <2>2 DEF UntakenFits, InBatch, Unmoved
  <2>4. ~Opening'
    BY <2>2 DEF Opening, Stage
  <2> QED  BY <1>0, <1>3, <2>1, <2>3, <2>4 DEF FirstBatch
<1> QED  BY <1>6, <1>7, <1>8, <1>9

\* Such is a step with one event.
LEMMA OneSaid ==
  ASSUME NEW e \in Event, Emit(<<e>>), e.kind # "worker_stopped",
         UNCHANGED <<record, disk, requests, process, call>>,
         \A w \in Workers : w # 1 => workers'[w] = workers[w],
         workers'[1].pc \in Stage \cup {"closing", "unlinking", "dead"}, workers'[1].op = "initial",
         workers'[1].pc \in Stage => OpeningEvent(e) /\ WindowFits'
  PROVE  \E es \in Seq(Event) : GoesOn(es)
<1>1. <<e>> \in Seq(Event) /\ \A n \in 1..Len(<<e>>) : <<e>>[n] = e
  OBVIOUS
<1>2. PICK es \in Seq(Event) : es = <<e>> /\ \A n \in 1..Len(es) : es[n] = e
  BY <1>1
<1> QED  BY <1>2 DEF GoesOn

\* Such is a step without events.
LEMMA NoneSaid ==
  ASSUME OwnershipTypeOK, UNCHANGED <<record, disk, tail, seen, requests, process, call>>,
         \A w \in Workers : w # 1 => workers'[w] = workers[w],
         workers'[1].pc \in Stage \cup {"closing", "unlinking", "dead"}, workers'[1].op = "initial",
         workers'[1].pc \in Stage => WindowFits'
  PROVE  \E es \in Seq(Event) : GoesOn(es)
<1>1. <<>> \in Seq(Event) /\ Len(<<>>) = 0 /\ tail \in Seq(Event)
  BY DEF OwnershipTypeOK, ViewsTypeOK
<1>2. tail \o <<>> = tail
  BY <1>1, ConcatEmptySeq
<1>3. PICK es \in Seq(Event) : es = <<>> /\ Len(es) = 0
  BY <1>1
<1>4. Emit(es)
  BY <1>2, <1>3 DEF Emit
<1>5. \A n \in 1..Len(es) : FALSE
  BY <1>3
<1> QED  BY <1>4, <1>5 DEF GoesOn

\* Every step of its worker but the last is such a one.
LEMMA TakenSteps ==
  ASSUME WorkerAssumption, OwnershipTypeOK, Worker(1), ~Unlink(1),
         workers[1].pc \in Stage \cup {"closing", "unlinking", "dead"}, workers[1].op = "initial",
         workers[1].pc \in Stage => WindowFits
  PROVE  \E es \in Seq(Event) : GoesOn(es)
<1>0. /\ 1 \in Workers /\ workers \in [Workers -> Process] /\ workers[1] \in Process
      /\ window \in [open : BOOLEAN, pending : SUBSET Agents]
  BY FirstWorker DEF OwnershipTypeOK, ProcessesTypeOK, FilesTypeOK
<1>2. CASE Prepare(1)
  <2> DEFINE e == [kind |-> "prepared"]
  <2>1. e \in Event /\ OpeningEvent(e) /\ e.kind # "worker_stopped"
    BY StageEvents DEF Event
  <2>2. Emit(<<e>>)
    BY <1>2 DEF Prepare
  <2> HIDE DEF e
  <2>3. workers' = [workers EXCEPT ![1].pc = IF stop THEN "ending" ELSE "stage",
                                   ![1].tasks = IF stop THEN Asleep.tasks ELSE @]
    BY <1>2 DEF Prepare
  <2>4. /\ workers'[1].pc = (IF stop THEN "ending" ELSE "stage") /\ workers'[1].op = "initial"
        /\ \A w \in Workers : w # 1 => workers'[w] = workers[w]
    BY <1>0, <2>3 DEF Process
  <2>5. UNCHANGED <<record, disk, requests, process, call, stop>>
    BY <1>2 DEF Prepare, Emit, files, ByWorker
  <2>6. WindowFits'
    BY <2>4, <2>5 DEF WindowFits
  <2> QED  BY <2>1, <2>2, <2>4, <2>5, <2>6, OneSaid DEF Stage
<1>3. ASSUME NEW a \in Agents, StartAgent(1, a) \/ FinishAgent(1, a) \/ HaltAgent(1, a)
      PROVE  \E es \in Seq(Event) : GoesOn(es)
  <2>1. PICK st \in AgentStatus : workers' = [workers EXCEPT ![1].tasks[a] = st] /\ Emit(<<Agent(a, st)>>)
    BY <1>3 DEF StartAgent, FinishAgent, HaltAgent, AgentEnds, AgentStatus, Terminal, Pending
  <2> DEFINE e == Agent(a, st)
  <2>2. e \in Event /\ OpeningEvent(e) /\ e.kind # "worker_stopped"
    BY StageEvents DEF Event, Agent
  <2>3. Emit(<<e>>)
    BY <2>1
  <2> HIDE DEF e
  <2>4. UNCHANGED <<record, disk, requests, process, call>> /\ At(1, "stage")
    BY <1>3 DEF StartAgent, FinishAgent, HaltAgent, AgentEnds, Emit, files, ByWorker
  <2>5. workers'[1].pc = "stage" /\ workers'[1].op = "initial" /\ \A w \in Workers : w # 1 => workers'[w] = workers[w]
    BY <1>0, <2>1, <2>4 DEF At, Process
  <2>6. WindowFits'
    BY <2>5 DEF WindowFits
  <2> QED  BY <2>2, <2>3, <2>4, <2>5, <2>6, OneSaid DEF Stage
<1>4. CASE Drain(1)
  <2>1. workers' = [workers EXCEPT ![1].tasks = [a \in Agents |-> IF a \in window.pending THEN "queued" ELSE @[a]]]
        /\ At(1, "stage")
    BY <1>4 DEF Drain
  <2>2. workers'[1].pc = "stage" /\ workers'[1].op = "initial" /\ \A w \in Workers : w # 1 => workers'[w] = workers[w]
    BY <1>0, <2>1 DEF At, Process
  <2>3. UNCHANGED <<record, disk, tail, seen, requests, process, call>>
    BY <1>4 DEF Drain, ByWorker
  <2>4. WindowFits'
    BY <2>2 DEF WindowFits
  <2> QED  BY <2>2, <2>3, <2>4, NoneSaid DEF Stage
<1>5. ASSUME NEW pc, Go(1, pc)
      PROVE  workers'[1].pc = pc /\ workers'[1].op = "initial" /\ \A w \in Workers : w # 1 => workers'[w] = workers[w]
  BY <1>0, <1>5 DEF Go, Process
<1>6. CASE CloseStage(1)
  <2>1. UNCHANGED <<record, disk, tail, seen, requests, process, call>> /\ Go(1, "ending")
    BY <1>6 DEF CloseStage, ByWorker
  <2>2. window'.pending = {} /\ ~window'.open
    BY <1>0, <1>6 DEF CloseStage
  <2>3. WindowFits' /\ workers'[1].pc = "ending" /\ workers'[1].op = "initial"
    BY <1>5, <2>1, <2>2 DEF WindowFits
  <2> QED  BY <1>5, <2>1, <2>3, NoneSaid DEF Stage
<1>7. CASE Deactivate(1) \/ WriteCheckpoint(1)
  <2>1. UNCHANGED <<record, disk, tail, seen, requests, process, call>> /\ (Go(1, "finishing") \/ Go(1, "unlinking"))
    BY <1>7 DEF Deactivate, WriteCheckpoint, ByWorker
  <2>2. /\ workers'[1].pc \in {"finishing", "unlinking"} /\ workers'[1].op = "initial"
        /\ \A w \in Workers : w # 1 => workers'[w] = workers[w]
    BY <1>5, <2>1
  <2>3. WindowFits'
    BY <2>2 DEF WindowFits
  <2> QED  BY <2>1, <2>2, <2>3, NoneSaid DEF Stage
<1>8. CASE ReportFailure(1) \/ ReportEnd(1)
  <2>1. At(1, "failing") \/ At(1, "ending")
    BY <1>8 DEF ReportFailure, ReportEnd
  <2>2. workers'[1].pc = "deactivating" /\ workers'[1].op = "initial" /\ \A w \in Workers : w # 1 => workers'[w] = workers[w]
    <3>1. CASE ReportFailure(1)
      BY <1>5, <3>1 DEF ReportFailure
    <3>2. CASE ReportEnd(1)
      <4>1. PICK ok : workers' = [workers EXCEPT ![1].pc = "deactivating", ![1].ok = ok]
        BY <3>2 DEF ReportEnd
      <4> QED  BY <1>0, <4>1 DEF Process
    <3> QED  BY <1>8, <3>1, <3>2
  <2>3. UNCHANGED <<record, disk, requests, window, stop, process, call>>
    BY <1>8 DEF ReportFailure, ReportEnd, Emit, files, ByWorker
  <2>4. PICK e \in Event : e.kind \in {"failed", "ended"} /\ Emit(<<e>>)
    <3>1. [kind |-> "failed"] \in Event /\ [kind |-> "ended", cancelled |-> stop] \in Event
      BY DEF Event, OwnershipTypeOK, FilesTypeOK
    <3> QED  BY <1>8, <3>1 DEF ReportFailure, ReportEnd
  <2>5. OpeningEvent(e) /\ e.kind # "worker_stopped"
    BY <2>4, StageEvents
  <2>6. WindowFits'
    BY <2>1, <2>2, <2>3 DEF WindowFits, At, Stage
  <2> QED  BY <2>2, <2>3, <2>4, <2>5, <2>6, OneSaid DEF Stage
<1>9. CASE Finish(1)
  <2> DEFINE e == [kind |-> "operation_finished"]
  <2>1. UNCHANGED <<record, disk, requests, process, call>> /\ Go(1, "closing") /\ Emit(<<e>>)
    BY <1>9 DEF Finish, Emit, files, ByWorker
  <2>2. e \in Event /\ e.kind # "worker_stopped"
    BY DEF Event
  <2> HIDE DEF e
  <2>3. /\ workers'[1].pc = "closing" /\ workers'[1].op = "initial"
        /\ \A w \in Workers : w # 1 => workers'[w] = workers[w]
    BY <1>5, <2>1
  <2> QED  BY <2>1, <2>2, <2>3, OneSaid DEF Stage
<1>10. ~AwaitPublication(1) /\ ~Boot(1) /\ ~Take(1) /\ ~Leave(1) /\ ~Left(1)
  BY DEF AwaitPublication, Boot, Take, Leave, Left, At, Stage
<1> QED  BY <1>2, <1>3, <1>4, <1>6, <1>7, <1>8, <1>9, <1>10 DEF Worker

\* The steps of its worker keep what holds of the first batch.
LEMMA WorkerFirst ==
  ASSUME WorkerAssumption, OwnershipTypeOK, FirstBatch, FirstHere, FirstMoves, NEW v \in Workers, Worker(v)
  PROVE  FirstBatch'
<1>0. /\ NoOther /\ OnlyFirst /\ 1 \in Workers
      /\ executed = <<>> => UntakenFits
      /\ executed # <<>> => TakenFits
  BY FirstWorker, FirstParts DEF FirstBatch
<1>1. v = 1
  <2>1. workers[v].pc # "none"
    BY DEF Worker, AwaitPublication, Boot, Take, Prepare, Drain, CloseStage, ReportFailure, ReportEnd, Deactivate,
           Finish, WriteCheckpoint, Unlink, Leave, Left, StartAgent, FinishAgent, HaltAgent, AgentEnds, At
  <2>2. Asleep.pc = "none"
    BY DEF Asleep
  <2> QED  BY <1>0, <2>1, <2>2 DEF NoOther
<1>2. CASE executed = <<>>
  <2>1. workers[1].pc \in {"booting", "idle", "leaving", "dead"}
    BY <1>0, <1>2 DEF UntakenFits
  <2>2. Boot(1) \/ Take(1) \/ Leave(1) \/ Left(1)
    BY <1>1, <2>1 DEF Worker, AwaitPublication, Prepare, Drain, CloseStage, ReportFailure, ReportEnd, Deactivate,
           Finish, WriteCheckpoint, Unlink, StartAgent, FinishAgent, HaltAgent, At
  <2> QED  BY <1>2, <2>2, UntakenGoesOn
<1>3. CASE executed # <<>>
  <2>1. workers[1].pc \in Stage \cup {"closing", "unlinking", "dead"} /\ workers[1].op = "initial" /\ workers[1].id = 1
    BY <1>0, <1>3 DEF TakenFits, OnlyFirst
  <2>2. CASE Unlink(1)
    <3>1. requests' = Others(1) /\ executed' = executed /\ workers' = [workers EXCEPT ![1] = [Asleep EXCEPT !.pc = "idle"]]
      BY <2>1, <2>2 DEF Unlink
    <3>2. workers'[1].pc = "idle"
      BY <1>0, <3>1 DEF Asleep, OwnershipTypeOK, ProcessesTypeOK
    <3>3. ~FirstHere'
      BY <1>0, <3>1 DEF Others, OnlyFirst, FirstHere
    <3>4. ~Opening'
      BY <1>3, <3>1, <3>2 DEF Opening, Stage
    <3> QED  BY <1>3, <3>1, <3>3, <3>4, FirstGone DEF FirstBatch
  <2>3. CASE ~Unlink(1)
    <3>1. workers[1].pc \in Stage => WindowFits
      BY <2>1, FirstParts DEF Opening, OpeningFits
    <3>2. PICK es \in Seq(Event) : GoesOn(es)
      BY <1>1, <2>1, <2>3, <3>1, TakenSteps
    <3> QED  BY <1>3, <3>2, TakenGoesOn
  <2> QED  BY <2>2, <2>3
<1> QED  BY <1>2, <1>3

\* A restart of the manager, a signal or a death keeps it, too.
LEMMA IncidentFirst ==
  ASSUME WorkerAssumption, OwnershipTypeOK, FirstBatch, FirstHere, FirstMoves, Incident
  PROVE  FirstBatch'
<1>0. /\ NoOther /\ OnlyFirst' /\ 1 \in Workers
      /\ workers \in [Workers -> Process] /\ workers[1] \in Process
      /\ executed = <<>> => UntakenFits
      /\ executed # <<>> => TakenFits
      /\ Opening => OpeningFits
      /\ workers[1].pc # "awaiting"
  BY FirstWorker, FirstGone, FirstParts DEF FirstBatch, OwnershipTypeOK, ProcessesTypeOK, Stage
<1>1. CASE Restart
  <2>1. /\ record' = disk /\ seen' = 0 /\ process' = 0 /\ call' = [pc |-> "loading"]
        /\ UNCHANGED <<disk, tail, requests, window, stop, checkpoint, executed>>
        /\ workers' = [w \in Workers |-> IF At(w, "awaiting") THEN [workers[w] EXCEPT !.pc = "orphaned"]
                                         ELSE workers[w]]
    BY <1>1 DEF Restart, files
  <2>2. \A w \in Workers : workers'[w] = workers[w]
    <3>1. \A w \in Workers : ~At(w, "awaiting")
      <4>1. Asleep.pc = "none"
        BY DEF Asleep
      <4> QED  BY <1>0, <4>1 DEF NoOther, At
    <3> QED  BY <2>1, <3>1
  <2>3. Opening' = Opening /\ FirstHere' /\ call'.pc = "loading"
    BY <1>0, <2>1, <2>2 DEF Opening, FirstHere
  <2>4. NoOther'
    BY <1>0, <2>1, <2>2, <2>3 DEF NoOther, InBatch
  <2>5. Opening => OpeningFits'
    BY <1>0, <2>1, <2>2, <2>3 DEF OpeningFits, InBatch, WindowFits
  <2>6. executed = <<>> => UntakenFits'
    BY <1>0, <2>1, <2>2, <2>3 DEF UntakenFits, InBatch, Unmoved
  <2>7. executed # <<>> => TakenFits'
    BY <1>0, <2>1, <2>2, <2>3 DEF TakenFits, InBatch
  <2> QED  BY <1>0, <2>1, <2>3, <2>4, <2>5, <2>6, <2>7 DEF FirstBatch
<1>2. ASSUME NEW v \in Workers, Terminate(v) PROVE FirstBatch'
  <2>1. UNCHANGED <<record, disk, tail, seen, requests, window, checkpoint, workers, process, call, executed>>
        /\ stop' \in {stop, TRUE}
    BY <1>2 DEF Terminate, history, OwnershipTypeOK, FilesTypeOK
  <2>2. FirstCall /\ Opening' = Opening /\ InBatch' = InBatch
    BY <2>1, FirstParts DEF Opening, InBatch
  <2>3. FirstCall'
    BY <2>1, <2>2 DEF FirstCall
  <2>4. Opening => WindowFits'
    BY <1>0, <2>1 DEF OpeningFits, WindowFits
  <2>5. (executed = <<>> => Unmoved(record, tail)') /\ (Opening => Shown(record)')
    BY <2>1, RecordFirst DEF Unmoved, Shown, Asked, Untouched
  <2>6. executed # <<>> => record'.state # "stopped"
    BY <2>1, RecordFirst
  <2> QED  BY <2>1, <2>3, <2>4, <2>5, <2>6, FirstStays
<1>3. ASSUME NEW v \in Workers, Die(v) \/ \E a \in Agents : StageFails(v, a) PROVE v = 1
  <2>1. workers[v].pc # "none"
    BY <1>3 DEF Die, Alive, StageFails, At
  <2>2. Asleep.pc = "none"
    BY DEF Asleep
  <2> QED  BY <1>0, <2>1, <2>2 DEF NoOther
<1>4. ASSUME NEW pc, Go(1, pc)
      PROVE  workers'[1].pc = pc /\ workers'[1].op = workers[1].op /\ \A w \in Workers : w # 1 => workers'[w] = workers[w]
  BY <1>0, <1>4 DEF Go, Process
<1>5. ASSUME NEW v \in Workers, Die(v) PROVE FirstBatch'
  <2>1. Die(1) /\ Go(1, "dead")
    BY <1>3, <1>5 DEF Die
  <2>2. CASE executed = <<>>
    BY <2>1, <2>2, UntakenGoesOn
  <2>3. CASE executed # <<>>
    <3>1. UNCHANGED <<record, disk, tail, seen, requests, process, call>>
      BY <2>1 DEF Die, files
    <3>2. workers'[1].pc = "dead" /\ workers'[1].op = "initial" /\ \A w \in Workers : w # 1 => workers'[w] = workers[w]
      BY <1>0, <1>4, <2>1, <2>3 DEF TakenFits
    <3>3. \E es \in Seq(Event) : GoesOn(es)
      BY <3>1, <3>2, NoneSaid DEF Stage
    <3> QED  BY <2>3, <3>3, TakenGoesOn
  <2> QED  BY <2>2, <2>3
<1>6. ASSUME NEW v \in Workers, NEW a \in Agents, StageFails(v, a) PROVE FirstBatch'
  <2>1. StageFails(1, a) /\ At(1, "stage") /\ Go(1, "failing")
    BY <1>3, <1>6 DEF StageFails
  <2>2. executed # <<>> /\ workers[1].op = "initial"
    BY <1>0, <2>1 DEF UntakenFits, TakenFits, At
  <2>3. PICK es \in Seq(Event) : Emit(es) /\ \A n \in 1..Len(es) : es[n].kind = "agent"
    BY <1>0, <2>1, FailureEvents
  <2>4. \A n \in 1..Len(es) : OpeningEvent(es[n]) /\ es[n].kind # "worker_stopped"
    <3>1. \A n \in 1..Len(es) : es[n] \in Event
      OBVIOUS
    <3> QED  BY <2>3, <3>1, StageEvents
  <2>5. workers'[1].pc = "failing" /\ workers'[1].op = "initial" /\ \A w \in Workers : w # 1 => workers'[w] = workers[w]
    BY <1>4, <2>1, <2>2
  <2>6. window' = [open |-> FALSE, pending |-> {}]
    BY <2>1, <2>2 DEF StageFails, Deactivated
  <2>7. WindowFits'
    BY <2>6 DEF WindowFits
  <2>8. UNCHANGED <<record, disk, requests, process, call>>
    BY <2>1, <2>3 DEF StageFails, Emit
  <2>9. GoesOn(es)
    BY <2>3, <2>4, <2>5, <2>7, <2>8 DEF GoesOn, Stage
  <2> QED  BY <2>2, <2>9, TakenGoesOn
<1> QED  BY <1>1, <1>2, <1>5, <1>6 DEF Incident

\* Every step keeps what holds of the first batch, whatever the run has gone through.
LEMMA FirstStep ==
  ASSUME WorkerAssumption, FirstBatchInv, [Next]_vars
  PROVE  FirstBatchInv'
<1>1. OwnershipTypeOK /\ FirstBatch
  BY DEF FirstBatchInv
<1>2. OwnershipTypeOK' /\ FirstMoves
  BY <1>1, TypeStep, StepMovesFirst
<1>3. CASE ~FirstHere
  BY <1>1, <1>2, <1>3, FirstGone DEF FirstBatchInv
<1>4. CASE FirstHere /\ UNCHANGED vars
  <2>1. UNCHANGED <<record, disk, tail, seen, requests, window, stop, checkpoint, workers, process, call, executed>>
    BY <1>4 DEF vars, files, history
  <2>2. /\ Opening' = Opening /\ FirstHere' = FirstHere /\ InBatch' = InBatch /\ WindowFits' = WindowFits
        /\ Unmoved(record, tail)' = Unmoved(record, tail) /\ Unmoved(disk, tail)' = Unmoved(disk, tail)
        /\ OnlyFirst' = OnlyFirst
    BY <2>1 DEF Opening, FirstHere, InBatch, WindowFits, Unmoved, OnlyFirst
  <2>3. NoOther' = NoOther /\ OpeningFits' = OpeningFits /\ UntakenFits' = UntakenFits /\ TakenFits' = TakenFits
    BY <2>1, <2>2 DEF NoOther, OpeningFits, UntakenFits, TakenFits
  <2> QED  BY <1>1, <1>2, <2>1, <2>2, <2>3 DEF FirstBatchInv, FirstBatch
<1>5. CASE FirstHere /\ Next
  BY <1>1, <1>2, <1>5, LooksFirst, KillFirst, BeginFirst, OperationFirst, IncidentFirst, WorkerFirst
     DEF FirstBatchInv, Next
<1> QED  BY <1>3, <1>4, <1>5

\* It holds in the initial states.
LEMMA FirstInit ==
  ASSUME WorkerAssumption, Init
  PROVE  FirstBatchInv
<1>0. /\ record.op = "initial" /\ record.state = "busy" /\ record.pid = 1
      /\ \A a \in Agents : record.agents[a] \in {"queued", "none"}
      /\ disk = record /\ tail = <<>> /\ seen = 0 /\ process = 1 /\ call.pc = "none" /\ executed = <<>>
      /\ ~checkpoint.active
      /\ requests = {[id |-> 1, batch |-> 1, op |-> "initial", agents |-> Initial]}
      /\ workers = [w \in Workers |-> IF w = 1 THEN [Asleep EXCEPT !.pc = "booting"] ELSE Asleep]
  BY DEF Init, Idle
<1>1. /\ \A w \in Workers : w # 1 => workers[w] = Asleep
      /\ workers[1].pc = "booting" /\ workers[1].op = "" /\ Asleep.op = ""
  BY <1>0, FirstWorker DEF Asleep
<1>2. FirstHere /\ OnlyFirst /\ \A r \in requests : r.op = "initial"
  <2>1. \A r \in requests : r.id = 1 /\ r.op = "initial"
    BY <1>0
  <2>2. \E r \in requests : TRUE
    BY <1>0
  <2>3. \A w \in Workers : workers[w].op = ""
    BY <1>1
  <2> QED  BY <2>1, <2>2, <2>3 DEF FirstHere, OnlyFirst
<1>3. NoOther /\ WindowFits
  BY <1>0, <1>1 DEF NoOther, InBatch, WindowFits
<1>4. OpeningFits
  <2>1. \A i \in DOMAIN tail : FALSE
    BY <1>0
  <2> QED  BY <1>0, <1>2, <1>3, <2>1 DEF OpeningFits, Shown, Asked, InBatch
<1>5. UntakenFits
  BY <1>0, <1>1 DEF UntakenFits, Unmoved, Asked, Untouched, InBatch
<1> QED  BY <1>0, <1>2, <1>3, <1>4, <1>5, TypeInit DEF FirstBatchInv, FirstBatch

\* What is known of the first batch and of who works for it, in every state.
THEOREM FirstBatchInvariant == Spec => []FirstBatchInv
<1>1. Init => FirstBatchInv
  BY FirstInit, WorkerAssumption
<1>2. FirstBatchInv /\ [Next]_vars => FirstBatchInv'
  BY FirstStep, WorkerAssumption
<1> QED  BY <1>1, <1>2, PTL DEF Spec

\* An addition leaves the window only when its worker takes it over, closes the window or fails.
LEMMA WindowSteps ==
  ASSUME Next
  PROVE  \/ window.pending \subseteq window'.pending
         \/ \E w \in Workers : Drain(w) \/ CloseStage(w) \/ Deactivate(w) \/ \E a \in Agents : StageFails(w, a)
<1>1. CASE Look \/ Stop \/ Waited \/ Begin \/ \E a \in Agents : Kill(a)
  BY <1>1 DEF Look, Stop, Waited, Begin, Kill, OnlyFiles, files
<1>2. CASE Operation
  <2>1. CASE SubmitLive
    <3>1. window' = [window EXCEPT !.pending = @ \cup call.agents]
      BY <2>1 DEF SubmitLive
    <3> QED  BY <3>1
  <2>2. CASE ~SubmitLive
    BY <1>2, <2>2 DEF Operation, Load, Note, Retire, Retired, NotRetired, Archive, Mark, Announce, SubmitRequest,
                      RollBack, Spawn, Publish, OnlyFiles
  <2> QED  BY <2>1, <2>2
<1>3. CASE Incident
  BY <1>3 DEF Incident, Restart, Terminate, Die, files
<1>4. CASE \E w \in Workers : Worker(w)
  BY <1>4 DEF Worker, AwaitPublication, Boot, Take, Prepare, ReportFailure, ReportEnd, Finish, WriteCheckpoint,
              Unlink, Leave, Left, StartAgent, FinishAgent, HaltAgent, AgentEnds, files
<1> QED  BY <1>1, <1>2, <1>3, <1>4 DEF Next

\* No addition to the first batch is thrown away while the run goes on and its supervision
\* does not fail, for any agents, number of workers and course of calls, stops and incidents.
THEOREM NothingThrownAwayHolds == Spec => NothingThrownAway
<1> DEFINE Adopts == \A a \in window.pending \ window'.pending :
                       \/ \E w \in Workers : workers'[w].tasks[a] = "queued" \/ workers'[w].pc = "failing"
                       \/ stop
<1>1. ASSUME FirstBatchInv, Next PROVE Adopts
  <2>0. /\ window \in [open : BOOLEAN, pending : SUBSET Agents]
        /\ workers \in [Workers -> Process] /\ \A w \in Workers : workers[w] \in Process
        /\ OwnershipTypeOK /\ FirstBatch /\ WorkerAssumption
    BY <1>1, WorkerAssumption DEF FirstBatchInv, OwnershipTypeOK, FilesTypeOK, ProcessesTypeOK
  <2>1. ASSUME NEW w \in Workers, Drain(w) PROVE Adopts
    <3>1. workers'[w].tasks = [a \in Agents |-> IF a \in window.pending THEN "queued" ELSE workers[w].tasks[a]]
      BY <2>0, <2>1 DEF Drain, Process
    <3>2. \A a \in window.pending : workers'[w].tasks[a] = "queued"
      BY <2>0, <3>1
    <3> QED  BY <3>2
  <2>2. ASSUME NEW w \in Workers, CloseStage(w) PROVE Adopts
    <3>1. window' = window \/ window.pending = {}
      BY <2>2 DEF CloseStage
    <3> QED  BY <3>1
  <2>3. ASSUME NEW w \in Workers, NEW a \in Agents, StageFails(w, a) PROVE Adopts
    <3>1. workers'[w].pc = "failing"
      BY <2>0, <2>3 DEF StageFails, Go, Process
    <3> QED  BY <3>1
  <2>4. ASSUME NEW w \in Workers, Deactivate(w) PROVE Adopts
    <3>1. CASE workers[w].op = "initial"
      <4>1. w = 1 /\ workers[1].pc = "deactivating" /\ workers[1].op = "initial"
        BY <2>0, <2>4, <3>1 DEF FirstBatch, OnlyFirst, Deactivate, At
      <4>2. WindowFits
        BY <2>0, <4>1 DEF FirstBatch, Opening, OpeningFits, Stage
      <4> QED  BY <4>1, <4>2 DEF WindowFits
    <3>2. CASE workers[w].op # "initial"
      BY <2>4, <3>2 DEF Deactivate, Deactivated
    <3> QED  BY <3>1, <3>2
  <2>5. CASE window.pending \subseteq window'.pending
    BY <2>5
  <2> QED  BY <1>1, <2>1, <2>2, <2>3, <2>4, <2>5, WindowSteps
<1>2. FirstBatchInv /\ [Next]_vars => [Adopts]_vars
  BY <1>1
<1>3. Spec => []FirstBatchInv
  BY FirstBatchInvariant
<1> QED  BY <1>2, <1>3, PTL DEF Spec, NothingThrownAway

=============================================================================
