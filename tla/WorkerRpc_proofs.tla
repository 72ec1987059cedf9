-------------------------- MODULE WorkerRpc_proofs --------------------------
(***************************************************************************)
(* Proofs about WorkerRpc, for any number of calls and any limits: the ids *)
(* on their way are in order, nothing that is waited for is left out, so   *)
(* the answer to "shutdown" comes after everything else; without a fault   *)
(* the session ends only after that answer; and while a request waits      *)
(* there is always somebody who owes the next move.                        *)
(***************************************************************************)
EXTENDS WorkerRpc, TLAPS

USE CallsAssumption

-----------------------------------------------------------------------------
Outcomes == {"none", "waiting", "limit", "aborted", "failed"}

Shapes ==
  /\ phase \in {"new", "starting", "running", "failing", "stopping", "closed", "exited", "dead"}
  /\ child \in BOOLEAN /\ workerUp \in BOOLEAN
  /\ ssh \in {"none", "up", "exited"}
  /\ sent \in Seq(Requests)
  /\ pending \subseteq Ids
  /\ result \in [Requests -> Requests \cup Outcomes]
  /\ executing \in {0} \cup Ids
  /\ toWorker \in Seq(Nat) /\ fromWorker \in Seq(Nat)
  /\ \A i \in DOMAIN toWorker : toWorker[i] \in Ids
  /\ \A i \in DOMAIN fromWorker : fromWorker[i] \in Ids

\* A request is sent once, and waits as long as its id is pending.
Sends ==
  /\ \A i, j \in Ids : sent[i] = sent[j] => i = j
  /\ \A i \in Ids : result[sent[i]] # "none"
  /\ \A i \in pending : result[sent[i]] = "waiting"
  /\ \A r \in Requests : result[r] = "waiting" => Waiting(r)

Over == {"stopping", "closed", "exited", "dead"}

\* The life of the session: nothing before it starts, "shutdown" is the last
\* request, signals come after it. A ping that fails takes the child with it.
Life ==
  /\ phase = "new" => sent = <<>> /\ ssh = "none" /\ result = [r \in Requests |-> "none"]
  /\ phase # "failing"
  /\ phase = "starting" /\ child => result["ping"] # "failed"
  /\ phase \notin Over /\ child => result["shutdown"] = "none"
  /\ \A i \in Ids : sent[i] = "shutdown" => i = Len(sent) /\ phase \in Over
  /\ signals # {} => phase \in Over \ {"stopping"}
  /\ grace # "none" => signals # {}
  /\ ssh = "none" => /\ ~child /\ ~workerUp /\ executing = 0
                     /\ toWorker = <<>> /\ fromWorker = <<>>

Increasing(s) == \A i, j \in DOMAIN s : i < j => s[i] < s[j]

\* What the worker has answered, what it serves and what it is sent, in order.
Order ==
  /\ Increasing(toWorker) /\ Increasing(fromWorker)
  /\ \A i \in DOMAIN fromWorker, j \in DOMAIN toWorker : fromWorker[i] < toWorker[j]
  /\ executing # 0 => /\ \A i \in DOMAIN fromWorker : fromWorker[i] < executing
                      /\ \A j \in DOMAIN toWorker : executing < toWorker[j]

On(q, id) == \E i \in DOMAIN q : q[i] = id

\* With ssh and the worker up, what is waited for is on its way or in service;
\* in any case it is answered before a later request.
NoGap ==
  /\ workerUp /\ ssh = "up" =>
       \A id \in pending : id = executing \/ On(toWorker, id) \/ On(fromWorker, id)
  /\ \A id \in pending, j \in DOMAIN fromWorker : id < fromWorker[j] => On(fromWorker, id)

Drained == executing = 0 /\ toWorker = <<>> /\ ~workerUp

\* The answer to "shutdown", on its way or read, is the last thing.
Last ==
  /\ \A i \in DOMAIN fromWorker : sent[fromWorker[i]] = "shutdown" => Drained
  /\ result["shutdown"] = "shutdown" => Drained /\ pending = {} /\ phase \in Over

\* The inductive invariant.
IInv == Shapes /\ Sends /\ Life /\ Order /\ NoGap /\ Last

\* Without a fault the worker is up until it has served "shutdown", and the
\* client does not go on before.
Calm ==
  failed = {} =>
    /\ phase # "dead"
    /\ phase \in {"starting", "running"} =>
         ssh = "none" \/ (child /\ workerUp /\ ssh = "up")
    /\ phase = "stopping" /\ workerUp => ssh = "up" /\ result["shutdown"] = "waiting"
    /\ phase = "stopping" /\ ~workerUp => executing = 0
    /\ phase \in {"closed", "exited"} => ~workerUp /\ executing = 0

Ending == verified => ~Alive

LEMMA EmptySeq ==
  /\ <<>> \in Seq(Nat) /\ <<>> \in Seq(Requests) /\ Len(<<>>) = 0
  /\ \A i \in DOMAIN <<>> : FALSE
OBVIOUS

LEMMA InitInv == Init => IInv /\ Calm /\ Ending
<1> SUFFICES ASSUME Init PROVE IInv /\ Calm /\ Ending
  OBVIOUS
<1>1. Shapes
  <2>1. result \in [Requests -> Requests \cup Outcomes]
    BY DEF Init, Outcomes
  <2> QED BY <2>1, EmptySeq DEF Init, Shapes, Ids
<1>2. Sends /\ Life /\ Order /\ NoGap
  BY DEF Init, Sends, Life, Order, NoGap, On, Increasing, Ids, Requests
<1>3. Last
  BY DEF Init, Last, Requests
<1>4. Calm /\ Ending
  BY DEF Init, Calm, Ending, Alive
<1> QED BY <1>1, <1>2, <1>3, <1>4 DEF IInv

-----------------------------------------------------------------------------
(* The steps. A request the client sends takes the next id.                *)

LEMMA SentShapes ==
  ASSUME Shapes, NEW r \in Requests, sent' = Append(sent, r)
  PROVE  /\ sent' \in Seq(Requests)
         /\ Ids' = Ids \cup {Len(sent) + 1}
         /\ Len(sent') = Len(sent) + 1 /\ Len(sent) \in Nat /\ Len(sent) + 1 \notin Ids
         /\ sent'[Len(sent) + 1] = r
         /\ \A i \in Ids : sent'[i] = sent[i] /\ i \in Nat /\ i < Len(sent) + 1
BY DEF Shapes, Ids

LEMMA AppendNat ==
  ASSUME NEW q \in Seq(Nat), NEW n \in Nat
  PROVE  /\ Append(q, n) \in Seq(Nat)
         /\ DOMAIN Append(q, n) = DOMAIN q \cup {Len(q) + 1}
         /\ Append(q, n)[Len(q) + 1] = n
         /\ \A i \in DOMAIN q : Append(q, n)[i] = q[i] /\ i < Len(q) + 1
OBVIOUS

LEMMA TailNat ==
  ASSUME NEW q \in Seq(Nat), q # <<>>
  PROVE  /\ Head(q) = q[1] /\ 1 \in DOMAIN q /\ Head(q) \in Nat
         /\ Tail(q) \in Seq(Nat)
         /\ \A i \in DOMAIN Tail(q) : /\ i + 1 \in DOMAIN q /\ Tail(q)[i] = q[i + 1] /\ i \in Nat
                                     /\ i > 0
         /\ \A i \in DOMAIN q : i \in Nat /\ (i = 1 \/ (i - 1 \in DOMAIN Tail(q) /\ i > 1))
OBVIOUS

LEMMA AppendOn ==
  ASSUME NEW q \in Seq(Nat), NEW n \in Nat, NEW p, p = Append(q, n), NEW id
  PROVE  On(p, id) <=> On(q, id) \/ id = n
<1>1. On(q, id) => On(p, id)
  BY AppendNat DEF On
<1>2. On(p, n)
  BY AppendNat DEF On
<1>3. On(p, id) => On(q, id) \/ id = n
  BY AppendNat DEF On
<1> QED BY <1>1, <1>2, <1>3

LEMMA TailOn ==
  ASSUME NEW q \in Seq(Nat), q # <<>>, NEW id
  PROVE  On(q, id) <=> id = q[1] \/ On(Tail(q), id)
<1>1. On(q, id) => id = q[1] \/ On(Tail(q), id)
  <2> SUFFICES ASSUME NEW i \in DOMAIN q, q[i] = id, i # 1 PROVE On(Tail(q), id)
    BY DEF On
  <2>1. i - 1 \in DOMAIN Tail(q) /\ Tail(q)[i - 1] = q[i]
    OBVIOUS
  <2> QED BY <2>1 DEF On
<1>2. On(Tail(q), id) => On(q, id)
  <2> SUFFICES ASSUME NEW i \in DOMAIN Tail(q), Tail(q)[i] = id PROVE On(q, id)
    BY DEF On
  <2> QED BY TailNat DEF On
<1>3. On(q, q[1])
  BY TailNat DEF On
<1> QED BY <1>1, <1>2, <1>3

LEMMA PrefixNat ==
  ASSUME NEW q \in Seq(Nat), NEW p \in Prefixes(q)
  PROVE  /\ p \in Seq(Nat)
         /\ \A i \in DOMAIN p : i \in DOMAIN q /\ p[i] = q[i]
         /\ \A i, j \in DOMAIN q : i < j /\ j \in DOMAIN p => i \in DOMAIN p
         /\ q = <<>> => p = <<>>
<1>1. PICK n \in 0 .. Len(q) : p = SubSeq(q, 1, n)
  BY DEF Prefixes
<1>2. /\ p \in Seq(Nat) /\ Len(p) = n /\ \A i \in 1 .. n : p[i] = q[i]
  BY <1>1
<1> QED BY <1>1, <1>2

LEMMA RpcCallShapes ==
  ASSUME Shapes, NEW r \in Requests, RpcCall(r), UNCHANGED <<fromWorker, executing>>
  PROVE  /\ sent' \in Seq(Requests) /\ pending' \subseteq Ids' /\ executing' \in {0} \cup Ids'
         /\ result' \in [Requests -> Requests \cup Outcomes]
         /\ toWorker' \in Seq(Nat)
         /\ \A i \in DOMAIN toWorker' : toWorker'[i] \in Ids'
         /\ \A i \in DOMAIN fromWorker' : fromWorker'[i] \in Ids'
<1>1. sent' = Append(sent, r)
  BY DEF RpcCall
<1>2. /\ Ids' = Ids \cup {Len(sent) + 1} /\ sent' \in Seq(Requests)
      /\ Len(sent) + 1 \in Nat
  BY <1>1, SentShapes
<1>3. pending' \subseteq Ids'
  BY <1>2 DEF RpcCall, Shapes
<1>4. result' \in [Requests -> Requests \cup Outcomes]
  BY DEF RpcCall, Shapes, Outcomes
<1>5. toWorker' \in Seq(Nat) /\ \A i \in DOMAIN toWorker' : toWorker'[i] \in Ids'
  <2>1. toWorker' = toWorker \/ toWorker' = Append(toWorker, Len(sent) + 1)
    BY DEF RpcCall
  <2>2. /\ toWorker \in Seq(Nat) /\ Len(sent) + 1 \in Ids'
        /\ \A i \in DOMAIN toWorker : toWorker[i] \in Ids'
    BY <1>2 DEF Shapes
  <2>3. CASE toWorker' = toWorker
    BY <2>2, <2>3
  <2>4. CASE toWorker' = Append(toWorker, Len(sent) + 1)
    BY <1>2, <2>2, <2>4, AppendNat
  <2> QED BY <2>1, <2>3, <2>4
<1> QED BY <1>2, <1>3, <1>4, <1>5 DEF Shapes

LEMMA ShapesStep == Shapes /\ Life /\ [Next]_vars => Shapes'
<1> SUFFICES ASSUME Shapes, Life, [Next]_vars PROVE Shapes'
  OBVIOUS
<1>1. CASE RejectConfiguration \/ Ready \/ GraceOver \/ PiExits \/ PiDies \/ Verify \/ EndShutdown
  BY <1>1 DEF RejectConfiguration, Ready, GraceOver, PiExits, PiDies, Verify, EndShutdown,
              client, process, remote, outside, Shapes, Ids
<1>2. CASE Abort \/ Close
  BY <1>2 DEF Abort, Close, RejectAllPending, process, remote, outside, Shapes, Ids, Outcomes
<1>3. CASE SessionStart
  <2>1. result' \in [Requests -> Requests \cup Outcomes]
    BY <1>3 DEF SessionStart, Shapes, Outcomes
  <2>2. sent' \in Seq(Requests) /\ toWorker' \in Seq(Nat)
    BY <1>3 DEF SessionStart, Requests
  <2>3. /\ Ids' = {1} /\ UNCHANGED <<fromWorker, executing>>
        /\ \A i \in DOMAIN toWorker' : toWorker'[i] \in Ids'
    BY <1>3 DEF SessionStart, Ids
  <2>4. fromWorker = <<>> /\ executing = 0
    BY <1>3 DEF SessionStart, Life
  <2> QED BY <1>3, <2>1, <2>2, <2>3, <2>4, EmptySeq DEF SessionStart, Shapes
<1>4. ASSUME NEW c \in Calls, Refuse(c)
      PROVE  Shapes'
  BY <1>4 DEF Refuse, Shapes, Ids, Outcomes, process, remote, outside
<1>5. ASSUME NEW c \in Calls, Execute(c)
      PROVE  Shapes'
  <2>1. CASE aborted
    BY <1>5, <2>1 DEF Execute, Shapes, Ids, Outcomes, process, outside
  <2>2. CASE ~aborted
    <3>1. RpcCall(c) /\ UNCHANGED <<phase, child, ssh, workerUp, fromWorker, executing>>
      BY <1>5, <2>2 DEF Execute, process
    <3>2. c \in Requests
      BY DEF Requests
    <3> QED BY <3>1, <3>2, RpcCallShapes DEF Shapes
  <2> QED BY <2>1, <2>2
<1>6. CASE BeginShutdown
  <2>1. /\ UNCHANGED <<child, ssh, workerUp, fromWorker, executing>>
        /\ phase' \in {"failing", "running", "stopping", "closed"}
    BY <1>6 DEF BeginShutdown, process
  <2>2. CASE child
    <3>1. RpcCall("shutdown") /\ "shutdown" \in Requests
      BY <1>6, <2>2 DEF BeginShutdown, Requests
    <3> QED BY <2>1, <3>1, RpcCallShapes DEF Shapes
  <2>3. CASE ~child
    BY <1>6, <2>1, <2>3 DEF BeginShutdown, Shapes, Ids
  <2> QED BY <2>2, <2>3
<1>7. CASE HandleRpcLine
  <2>1. /\ UNCHANGED <<phase, child, ssh, workerUp, sent, toWorker, executing>>
        /\ fromWorker # <<>> /\ fromWorker' = Tail(fromWorker) /\ pending' \subseteq pending
    BY <1>7 DEF HandleRpcLine, process
  <2>2. Head(fromWorker) \in Ids
    BY <2>1, TailNat DEF Shapes
  <2>3. sent[Head(fromWorker)] \in Requests
    BY <2>2 DEF Shapes, Ids
  <2>4. result' \in [Requests -> Requests \cup Outcomes]
    BY <1>7, <2>3 DEF HandleRpcLine, Shapes
  <2>5. fromWorker' \in Seq(Nat) /\ \A i \in DOMAIN fromWorker' : fromWorker'[i] \in Ids
    BY <2>1, TailNat DEF Shapes
  <2> QED BY <2>1, <2>4, <2>5 DEF Shapes, Ids
<1>8. CASE Take
  <2>1. /\ UNCHANGED <<client, process, fromWorker, workerUp>>
        /\ toWorker # <<>> /\ toWorker' = Tail(toWorker) /\ executing' = Head(toWorker)
    BY <1>8 DEF Take
  <2>2. executing' \in Ids /\ toWorker' \in Seq(Nat) /\ \A i \in DOMAIN toWorker' : toWorker'[i] \in Ids
    BY <2>1, TailNat DEF Shapes
  <2> QED BY <2>1, <2>2 DEF Shapes, Ids, client, process
<1>9. CASE Respond
  <2>1. /\ UNCHANGED <<client, process, toWorker>> /\ executing' = 0 /\ workerUp' \in BOOLEAN
        /\ fromWorker' = fromWorker \/ fromWorker' = Append(fromWorker, executing)
        /\ executing \in Ids
    BY <1>9 DEF Respond, Shapes, Stops
  <2>2. fromWorker' \in Seq(Nat) /\ \A i \in DOMAIN fromWorker' : fromWorker'[i] \in Ids
    <3>1. executing \in Nat
      BY <2>1 DEF Shapes, Ids
    <3>2. CASE fromWorker' = fromWorker
      BY <3>2 DEF Shapes
    <3>3. CASE fromWorker' = Append(fromWorker, executing)
      BY <2>1, <3>1, <3>3, AppendNat DEF Shapes
    <3> QED BY <2>1, <3>2, <3>3
  <2> QED BY <2>1, <2>2 DEF Shapes, Ids, client, process
<1>10. CASE EndOfInput \/ WorkerDies \/ OrphanEnds \/ SshEnds
  <2>1. /\ UNCHANGED <<client, fromWorker>>
        /\ executing' \in {0, executing} /\ toWorker' \in {<<>>, toWorker}
        /\ ssh' \in {ssh, "exited"} /\ workerUp' \in {FALSE, workerUp}
    BY <1>10 DEF EndOfInput, WorkerDies, OrphanEnds, SshEnds, process
  <2>2. toWorker' \in Seq(Nat) /\ \A i \in DOMAIN toWorker' : toWorker'[i] \in Ids
    BY <2>1, EmptySeq DEF Shapes
  <2> QED BY <2>1, <2>2 DEF Shapes, Ids, client
<1>11. CASE SshBreaks
  <2>1. /\ UNCHANGED <<client, workerUp, executing>> /\ ssh' = "exited"
        /\ toWorker' \in Prefixes(toWorker) /\ fromWorker' \in Prefixes(fromWorker)
    BY <1>11 DEF SshBreaks
  <2>2. /\ toWorker' \in Seq(Nat) /\ \A i \in DOMAIN toWorker' : toWorker'[i] \in Ids
        /\ fromWorker' \in Seq(Nat) /\ \A i \in DOMAIN fromWorker' : fromWorker'[i] \in Ids
    BY <2>1, PrefixNat DEF Shapes
  <2> QED BY <2>1, <2>2 DEF Shapes, Ids, client
<1>12. CASE UNCHANGED vars
  BY <1>12 DEF vars, client, process, remote, Shapes, Ids
<1> QED BY <1>1, <1>2, <1>3, <1>4, <1>5, <1>6, <1>7, <1>8, <1>9, <1>10, <1>11, <1>12
       DEF Next, PiStep, WorkerStep, SshStep

LEMMA RpcCallSends ==
  ASSUME Shapes, Sends, NEW r \in Requests, result[r] = "none", RpcCall(r)
  PROVE  Sends'
<1>1. sent' = Append(sent, r)
  BY DEF RpcCall
<1> DEFINE n == Len(sent) + 1
<1>2. /\ Ids' = Ids \cup {n} /\ n \notin Ids /\ sent'[n] = r
      /\ \A i \in Ids : sent'[i] = sent[i]
  BY <1>1, SentShapes
<1>3. \A i \in Ids : sent[i] # r /\ sent[i] \in Requests
  BY DEF Sends, Shapes, Ids
<1>4. /\ result' \in [Requests -> Requests \cup Outcomes]
      /\ \A q \in Requests \ {r} : result'[q] = result[q]
  BY DEF RpcCall, Shapes, Outcomes
<1>5. \/ pending' = pending \cup {n} /\ result'[r] = "waiting"
      \/ pending' = pending /\ result'[r] = "failed"
  BY DEF RpcCall, Shapes
<1>6. \A i, j \in Ids' : sent'[i] = sent'[j] => i = j
  BY <1>2, <1>3 DEF Sends
<1>7. \A i \in Ids' : result'[sent'[i]] # "none"
  BY <1>2, <1>3, <1>4, <1>5 DEF Sends
<1>8. \A i \in pending' : result'[sent'[i]] = "waiting"
  <2>1. \A i \in pending : i \in Ids /\ result'[sent'[i]] = "waiting"
    BY <1>2, <1>3, <1>4 DEF Sends, Shapes
  <2> QED BY <1>2, <1>5, <2>1
<1>9. \A q \in Requests : result'[q] = "waiting" => \E i \in pending' : sent'[i] = q
  <2> SUFFICES ASSUME NEW q \in Requests, result'[q] = "waiting"
               PROVE  \E i \in pending' : sent'[i] = q
    OBVIOUS
  <2>1. CASE q = r
    BY <1>2, <1>5, <2>1
  <2>2. CASE q # r
    <3>1. PICK i \in pending : sent[i] = q
      BY <1>4, <2>2 DEF Sends, Waiting
    <3> QED BY <1>2, <1>5, <3>1 DEF Shapes
  <2> QED BY <2>1, <2>2
<1> QED BY <1>6, <1>7, <1>8, <1>9 DEF Sends, Waiting

LEMMA SendsStep == Shapes /\ Sends /\ Life /\ [Next]_vars => Sends'
<1> SUFFICES ASSUME Shapes, Sends, Life, [Next]_vars PROVE Sends'
  OBVIOUS
<1>1. CASE UNCHANGED <<sent, pending, result>>
  BY <1>1 DEF Sends, Ids, Waiting
<1>2. CASE Abort \/ Close
  <2>1. PICK how \in {"aborted", "failed"} :
          /\ UNCHANGED sent /\ pending' = {}
          /\ result' = [r \in Requests |-> IF Waiting(r) THEN how ELSE result[r]]
    BY <1>2 DEF Abort, Close, RejectAllPending
  <2>2. \A i \in Ids : sent[i] \in Requests
    BY DEF Shapes, Ids
  <2> QED BY <2>1, <2>2 DEF Sends, Ids, Waiting
<1>3. CASE SessionStart
  BY <1>3 DEF SessionStart, Sends, Ids, Requests, Waiting, Life
<1>4. ASSUME NEW c \in Calls, Refuse(c) \/ (Execute(c) /\ aborted)
      PROVE  Sends'
  <2>1. PICK how \in {"limit", "aborted"} :
          /\ result[c] = "none" /\ UNCHANGED <<sent, pending>>
          /\ result' = [result EXCEPT ![c] = how]
    BY <1>4 DEF Refuse, Execute
  <2>2. \A i \in Ids : sent[i] # c /\ sent[i] \in Requests
    BY <2>1 DEF Sends, Shapes, Ids
  <2> QED BY <2>1, <2>2 DEF Sends, Shapes, Ids, Waiting
<1>5. ASSUME NEW c \in Calls, Execute(c), ~aborted
      PROVE  Sends'
  BY <1>5, RpcCallSends DEF Execute, Requests
<1>6. CASE BeginShutdown
  <2>1. CASE child
    <3>1. result["shutdown"] = "none"
      BY <1>6, <2>1 DEF BeginShutdown, Life, Over
    <3> QED BY <1>6, <2>1, <3>1, RpcCallSends DEF BeginShutdown, Requests
  <2>2. CASE ~child
    BY <1>1, <1>6, <2>2 DEF BeginShutdown
  <2> QED BY <2>1, <2>2
<1>7. CASE HandleRpcLine
  <2> DEFINE id == Head(fromWorker)
  <2>1. /\ UNCHANGED sent /\ pending' = pending \ {id}
        /\ result' = [r \in Requests |-> IF id \in pending /\ sent[id] = r
                                        THEN sent[id] ELSE result[r]]
    BY <1>7 DEF HandleRpcLine, Answered
  <2>2. \A i \in Ids : sent[i] \in Requests /\ sent[i] \notin {"none", "waiting"}
    BY DEF Shapes, Ids, Requests
  <2>3. pending \subseteq Ids
    BY DEF Shapes
  <2>4. \A i \in Ids : result'[sent[i]] = IF id \in pending /\ id = i THEN sent[i] ELSE result[sent[i]]
    BY <2>1, <2>2, <2>3 DEF Sends
  <2>5. /\ \A i \in Ids : result'[sent[i]] # "none"
        /\ \A i \in pending' : result'[sent[i]] = "waiting"
    BY <2>1, <2>2, <2>3, <2>4 DEF Sends
  <2>6. \A r \in Requests : result'[r] = "waiting" => \E i \in pending' : sent[i] = r
    BY <2>1, <2>2, <2>3 DEF Sends, Waiting
  <2> QED BY <2>1, <2>5, <2>6 DEF Sends, Ids, Waiting
<1> QED BY <1>1, <1>2, <1>3, <1>4, <1>5, <1>6, <1>7
    DEF Next, PiStep, WorkerStep, SshStep, RejectConfiguration, Ready, EndShutdown, GraceOver, PiExits,
        PiDies, Verify, Take, Respond, EndOfInput, WorkerDies, OrphanEnds, SshEnds,
        SshBreaks, vars, client

LEMMA LifeStep == Shapes /\ Sends /\ Life /\ [Next]_vars => Life'
<1> SUFFICES ASSUME Shapes, Sends, Life, [Next]_vars PROVE Life'
  OBVIOUS
<1> USE DEF Over
<1>s. Shapes'
  BY ShapesStep
<1>1. CASE RejectConfiguration \/ Ready \/ PiExits \/ PiDies \/ Verify
  BY <1>1 DEF RejectConfiguration, Ready, PiExits, PiDies, Verify, client, process, remote,
              outside, Life, Ids
<1>2. CASE Abort \/ Close
  <2>1. /\ UNCHANGED <<phase, sent, process, remote>>
        /\ child' => child
        /\ \A r \in Requests : ~Waiting(r) => result'[r] = result[r]
        /\ child' => phase = "running"
    BY <1>2 DEF Abort, Close, RejectAllPending
  <2>2. phase # "new"
    BY <1>2 DEF Abort, Close, Life
  <2>3. phase \notin Over /\ child => ~Waiting("shutdown")
    BY DEF Life, Waiting, Shapes
  <2> QED BY <2>1, <2>2, <2>3 DEF Life, Ids, process, remote, Requests
<1>3. CASE SessionStart
  BY <1>3 DEF SessionStart, Life, Ids, Requests, process, remote, outside
<1>4. ASSUME NEW c \in Calls, Refuse(c) \/ (Execute(c) /\ aborted)
      PROVE  Life'
  <2>1. PICK how \in {"limit", "aborted"} :
          /\ UNCHANGED <<phase, child, sent, process, toWorker, fromWorker, workerUp, executing>>
          /\ result' = [result EXCEPT ![c] = how] /\ phase = "running"
    BY <1>4 DEF Refuse, Execute, remote
  <2>2. c \in Requests /\ c # "shutdown"
    BY DEF Requests
  <2> QED BY <2>1, <2>2 DEF Life, Ids, process, Shapes
<1>5. ASSUME NEW c \in Calls, Execute(c), ~aborted
      PROVE  Life'
  <2>1. /\ UNCHANGED <<phase, child, process, fromWorker, workerUp, executing>>
        /\ phase = "running" /\ RpcCall(c)
    BY <1>5 DEF Execute
  <2>2. c \in Requests /\ c # "shutdown"
    BY DEF Requests
  <2>3. sent' = Append(sent, c)
    BY <2>1 DEF RpcCall
  <2>4. \A i \in Ids' : sent'[i] # "shutdown"
    BY <2>1, <2>2, <2>3, SentShapes DEF Life
  <2>5. result'["shutdown"] = result["shutdown"]
    BY <2>1, <2>2 DEF RpcCall, Shapes, Requests
  <2>6. ssh = "none" => toWorker' = <<>>
    BY <2>1 DEF RpcCall, Life
  <2> QED BY <2>1, <2>4, <2>5, <2>6 DEF Life, process
<1>6. CASE BeginShutdown
  <2>1. /\ UNCHANGED <<child, process, fromWorker, workerUp, executing>>
        /\ phase \in {"starting", "running"}
    BY <1>6 DEF BeginShutdown
  <2>2. CASE child
    <3>1. /\ phase' = "stopping" /\ RpcCall("shutdown") /\ "shutdown" \in Requests
      BY <1>6, <2>2 DEF BeginShutdown, Life, Requests
    <3>2. sent' = Append(sent, "shutdown")
      BY <3>1 DEF RpcCall
    <3>3. \A i \in Ids' : sent'[i] = "shutdown" => i = Len(sent')
      BY <2>1, <3>1, <3>2, SentShapes DEF Life
    <3> QED BY <2>1, <2>2, <3>1, <3>3 DEF Life, process
  <2>3. CASE ~child
    BY <1>6, <2>1, <2>3 DEF BeginShutdown, Life, Ids, process
  <2> QED BY <2>2, <2>3
<1>7. CASE HandleRpcLine
  <2> DEFINE id == Head(fromWorker)
  <2>1. /\ UNCHANGED <<phase, child, sent, process, toWorker, workerUp, executing>>
        /\ phase # "new" /\ child /\ fromWorker # <<>>
        /\ result' = [r \in Requests |-> IF id \in pending /\ sent[id] = r
                                        THEN sent[id] ELSE result[r]]
    BY <1>7 DEF HandleRpcLine, Answered, Life
  <2>2. phase \notin Over => \A i \in pending : sent[i] # "shutdown"
    BY DEF Life, Shapes
  <2>3. ssh # "none"
    BY <2>1 DEF Life
  <2> QED BY <2>1, <2>2, <2>3 DEF Life, Ids, process, Requests
<1>8. CASE EndShutdown \/ GraceOver
  <2>1. CASE EndShutdown
    <3>1. /\ phase' = "closed" /\ ~child' /\ UNCHANGED <<sent, result, ssh, remote>>
          /\ phase = "stopping"
          /\ signals' # {} \/ UNCHANGED <<signals, grace>>
      BY <2>1 DEF EndShutdown, Life
    <3> QED BY <3>1 DEF Life, Ids, remote
  <2>2. CASE GraceOver
    <3>1. signals # {} /\ UNCHANGED <<client, ssh, remote, signals>>
      BY <2>2 DEF GraceOver, Life
    <3> QED BY <3>1 DEF Life, Ids, client, remote
  <2> QED BY <1>8, <2>1, <2>2
<1>9. CASE WorkerStep \/ SshEnds
  <2>1. /\ \/ ssh # "none" /\ ssh' # "none"
           \/ UNCHANGED <<ssh, workerUp, executing, toWorker, fromWorker>>
        /\ UNCHANGED <<client, signals, grace>>
    BY <1>9 DEF WorkerStep, Take, Respond, EndOfInput, WorkerDies, OrphanEnds, SshEnds, Life,
                process
  <2> QED BY <2>1 DEF Life, Ids, client
<1>10. CASE SshBreaks
  BY <1>10 DEF SshBreaks, Life, Ids, client
<1>11. CASE UNCHANGED vars
  BY <1>11 DEF vars, client, process, remote, Life, Ids
<1> QED BY <1>1, <1>2, <1>3, <1>4, <1>5, <1>6, <1>7, <1>8, <1>9, <1>10, <1>11
       DEF Next, PiStep, SshStep

LEMMA OrderStep == Shapes /\ Life /\ Order /\ [Next]_vars => Order'
<1> SUFFICES ASSUME Shapes, Life, Order, [Next]_vars PROVE Order'
  OBVIOUS
<1>n. /\ executing \in Nat /\ toWorker \in Seq(Nat) /\ fromWorker \in Seq(Nat)
      /\ \A i \in Ids : i \in Nat /\ i > 0
      /\ \A i \in DOMAIN toWorker : toWorker[i] \in Ids
      /\ \A i \in DOMAIN fromWorker : fromWorker[i] \in Ids
  BY DEF Shapes, Ids
<1>1. CASE /\ UNCHANGED fromWorker /\ toWorker' \in {<<>>, toWorker}
           /\ executing' \in {0, executing}
  BY <1>1, EmptySeq DEF Order, Increasing
<1>2. CASE SessionStart
  BY <1>2 DEF SessionStart, Life, Order, Increasing
<1>3. ASSUME NEW r \in Requests, RpcCall(r), UNCHANGED <<fromWorker, executing>>
      PROVE  Order'
  <2> DEFINE n == Len(sent) + 1
  <2>1. n \in Nat /\ \A i \in Ids : i < n
    BY DEF Shapes, Ids
  <2>2. toWorker' = toWorker \/ toWorker' = Append(toWorker, n)
    BY <1>3 DEF RpcCall
  <2>3. CASE toWorker' = Append(toWorker, n)
    <3>1. /\ DOMAIN toWorker' = DOMAIN toWorker \cup {Len(toWorker) + 1}
          /\ toWorker'[Len(toWorker) + 1] = n
          /\ \A i \in DOMAIN toWorker : toWorker'[i] = toWorker[i] /\ i < Len(toWorker) + 1
      BY <1>n, <2>1, <2>3, AppendNat
    <3>2. Increasing(toWorker)'
      BY <1>n, <2>1, <3>1 DEF Order, Increasing
    <3>3. /\ \A i \in DOMAIN fromWorker, j \in DOMAIN toWorker' : fromWorker[i] < toWorker'[j]
          /\ executing # 0 => \A j \in DOMAIN toWorker' : executing < toWorker'[j]
      BY <1>n, <2>1, <3>1 DEF Order, Shapes
    <3> QED BY <1>3, <3>2, <3>3 DEF Order, Increasing
  <2> QED BY <1>1, <1>3, <2>2, <2>3
<1>4. CASE HandleRpcLine
  <2>1. /\ UNCHANGED <<toWorker, executing>> /\ fromWorker # <<>>
        /\ fromWorker' = Tail(fromWorker)
    BY <1>4 DEF HandleRpcLine
  <2>2. \A i \in DOMAIN fromWorker' : /\ i + 1 \in DOMAIN fromWorker /\ i \in Nat
                                     /\ fromWorker'[i] = fromWorker[i + 1]
    BY <1>n, <2>1, TailNat
  <2>3. Increasing(fromWorker)'
    BY <2>2 DEF Order, Increasing
  <2> QED BY <2>1, <2>2, <2>3 DEF Order, Increasing
<1>5. CASE Take
  <2>1. /\ UNCHANGED fromWorker /\ executing = 0 /\ toWorker # <<>>
        /\ executing' = Head(toWorker) /\ toWorker' = Tail(toWorker)
    BY <1>5 DEF Take
  <2>2. /\ 1 \in DOMAIN toWorker /\ executing' = toWorker[1]
        /\ \A i \in DOMAIN toWorker' : /\ i + 1 \in DOMAIN toWorker /\ i \in Nat /\ i > 0
                                      /\ toWorker'[i] = toWorker[i + 1]
    BY <1>n, <2>1, TailNat
  <2>3. Increasing(toWorker)' /\ \A j \in DOMAIN toWorker' : executing' < toWorker'[j]
    BY <2>2 DEF Order, Increasing
  <2> QED BY <2>1, <2>2, <2>3 DEF Order, Increasing
<1>6. CASE Respond
  <2>1. /\ UNCHANGED toWorker /\ executing' = 0 /\ executing # 0
        /\ fromWorker' = fromWorker \/ fromWorker' = Append(fromWorker, executing)
    BY <1>6 DEF Respond
  <2>2. CASE fromWorker' = Append(fromWorker, executing)
    <3>1. /\ DOMAIN fromWorker' = DOMAIN fromWorker \cup {Len(fromWorker) + 1}
          /\ fromWorker'[Len(fromWorker) + 1] = executing
          /\ \A i \in DOMAIN fromWorker : /\ fromWorker'[i] = fromWorker[i]
                                         /\ i < Len(fromWorker) + 1
      BY <1>n, <2>2, AppendNat
    <3>2. Increasing(fromWorker)'
      BY <1>n, <2>1, <3>1 DEF Order, Increasing
    <3>3. \A i \in DOMAIN fromWorker', j \in DOMAIN toWorker : fromWorker'[i] < toWorker[j]
      BY <1>n, <2>1, <3>1 DEF Order
    <3> QED BY <2>1, <3>2, <3>3 DEF Order, Increasing
  <2> QED BY <1>1, <2>1, <2>2
<1>7. CASE SshBreaks
  <2>1. /\ UNCHANGED executing
        /\ toWorker' \in Prefixes(toWorker) /\ fromWorker' \in Prefixes(fromWorker)
    BY <1>7 DEF SshBreaks
  <2>2. /\ \A i \in DOMAIN toWorker' : i \in DOMAIN toWorker /\ toWorker'[i] = toWorker[i]
        /\ \A i \in DOMAIN fromWorker' : i \in DOMAIN fromWorker /\ fromWorker'[i] = fromWorker[i]
    BY <1>n, <2>1, PrefixNat
  <2> QED BY <2>1, <2>2 DEF Order, Increasing
<1>8. ASSUME NEW c \in Calls, Refuse(c) \/ Execute(c)
      PROVE  Order'
  BY <1>1, <1>3, <1>8 DEF Refuse, Execute, remote, Requests
<1>9. CASE BeginShutdown
  BY <1>1, <1>3, <1>9 DEF BeginShutdown, Requests
<1> QED BY <1>1, <1>2, <1>4, <1>5, <1>6, <1>7, <1>8, <1>9
    DEF Next, PiStep, WorkerStep, SshStep, RejectConfiguration, Ready, Abort, Close, EndShutdown,
        GraceOver, PiExits, PiDies, Verify, EndOfInput, WorkerDies, OrphanEnds, SshEnds,
        remote, vars

LEMMA NoGapStep ==
  Shapes /\ Life /\ Order /\ NoGap /\ [Next]_vars => NoGap'
<1> SUFFICES ASSUME Shapes, Life, Order, NoGap, [Next]_vars PROVE NoGap'
  OBVIOUS
<1>n. /\ executing \in Nat /\ toWorker \in Seq(Nat) /\ fromWorker \in Seq(Nat)
      /\ \A i \in Ids : i \in Nat /\ i > 0
      /\ \A i \in DOMAIN toWorker : toWorker[i] \in Ids
      /\ \A i \in DOMAIN fromWorker : fromWorker[i] \in Ids
      /\ pending \subseteq Ids
  BY DEF Shapes, Ids
<1>1. CASE /\ UNCHANGED <<toWorker, fromWorker, executing, ssh, workerUp>>
           /\ pending' \subseteq pending
  BY <1>1 DEF NoGap, On
<1>2. CASE /\ UNCHANGED <<fromWorker, pending>>
           /\ ~workerUp' \/ ssh' # "up"
  BY <1>2 DEF NoGap, On
<1>3. CASE SessionStart
  BY <1>3 DEF SessionStart, Life, NoGap, On
<1>4. ASSUME NEW r \in Requests, RpcCall(r), UNCHANGED <<fromWorker, executing, ssh, workerUp>>
      PROVE  NoGap'
  <2> DEFINE n == Len(sent) + 1
  <2>1. n \in Nat /\ \A i \in Ids : i < n
    BY DEF Shapes, Ids
  <2>2. \/ pending' = pending /\ toWorker' = toWorker
        \/ /\ pending' = pending \cup {n}
           /\ toWorker' = IF ssh = "up" THEN Append(toWorker, n) ELSE toWorker
    BY <1>4 DEF RpcCall
  <2>3. CASE pending' = pending \cup {n}
    <3>1. \A j \in DOMAIN fromWorker : ~(n < fromWorker[j])
      BY <1>n, <2>1
    <3>2. ssh = "up" => \A id : On(toWorker', id) <=> On(toWorker, id) \/ id = n
      BY <1>n, <2>1, <2>2, <2>3, AppendOn
    <3> QED BY <1>4, <2>3, <3>1, <3>2 DEF NoGap
  <2> QED BY <1>1, <1>4, <2>2, <2>3
<1>5. CASE HandleRpcLine
  <2>1. /\ UNCHANGED <<toWorker, executing, ssh, workerUp>> /\ fromWorker # <<>>
        /\ fromWorker' = Tail(fromWorker) /\ pending' = pending \ {fromWorker[1]}
    BY <1>5, <1>n, TailNat DEF HandleRpcLine, Answered, process
  <2>2. \A id : On(fromWorker, id) => id = fromWorker[1] \/ On(fromWorker', id)
    BY <1>n, <2>1, TailOn
  <2>3. \A j \in DOMAIN fromWorker' : On(fromWorker, fromWorker'[j])
    BY <1>n, <2>1, TailNat DEF On
  <2> QED BY <2>1, <2>2, <2>3 DEF NoGap, On
<1>6. CASE Take
  <2>1. /\ UNCHANGED <<pending, fromWorker, ssh, workerUp>> /\ executing = 0 /\ toWorker # <<>>
        /\ executing' = toWorker[1] /\ toWorker' = Tail(toWorker)
    BY <1>6, <1>n, TailNat DEF Take, client, process
  <2>2. \A id : On(toWorker, id) => id = executing' \/ On(toWorker', id)
    BY <1>n, <2>1, TailOn
  <2> QED BY <1>n, <2>1, <2>2 DEF NoGap
<1>7. CASE Respond
  <2>1. /\ UNCHANGED <<pending, toWorker, ssh>> /\ workerUp /\ executing' = 0 /\ executing # 0
        /\ \/ ssh = "up" /\ fromWorker' = Append(fromWorker, executing)
           \/ ssh # "up" /\ fromWorker' = fromWorker
    BY <1>7 DEF Respond, client, process
  <2>2. CASE ssh = "up"
    <3>1. \A id : On(fromWorker', id) <=> On(fromWorker, id) \/ id = executing
      BY <1>n, <2>1, <2>2, AppendOn
    <3>2. \A id \in pending : id < executing => On(fromWorker, id)
      <4> SUFFICES ASSUME NEW id \in pending, id < executing, On(toWorker, id) PROVE FALSE
        BY <1>n, <2>1, <2>2 DEF NoGap
      <4> QED BY <1>n, <2>1 DEF Order, On
    <3>3. \A id \in pending, j \in DOMAIN fromWorker' :
            id < fromWorker'[j] => On(fromWorker', id)
      BY <3>1, <3>2 DEF NoGap, On
    <3> QED BY <2>1, <2>2, <3>1, <3>3 DEF NoGap
  <2> QED BY <1>2, <2>1, <2>2
<1>8. CASE SshBreaks
  <2>1. /\ UNCHANGED pending /\ ssh' = "exited" /\ fromWorker' \in Prefixes(fromWorker)
    BY <1>8 DEF SshBreaks, client
  <2>2. /\ \A i \in DOMAIN fromWorker' : i \in DOMAIN fromWorker /\ fromWorker'[i] = fromWorker[i]
        /\ \A i, j \in DOMAIN fromWorker : i < j /\ j \in DOMAIN fromWorker' => i \in DOMAIN fromWorker'
    BY <1>n, <2>1, PrefixNat
  <2>3. ASSUME NEW id \in pending, NEW j \in DOMAIN fromWorker', id < fromWorker'[j]
        PROVE  On(fromWorker', id)
    <3>1. PICK i \in DOMAIN fromWorker : fromWorker[i] = id
      BY <2>2, <2>3 DEF NoGap, On
    <3>2. i < j
      <4>1. /\ j \in DOMAIN fromWorker /\ fromWorker[i] < fromWorker[j]
            /\ i \in Nat /\ j \in Nat /\ fromWorker[i] \in Nat /\ fromWorker[j] \in Nat
        BY <1>n, <2>2, <2>3, <3>1
      <4>2. j < i => fromWorker[j] < fromWorker[i]
        BY <4>1 DEF Order, Increasing
      <4> QED BY <4>1, <4>2
    <3> QED BY <2>2, <3>1, <3>2 DEF On
  <2> QED BY <2>1, <2>3 DEF NoGap
<1>9. ASSUME NEW c \in Calls, Refuse(c) \/ Execute(c)
      PROVE  NoGap'
  BY <1>1, <1>4, <1>9 DEF Refuse, Execute, process, remote, Requests
<1>10. CASE BeginShutdown
  BY <1>1, <1>4, <1>10 DEF BeginShutdown, process, Requests
<1>11. CASE Abort \/ Close
  BY <1>1, <1>11 DEF Abort, Close, RejectAllPending, process, remote
<1>12. CASE OrphanEnds
  BY <1>2, <1>12 DEF OrphanEnds, client, process
<1> QED BY <1>1, <1>2, <1>3, <1>5, <1>6, <1>7, <1>8, <1>9, <1>10, <1>11, <1>12
    DEF Next, PiStep, WorkerStep, SshStep, RejectConfiguration, Ready, EndShutdown, GraceOver, PiExits,
        PiDies, Verify, EndOfInput, WorkerDies, SshEnds, client, process, remote, vars

LEMMA LastStep ==
  Shapes /\ Sends /\ Life /\ Order /\ NoGap /\ Last /\ [Next]_vars => Last'
<1> SUFFICES ASSUME Shapes, Sends, Life, Order, NoGap, Last, [Next]_vars PROVE Last'
  OBVIOUS
<1>n. /\ executing \in Nat /\ toWorker \in Seq(Nat) /\ fromWorker \in Seq(Nat)
      /\ Len(sent) \in Nat
      /\ \A i \in Ids : i \in Nat /\ i > 0 /\ i <= Len(sent)
      /\ \A i \in DOMAIN toWorker : toWorker[i] \in Ids
      /\ \A i \in DOMAIN fromWorker : fromWorker[i] \in Ids
      /\ pending \subseteq Ids
  BY DEF Shapes, Ids
<1>s. /\ "shutdown" \in Requests
      /\ \A i \in Ids : sent[i] = "shutdown" => i = Len(sent) /\ phase \in Over
  BY DEF Life, Requests
<1>1. CASE /\ UNCHANGED <<sent, toWorker, fromWorker, executing, workerUp>>
           /\ pending' \subseteq pending
           /\ phase \in Over => phase' \in Over
           /\ result'["shutdown"] = "shutdown" => result["shutdown"] = "shutdown"
  BY <1>1 DEF Last, Drained
<1>2. CASE SessionStart
  BY <1>2 DEF SessionStart, Life, Last, Requests
<1>3. ASSUME NEW r \in Requests, RpcCall(r), phase \notin Over, UNCHANGED fromWorker
      PROVE  Last'
  <2>1. sent' = Append(sent, r)
    BY <1>3 DEF RpcCall
  <2>2. \A i \in DOMAIN fromWorker' : sent'[fromWorker'[i]] # "shutdown"
    BY <1>3, <1>n, <1>s, <2>1, SentShapes
  <2>3. result'["shutdown"] # "shutdown"
    BY <1>3, <1>s DEF RpcCall, Last, Shapes
  <2> QED BY <2>2, <2>3 DEF Last
<1>4. CASE HandleRpcLine
  <2> DEFINE id == fromWorker[1]
  <2>1. /\ UNCHANGED <<phase, sent, toWorker, executing, workerUp>> /\ fromWorker # <<>>
        /\ fromWorker' = Tail(fromWorker) /\ pending' = pending \ {id}
        /\ result' = [r \in Requests |-> IF id \in pending /\ sent[id] = r
                                        THEN sent[id] ELSE result[r]]
    BY <1>4, <1>n, TailNat DEF HandleRpcLine, Answered
  <2>2. \A i \in DOMAIN fromWorker' : sent'[fromWorker'[i]] = "shutdown" => Drained'
    BY <1>n, <2>1, TailNat DEF Last, Drained
  <2>3. ASSUME id \in pending, sent[id] = "shutdown"
        PROVE  Drained /\ phase \in Over /\ pending = {id}
    <3>1. 1 \in DOMAIN fromWorker /\ id = Len(sent) /\ phase \in Over /\ id \in Nat
      BY <1>n, <1>s, <2>1, <2>3, TailNat
    <3>2. ASSUME NEW p \in pending, p < id
          PROVE  FALSE
      <4>1. PICK k \in DOMAIN fromWorker : fromWorker[k] = p
        BY <3>1, <3>2 DEF NoGap, On
      <4>2. k # 1 /\ k \in Nat /\ k >= 1
        BY <1>n, <3>1, <3>2, <4>1
      <4>3. id < fromWorker[k]
        BY <3>1, <4>2 DEF Order, Increasing
      <4> QED BY <1>n, <3>1, <3>2, <4>1, <4>3
    <3>3. pending = {id}
      BY <1>n, <2>3, <3>1, <3>2
    <3> QED BY <2>3, <3>1, <3>3 DEF Last
  <2>4. result'["shutdown"] = "shutdown" => Drained' /\ pending' = {} /\ phase' \in Over
    BY <1>s, <2>1, <2>3 DEF Last, Drained
  <2> QED BY <2>2, <2>4 DEF Last
<1>5. CASE Take
  BY <1>5 DEF Take, Last, Drained, client
<1>6. CASE Respond
  <2>1. /\ UNCHANGED <<sent, result, toWorker>> /\ workerUp /\ executing' = 0 /\ executing # 0
    BY <1>6 DEF Respond, client
  <2>2. /\ \A i \in DOMAIN fromWorker : sent[fromWorker[i]] # "shutdown"
        /\ result["shutdown"] # "shutdown"
    BY <2>1 DEF Last, Drained
  <2>3. CASE UNCHANGED fromWorker
    BY <2>1, <2>2, <2>3 DEF Last
  <2>4. CASE fromWorker' = Append(fromWorker, executing) /\ workerUp' = ~Stops(executing)
    <3>1. sent[executing] = "shutdown" => Drained'
      <4> SUFFICES ASSUME sent[executing] = "shutdown" PROVE toWorker = <<>>
        BY <2>1, <2>4 DEF Stops, Drained
      <4>1. executing = Len(sent)
        BY <1>s, <2>1 DEF Shapes
      <4>2. 1 \notin DOMAIN toWorker
        BY <1>n, <2>1, <4>1 DEF Order
      <4> QED BY <1>n, <4>2, TailNat
    <3> QED BY <1>n, <2>1, <2>2, <2>4, <3>1, AppendNat DEF Last
  <2> QED BY <1>6, <2>3, <2>4 DEF Respond
<1>7. CASE EndOfInput \/ WorkerDies \/ OrphanEnds \/ SshEnds
  BY <1>7 DEF EndOfInput, WorkerDies, OrphanEnds, SshEnds, Last, Drained, client
<1>8. CASE SshBreaks
  <2>1. /\ UNCHANGED <<client, executing, workerUp>>
        /\ toWorker' \in Prefixes(toWorker) /\ fromWorker' \in Prefixes(fromWorker)
    BY <1>8 DEF SshBreaks
  <2>2. /\ toWorker = <<>> => toWorker' = <<>>
        /\ \A i \in DOMAIN fromWorker' : i \in DOMAIN fromWorker /\ fromWorker'[i] = fromWorker[i]
    BY <1>n, <2>1, PrefixNat
  <2> QED BY <2>1, <2>2 DEF Last, Drained, client
<1>9. ASSUME NEW c \in Calls, Refuse(c) \/ (Execute(c) /\ aborted)
      PROVE  Last'
  <2>1. /\ UNCHANGED <<phase, sent, toWorker, fromWorker, executing, workerUp, pending>>
        /\ \E how \in {"limit", "aborted"} : result' = [result EXCEPT ![c] = how]
    BY <1>9 DEF Refuse, Execute, remote
  <2> QED BY <1>1, <1>s, <2>1 DEF Shapes
<1>10. ASSUME NEW c \in Calls, Execute(c), ~aborted
       PROVE  Last'
  BY <1>3, <1>10 DEF Execute, Requests, Over
<1>11. CASE BeginShutdown
  <2>1. CASE child
    BY <1>3, <1>11, <1>s, <2>1 DEF BeginShutdown, Over
  <2>2. CASE ~child
    BY <1>1, <1>11, <2>2 DEF BeginShutdown, Over
  <2> QED BY <2>1, <2>2
<1>12. CASE Abort \/ Close
  BY <1>1, <1>12, <1>s DEF Abort, Close, RejectAllPending, remote
<1>13. CASE EndShutdown \/ PiExits \/ PiDies \/ RejectConfiguration \/ Ready \/ GraceOver \/ Verify
  BY <1>1, <1>13 DEF EndShutdown, PiExits, PiDies, RejectConfiguration, Ready, GraceOver, Verify,
                     Over, remote, client
<1> QED BY <1>1, <1>2, <1>4, <1>5, <1>6, <1>7, <1>8, <1>9, <1>10, <1>11, <1>12, <1>13
    DEF Next, PiStep, WorkerStep, SshStep, client, remote, vars

\* The inductive invariant of a session, whatever fails in it.
THEOREM Invariance == Spec => []IInv
<1>1. IInv /\ [Next]_vars => IInv'
  BY ShapesStep, SendsStep, LifeStep, OrderStep, NoGapStep, LastStep DEF IInv
<1> QED BY <1>1, InitInv, PTL DEF Spec

\* The answer to "shutdown" is the last thing the worker does: nothing is in
\* service, on its way or waited for (serve, shutdownWorker).
THEOREM ShutdownComesLast == Spec => []ShutdownDrains
<1>1. IInv => ShutdownDrains
  BY DEF IInv, Last, Drained, Sends, Waiting, ShutdownDrains
<1> QED BY <1>1, Invariance, PTL

-----------------------------------------------------------------------------
(* A session without a fault.                                              *)

LEMMA CalmStep == IInv /\ IInv' /\ Calm /\ [Next]_vars => Calm'
<1> SUFFICES ASSUME IInv, IInv', Calm, [Next]_vars, failed' = {}
             PROVE  Calm'
  BY DEF Calm
<1>f. failed = {}
  BY DEF Next, PiStep, WorkerStep, SshStep, SessionStart, RejectConfiguration, Ready, Abort, Refuse,
         Execute, HandleRpcLine, Close, BeginShutdown, EndShutdown, GraceOver, PiExits, PiDies, Take,
         Respond, EndOfInput, WorkerDies, OrphanEnds, SshEnds, SshBreaks, Verify, outside, vars
<1>c. /\ phase # "dead"
      /\ phase \in {"starting", "running"} =>
           ssh = "none" \/ (child /\ workerUp /\ ssh = "up")
      /\ phase = "stopping" /\ workerUp => ssh = "up" /\ result["shutdown"] = "waiting"
      /\ phase = "stopping" /\ ~workerUp => executing = 0
      /\ phase \in {"closed", "exited"} => ~workerUp /\ executing = 0
  BY <1>f DEF Calm
<1>p. /\ phase \in {"new", "starting", "running", "stopping", "closed", "exited"}
      /\ ssh = "none" => ~child /\ ~workerUp /\ executing = 0
      /\ phase = "new" => ssh = "none"
      /\ signals # {} => phase \in {"closed", "exited"}
      /\ phase = "starting" /\ child => result["ping"] # "failed"
  BY <1>c DEF IInv, Shapes, Life, Over
<1>1. CASE SessionStart \/ RejectConfiguration \/ Ready \/ Abort \/ PiExits \/ GraceOver \/ Verify
  BY <1>1, <1>c, <1>p DEF SessionStart, RejectConfiguration, Ready, Abort, PiExits, GraceOver, Verify,
                          Calm, client, process, remote
<1>2. ASSUME NEW c \in Calls, Refuse(c) \/ Execute(c)
      PROVE  Calm'
  BY <1>2, <1>c, <1>p DEF Refuse, Execute, Calm, process, remote
<1>3. CASE HandleRpcLine
  <2>1. /\ UNCHANGED <<phase, child, ssh, workerUp, executing>>
        /\ result' = [r \in Requests |-> IF Head(fromWorker) \in pending /\ sent[Head(fromWorker)] = r
                                        THEN sent[Head(fromWorker)] ELSE result[r]]
    BY <1>3 DEF HandleRpcLine, Answered, process
  <2>2. workerUp => result'["shutdown"] = result["shutdown"]
    BY <2>1 DEF IInv, Last, Drained, Requests
  <2> QED BY <1>c, <1>p, <2>1, <2>2 DEF Calm
<1>4. CASE Close
  BY <1>4, <1>c, <1>p DEF Close, Calm, process, remote
<1>5. CASE BeginShutdown
  <2>1. CASE child
    <3>1. /\ workerUp /\ ssh = "up" /\ RpcCall("shutdown") /\ phase' = "stopping"
          /\ UNCHANGED <<ssh, workerUp, executing>>
      BY <1>5, <1>c, <1>p, <2>1 DEF BeginShutdown, process
    <3>2. result'["shutdown"] = "waiting"
      BY <2>1, <3>1 DEF RpcCall, IInv, Shapes, Requests
    <3> QED BY <3>1, <3>2 DEF Calm
  <2>2. CASE ~child
    BY <1>5, <1>c, <1>p, <2>2 DEF BeginShutdown, Calm, process
  <2> QED BY <2>1, <2>2
<1>6. CASE EndShutdown
  BY <1>6, <1>c, <1>p DEF EndShutdown, ShutdownSettled, Calm, remote
<1>7. CASE PiDies \/ WorkerDies
  BY <1>7 DEF PiDies, WorkerDies
<1>8. CASE Take \/ EndOfInput \/ OrphanEnds \/ SshEnds \/ SshBreaks
  BY <1>8, <1>c, <1>p DEF Take, EndOfInput, OrphanEnds, SshEnds, SshBreaks, Alive, Calm, client,
                          process
<1>9. CASE Respond
  <2>1. /\ UNCHANGED <<phase, child, result, ssh>> /\ workerUp /\ executing' = 0 /\ executing # 0
    BY <1>9 DEF Respond, client, process
  <2>2. phase \in {"starting", "running", "stopping"} /\ ssh = "up"
    BY <1>c, <1>p, <2>1
  <2>3. workerUp' = ~Stops(executing)
    BY <1>9, <2>2 DEF Respond
  <2>4. phase # "stopping" => ~Stops(executing)
    BY <2>1, <2>2 DEF IInv, Shapes, Life, Over, Stops
  <2> QED BY <1>c, <2>1, <2>2, <2>3, <2>4 DEF Calm
<1>10. CASE UNCHANGED vars
  BY <1>10, <1>c DEF vars, client, process, remote, Calm
<1> QED BY <1>1, <1>2, <1>3, <1>4, <1>5, <1>6, <1>7, <1>8, <1>9, <1>10
    DEF Next, PiStep, WorkerStep, SshStep

LEMMA EndingStep == IInv /\ Ending /\ [Next]_vars => Ending'
BY DEF Ending, Alive, Next, PiStep, WorkerStep, SshStep, SessionStart, RejectConfiguration, Ready, Abort,
       Refuse, Execute, HandleRpcLine, Close, BeginShutdown, EndShutdown, GraceOver, PiExits, PiDies,
       Take, Respond, EndOfInput, WorkerDies, OrphanEnds, SshEnds, SshBreaks, Verify, client, outside,
       vars

\* The workspace that is verified is final unless something failed: the session
\* ends only when the worker has served all it was sent, aborted calls too
\* (shutdownWorker, _run_attempt).
THEOREM VerifiedWorkspaceIsFinal == Spec => []QuietVerification
<1>1. IInv /\ Calm /\ Ending => QuietVerification
  <2> SUFFICES ASSUME IInv, Calm, Ending, verified, failed = {} PROVE NoCallLeft
    BY DEF QuietVerification
  <2>1. phase = "exited"
    BY DEF Ending, Alive, Calm
  <2>2. ~workerUp /\ executing = 0
    BY <2>1 DEF Calm
  <2> QED BY <2>2 DEF NoCallLeft, IInv, Shapes, Ids
<1>2. Init => Calm /\ Ending
  BY InitInv
<1> QED BY <1>1, <1>2, CalmStep, EndingStep, Invariance, PTL DEF Spec

-----------------------------------------------------------------------------
(* Nobody waits for nobody.                                                *)

\* Somebody can move: the client, which has a line to read or the end of ssh;
\* the worker, which has a request; or ssh, whose remote command is over.
CanMove ==
  \/ child /\ (fromWorker # <<>> \/ ssh = "exited")
  \/ workerUp /\ (executing # 0 \/ toWorker # <<>>)
  \/ ssh = "up" /\ ~workerUp

\* While a request waits, in the start or the shutdown too, somebody can move
\* whom the model does not have to ask.
NobodyStuck ==
  Alive => /\ \A r \in Requests : result[r] = "waiting" => CanMove
           /\ phase = "starting" => result["ping"] \in {"waiting", "ping", "failed"}

\* What is still to be done of all that was sent: a request on its way to the
\* worker is taken, answered and read.
Backlog ==
  3 * Len(toWorker) + Len(fromWorker)
    + (IF executing # 0 THEN 2 ELSE 0) + (IF workerUp THEN 1 ELSE 0)
    + (IF ssh = "up" THEN 1 ELSE 0) + (IF child THEN 1 ELSE 0)

\* Each of these moves leaves less to be done, faults included, and only a new
\* request adds to it.
BacklogDescends ==
  [][/\ HandleRpcLine \/ Close \/ WorkerStep \/ SshStep => Backlog' < Backlog
     /\ Backlog' > Backlog => sent' # sent /\ Backlog' <= Backlog + 6]_vars

SentOnce == \A i, j \in Ids : sent[i] = sent[j] => i = j

\* Who waits has a worker, and at the end only the shutdown waits.
WaitInv ==
  /\ Alive => \A r \in Requests : result[r] = "waiting" => child
  /\ phase = "starting" => result["ping"] \in {"waiting", "ping", "failed"}
  /\ Alive /\ phase # "starting" => result["ping"] # "waiting"
  /\ phase = "stopping" => \A r \in Requests : result[r] = "waiting" => r = "shutdown"

LEMMA WaitStep == IInv /\ WaitInv /\ [Next]_vars => WaitInv'
<1> SUFFICES ASSUME IInv, WaitInv, [Next]_vars PROVE WaitInv'
  OBVIOUS
<1> USE DEF WaitInv, Alive
<1>0. /\ result \in [Requests -> Requests \cup Outcomes]
      /\ phase # "failing"
      /\ {"ping", "shutdown"} \subseteq Requests /\ "waiting" \notin Requests
  BY DEF IInv, Shapes, Life, Requests
<1>1. CASE \/ RejectConfiguration \/ Ready \/ GraceOver \/ PiExits \/ PiDies \/ Verify
           \/ WorkerStep \/ SshStep \/ UNCHANGED vars
  <2>1. /\ UNCHANGED <<child, result>>
        /\ \/ phase' = phase \/ phase' \in {"dead", "exited"}
           \/ phase = "new" /\ phase' = "running"
           \/ phase = "starting" /\ phase' = "running" /\ result["ping"] = "ping"
    BY <1>1 DEF RejectConfiguration, Ready, GraceOver, PiExits, PiDies, Verify, WorkerStep,
       Take, Respond, EndOfInput, WorkerDies, OrphanEnds, SshStep, SshEnds, SshBreaks,
       vars, client
  <2> QED BY <1>0, <2>1
<1>2. CASE SessionStart
  BY <1>0, <1>2 DEF SessionStart, IInv, Life
<1>3. CASE Abort \/ Close
  <2>1. \A r \in Requests : result'[r] # "waiting"
    BY <1>0, <1>3 DEF Abort, Close, RejectAllPending, IInv, Sends
  <2>2. phase' = phase /\ (Abort => phase = "running")
    BY <1>3 DEF Abort, Close
  <2>3. phase = "starting" => result'["ping"] \in {result["ping"], "failed"}
    BY <1>0, <1>3, <2>2 DEF Close, RejectAllPending
  <2> QED BY <1>0, <2>1, <2>2, <2>3
<1>4. ASSUME NEW c \in Calls, Refuse(c) \/ Execute(c) PROVE WaitInv'
  <2>1. /\ UNCHANGED <<phase, child>> /\ phase = "running"
        /\ c \in Requests /\ c # "ping"
        /\ \/ result' = [result EXCEPT ![c] = "limit"]
           \/ result' = [result EXCEPT ![c] = "aborted"]
           \/ result' = [result EXCEPT ![c] = "failed"]
           \/ child /\ result' = [result EXCEPT ![c] = "waiting"]
    BY <1>4 DEF Refuse, Execute, RpcCall, Requests
  <2> QED BY <1>0, <2>1
<1>5. CASE HandleRpcLine
  <2>1. /\ UNCHANGED <<phase, child>>
        /\ \A r \in Requests : \/ result'[r] = result[r]
                               \/ result'[r] = r
    <3>1. Head(fromWorker) \in Ids
      BY <1>5, TailNat DEF HandleRpcLine, IInv, Shapes
    <3> QED BY <1>0, <1>5, <3>1 DEF HandleRpcLine, Answered
  <2> QED BY <1>0, <2>1
<1>6. CASE BeginShutdown
  <2>1. /\ UNCHANGED child
        /\ \/ phase = "starting" /\ ~child /\ phase' = "running" /\ result["ping"] = "failed"
           \/ phase = "running" /\ child /\ phase' = "stopping"
           \/ phase = "running" /\ ~child /\ phase' = "closed"
        /\ ~child => result' = result
        /\ child => \/ result' = [result EXCEPT !["shutdown"] = "waiting"]
                    \/ result' = [result EXCEPT !["shutdown"] = "failed"]
    BY <1>6 DEF BeginShutdown, RpcCall, IInv, Life
  <2>2. phase = "running" => \A c \in Calls : result[c] # "waiting"
    BY <1>6 DEF BeginShutdown
  <2> QED BY <1>0, <2>1, <2>2 DEF Requests
<1>7. CASE EndShutdown
  BY <1>0, <1>7 DEF EndShutdown, ShutdownSettled
<1> QED BY <1>1, <1>2, <1>3, <1>4, <1>5, <1>6, <1>7 DEF Next, PiStep

LEMMA SomebodyMoves == IInv /\ WaitInv => NobodyStuck
<1> SUFFICES ASSUME IInv, WaitInv, Alive, NEW r \in Requests, result[r] = "waiting"
             PROVE  CanMove
  BY DEF WaitInv, NobodyStuck
<1>1. child
  BY DEF WaitInv
<1>2. PICK id \in pending : sent[id] = r
  BY DEF IInv, Sends, Waiting
<1>3. ssh \in {"up", "exited"}
  BY <1>1 DEF IInv, Shapes, Life
<1>4. CASE ssh = "up" /\ workerUp
  <2>1. id = executing \/ On(toWorker, id) \/ On(fromWorker, id)
    BY <1>2, <1>4 DEF IInv, NoGap
  <2>2. id # 0
    BY <1>2 DEF IInv, Shapes, Ids
  <2> QED BY <1>1, <1>4, <2>1, <2>2, EmptySeq DEF CanMove, On
<1> QED BY <1>1, <1>3, <1>4 DEF CanMove

LEMMA Lengths ==
  ASSUME NEW q \in Seq(Nat)
  PROVE  /\ Len(q) \in Nat /\ Len(<<>>) = 0
         /\ \A n \in Nat : Len(Append(q, n)) = Len(q) + 1
         /\ q # <<>> => Len(q) > 0 /\ Len(Tail(q)) = Len(q) - 1
         /\ \A p \in Prefixes(q) : Len(p) \in Nat /\ Len(p) <= Len(q)
<1>1. ASSUME NEW p \in Prefixes(q) PROVE Len(p) \in Nat /\ Len(p) <= Len(q)
  <2>1. PICK n \in 0 .. Len(q) : p = SubSeq(q, 1, n)
    BY DEF Prefixes
  <2>2. Len(p) = n
    BY <2>1
  <2> QED BY <2>1, <2>2
<1> QED BY <1>1

LEMMA BacklogStep ==
  ASSUME IInv, [Next]_vars
  PROVE  /\ HandleRpcLine \/ Close \/ WorkerStep \/ SshStep => Backlog' < Backlog
         /\ Backlog' > Backlog => sent' # sent /\ Backlog' <= Backlog + 6
<1>0. toWorker \in Seq(Nat) /\ fromWorker \in Seq(Nat)
  BY DEF IInv, Shapes
<1>1. Len(toWorker) \in Nat /\ Len(fromWorker) \in Nat
  BY <1>0, Lengths
<1>2. CASE /\ UNCHANGED <<toWorker, fromWorker, executing, workerUp, ssh>>
           /\ child' = child \/ ~child'
  <2>1. Backlog' <= Backlog /\ (child /\ ~child' => Backlog' < Backlog)
    BY <1>1, <1>2 DEF Backlog
  <2>2. Close => child /\ ~child'
    BY DEF Close
  <2>3. ~HandleRpcLine /\ ~WorkerStep /\ ~SshStep
    <3>1. \A q \in Seq(Nat) : q # <<>> => Tail(q) # q
      BY Lengths
    <3>2. ~HandleRpcLine /\ ~Take
      BY <1>0, <1>2, <3>1 DEF HandleRpcLine, Take
    <3>3. ~(Respond \/ EndOfInput \/ WorkerDies \/ OrphanEnds \/ SshStep)
      BY <1>2 DEF Respond, EndOfInput, WorkerDies, OrphanEnds, SshStep, SshEnds, SshBreaks
    <3> QED BY <3>2, <3>3 DEF WorkerStep
  <2> QED BY <1>1, <2>1, <2>2, <2>3 DEF Backlog
<1>3. CASE HandleRpcLine
  <2>1. /\ UNCHANGED <<toWorker, executing, workerUp, ssh, child>>
        /\ Len(fromWorker') = Len(fromWorker) - 1
    BY <1>0, <1>3, Lengths DEF HandleRpcLine, process
  <2>2. Backlog' < Backlog
    BY <1>1, <2>1 DEF Backlog
  <2> QED BY <1>1, <2>1, <2>2 DEF Backlog
<1>4. CASE WorkerStep \/ SshStep
  <2>1. UNCHANGED child
    BY <1>4 DEF WorkerStep, Take, Respond, EndOfInput, WorkerDies, OrphanEnds, SshStep,
       SshEnds, SshBreaks, client
  <2>2. ASSUME Take PROVE Backlog' < Backlog
    <3>1. /\ UNCHANGED <<fromWorker, workerUp, ssh>> /\ executing = 0
          /\ Len(toWorker') = Len(toWorker) - 1
      BY <1>0, <2>2, Lengths DEF Take, process
    <3> QED BY <1>1, <2>1, <3>1 DEF Backlog
  <2>3. ASSUME Respond PROVE Backlog' < Backlog
    <3>1. /\ UNCHANGED <<toWorker, ssh>> /\ workerUp /\ executing # 0 /\ executing' = 0
          /\ \/ Len(fromWorker') = Len(fromWorker) + 1
             \/ Len(fromWorker') = Len(fromWorker)
      <4>1. executing \in Nat
        BY DEF IInv, Shapes, Ids
      <4> QED BY <1>0, <2>3, <4>1, Lengths DEF Respond, process
    <3> QED BY <1>1, <2>1, <3>1 DEF Backlog
  <2>4. ASSUME EndOfInput \/ OrphanEnds PROVE Backlog' < Backlog
    BY <1>1, <2>1, <2>4 DEF EndOfInput, OrphanEnds, process, Backlog
  <2>5. ASSUME WorkerDies PROVE Backlog' < Backlog
    <3>1. fromWorker' = fromWorker /\ Len(toWorker') = 0
      BY <1>0, <2>5, Lengths DEF WorkerDies
    <3>2. UNCHANGED <<executing, ssh>> /\ workerUp = TRUE /\ workerUp' = FALSE
      BY <2>5 DEF WorkerDies, process, IInv, Shapes
    <3>3. /\ 3 * Len(toWorker') + Len(fromWorker') <= 3 * Len(toWorker) + Len(fromWorker)
          /\ 3 * Len(toWorker') + Len(fromWorker') \in Nat
          /\ 3 * Len(toWorker) + Len(fromWorker) \in Nat
      BY <1>1, <3>1
    <3> QED BY <2>1, <3>2, <3>3 DEF Backlog
  <2>6. ASSUME SshStep PROVE Backlog' < Backlog
    <3>1. /\ UNCHANGED <<executing, workerUp>> /\ ssh = "up" /\ ssh' = "exited"
          /\ Len(toWorker') \in Nat /\ Len(toWorker') <= Len(toWorker)
          /\ Len(fromWorker') \in Nat /\ Len(fromWorker') <= Len(fromWorker)
      BY <1>0, <1>1, <2>6, Lengths DEF SshStep, SshEnds, SshBreaks
    <3>2. 3 * Len(toWorker') + Len(fromWorker') <= 3 * Len(toWorker) + Len(fromWorker)
      BY <1>1, <3>1
    <3>3. /\ 3 * Len(toWorker') + Len(fromWorker') \in Nat
          /\ 3 * Len(toWorker) + Len(fromWorker) \in Nat
      BY <1>1, <3>1
    <3> QED BY <2>1, <3>1, <3>2, <3>3 DEF Backlog
  <2>7. Backlog' < Backlog
    BY <1>4, <2>2, <2>3, <2>4, <2>5, <2>6 DEF WorkerStep
  <2>8. ~(Backlog' > Backlog)
    <3>1. Backlog \in Int
      BY <1>1 DEF Backlog
    <3>2. Backlog' \in Int
      BY <1>0, <1>1, <2>7, ShapesStep, Lengths DEF Backlog, IInv, Shapes
    <3> QED BY <2>7, <3>1, <3>2
  <2> QED BY <2>7, <2>8
<1>5. CASE /\ UNCHANGED <<fromWorker, executing, workerUp, ssh, child>>
           /\ toWorker' = Append(toWorker, Len(sent) + 1)
           /\ sent' # sent
  <2>1. Len(sent) + 1 \in Nat
    BY DEF IInv, Shapes
  <2>2. Len(toWorker') = Len(toWorker) + 1
    BY <1>0, <1>5, <2>1, Lengths
  <2>3. Backlog' = Backlog + 3 /\ Backlog \in Int
    BY <1>1, <1>5, <2>2 DEF Backlog
  <2>4. ~HandleRpcLine /\ ~Close /\ ~WorkerStep /\ ~SshStep
    BY <1>5 DEF HandleRpcLine, Close, WorkerStep, Take, Respond, EndOfInput, WorkerDies,
       OrphanEnds, SshStep, SshEnds, SshBreaks, client
  <2> QED BY <1>5, <2>3, <2>4
<1>6. CASE SessionStart
  <2>1. /\ UNCHANGED <<fromWorker, executing>> /\ sent = <<>> /\ sent' = <<"ping">>
        /\ Len(toWorker') = 1 /\ Len(toWorker) = 0 /\ Len(fromWorker) = 0 /\ executing = 0
        /\ ~workerUp /\ ssh = "none" /\ ~child
    BY <1>6, EmptySeq DEF SessionStart, IInv, Life
  <2>2. Backlog' <= Backlog + 6 /\ sent' # sent
    BY <1>6, <2>1 DEF SessionStart, Backlog
  <2>3. ~HandleRpcLine /\ ~Close /\ ~WorkerStep /\ ~SshStep
    BY <2>1 DEF HandleRpcLine, Close, WorkerStep, Take, Respond, EndOfInput, WorkerDies,
       OrphanEnds, SshStep, SshEnds, SshBreaks, client
  <2> QED BY <2>2, <2>3
<1>7. ASSUME NEW r, RpcCall(r), UNCHANGED <<fromWorker, executing, workerUp, ssh, child>>
      PROVE  \/ toWorker' = toWorker
             \/ toWorker' = Append(toWorker, Len(sent) + 1) /\ sent' # sent
  BY <1>7 DEF RpcCall, IInv, Shapes
<1>8. CASE \E c \in Calls : Execute(c)
  <2>1. PICK c \in Calls : Execute(c)
    BY <1>8
  <2>2. UNCHANGED <<fromWorker, executing, workerUp, ssh, child>>
    BY <2>1 DEF Execute, process
  <2>3. RpcCall(c) \/ toWorker' = toWorker
    BY <2>1 DEF Execute
  <2> QED BY <1>2, <1>5, <1>7, <2>2, <2>3
<1>9. CASE BeginShutdown
  <2>1. UNCHANGED <<fromWorker, executing, workerUp, ssh, child>>
    BY <1>9 DEF BeginShutdown, process
  <2>2. RpcCall("shutdown") \/ toWorker' = toWorker
    BY <1>9 DEF BeginShutdown
  <2> QED BY <1>2, <1>5, <1>7, <2>1, <2>2
<1>10. CASE \/ RejectConfiguration \/ Ready \/ Abort \/ GraceOver \/ PiExits \/ PiDies
            \/ Verify \/ Close \/ EndShutdown \/ UNCHANGED vars
            \/ \E c \in Calls : Refuse(c)
  <2>1. /\ UNCHANGED <<toWorker, fromWorker, executing, workerUp, ssh>>
        /\ child' = child \/ ~child'
    BY <1>10 DEF RejectConfiguration, Ready, Abort, GraceOver, PiExits, PiDies, Verify, Close,
       EndShutdown, Refuse, client, process, remote, vars
  <2> QED BY <1>2, <2>1
<1> QED BY <1>3, <1>4, <1>6, <1>8, <1>9, <1>10 DEF Next, PiStep

\* While a request waits somebody moves who owes it, and the moves of the worker,
\* of ssh and of the client that reads them are bounded by what was sent: no
\* request is left waiting in a circle (rpcCall, serve, rejectAllPending).
THEOREM NobodyWaitsForNobody == Spec => [](NobodyStuck /\ SentOnce) /\ BacklogDescends
<1>1. Init => WaitInv
  BY DEF Init, WaitInv, Requests
<1>2. IInv /\ [Next]_vars =>
        [/\ HandleRpcLine \/ Close \/ WorkerStep \/ SshStep => Backlog' < Backlog
         /\ Backlog' > Backlog => sent' # sent /\ Backlog' <= Backlog + 6]_vars
  BY BacklogStep
<1>3. IInv => SentOnce
  BY DEF IInv, Sends, SentOnce
<1> QED BY <1>1, <1>2, <1>3, WaitStep, SomebodyMoves, Invariance, PTL DEF Spec, BacklogDescends
=============================================================================
