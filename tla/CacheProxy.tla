----------------------------- MODULE CacheProxy -----------------------------
(***************************************************************************)
(* The proxy of one cell (cache_proxy.py) between Pi and the model server, *)
(* and the two places of the run that rely on it: the proxy is stopped     *)
(* when the attempt is over (_stop_cell_proxy), and at the end of the run  *)
(* its receipts are read as evidence that the server reused no prefix      *)
(* (_collect_proxy_receipts).                                              *)
(*                                                                         *)
(* Every request is served by a thread of its own. Pi sends one request at *)
(* a time, but may give one up and send the next, while the thread of the  *)
(* first still drains the answer. Threads are daemons: the end of the      *)
(* process ends them wherever they are.                                    *)
(***************************************************************************)
EXTENDS Naturals, Sequences

CONSTANTS
  MaxSent,       \* bound: requests Pi sends
  MaxRequests    \* --max-requests

ASSUME ProxyAssumption == MaxSent \in Nat /\ MaxRequests \in Nat \ {0}

Requests == 1 .. MaxSent

\* What the server says in a complete answer: timings without reuse and status
\* 200, timings that show a reused prefix, or anything else that makes the
\* mechanics invalid (another status, no timings, more than is captured).
Answers == {"clean", "reused", "unusable"}

VARIABLES
  nextIndex,  \* _next_index of the recorder
  receipts,   \* the receipt file, in the order of the lines
  proxy,      \* the process: "up", "stopped" by the run, or "dead"
  thread,     \* where the thread of each request is
  index,      \* the provider_turn it reserved, 0 before
  answer,     \* the answer it has read to the end, or "none"
  flawed,     \* its invalidation codes hold more than the mechanics' own
  client,     \* Pi's side of the request: it is unsent, open, ended or gone
  unwritten,  \* history: requests whose receipt could not be written
  evidence    \* what became of the receipts: "none", "accepted" or "refused"

requestVars == <<thread, index, answer, flawed, client>>
vars == <<nextIndex, receipts, proxy, requestVars, unwritten, evidence>>

Init ==
  /\ nextIndex = 1 /\ receipts = <<>>
  /\ proxy = "up"
  /\ thread = [r \in Requests |-> "none"]
  /\ index = [r \in Requests |-> 0]
  /\ answer = [r \in Requests |-> "none"]
  /\ flawed = [r \in Requests |-> FALSE]
  /\ client = [r \in Requests |-> "unsent"]
  /\ unwritten = {}
  /\ evidence = "none"

-----------------------------------------------------------------------------
(* Pi.                                                                      *)

\* Pi is done with the request before.
Send(r) ==
  /\ proxy = "up" /\ client[r] = "unsent"
  /\ \A q \in Requests : q < r => client[q] \in {"ended", "gone"}
  /\ client' = [client EXCEPT ![r] = "open"]
  /\ thread' = [thread EXCEPT ![r] = "received"]
  /\ UNCHANGED <<nextIndex, receipts, proxy, index, answer, flawed, unwritten,
                 evidence>>

\* Pi aborts the request, or is killed.
Disconnect(r) ==
  /\ client[r] = "open"
  /\ client' = [client EXCEPT ![r] = "gone"]
  /\ UNCHANGED <<nextIndex, receipts, proxy, thread, index, answer, flawed,
                 unwritten, evidence>>

-----------------------------------------------------------------------------
(* The thread of a request (do_POST).                                       *)

Thread(r, from, to) == thread[r] = from /\ thread' = [thread EXCEPT ![r] = to]

\* A GET, another path, a bad length, a body that is no JSON object, or one that
\* has a field of the proxy: no turn is reserved and no receipt is written.
Reject(r) ==
  /\ Thread(r, "received", "closing")
  /\ UNCHANGED <<nextIndex, receipts, proxy, index, answer, flawed, client,
                 unwritten, evidence>>

\* reserve: beyond max_requests the request is rejected.
Reserve(r) ==
  /\ IF nextIndex > MaxRequests
     THEN Thread(r, "received", "closing") /\ UNCHANGED <<nextIndex, index>>
     ELSE /\ Thread(r, "received", "forwarding")
          /\ index' = [index EXCEPT ![r] = nextIndex]
          /\ nextIndex' = nextIndex + 1
  /\ UNCHANGED <<receipts, proxy, answer, flawed, client, unwritten, evidence>>

\* A write to a client that is gone may fail, or may still fit its socket.
Noticed(r) == {FALSE} \cup {client[r] = "gone"}

\* The head of the answer is passed on. When that fails the answer is not read.
StartResponse(r) ==
  \E broken \in Noticed(r) :
    /\ Thread(r, "forwarding", IF broken THEN "recording" ELSE "streaming")
    /\ flawed' = [flawed EXCEPT ![r] = broken]
    /\ UNCHANGED <<nextIndex, receipts, proxy, index, answer, client, unwritten,
                   evidence>>

\* Mutant: the end of the answer ends the connection, before the receipt.
Mutant_FinishResponse(r) ==
  \E broken \in Noticed(r), content \in Answers :
    /\ Thread(r, "streaming", "recording")
    /\ answer' = [answer EXCEPT ![r] = content]
    /\ flawed' = [flawed EXCEPT ![r] = broken]
    /\ client' = IF client[r] = "open" THEN [client EXCEPT ![r] = "ended"]
                                       ELSE client
    /\ UNCHANGED <<nextIndex, receipts, proxy, index, unwritten, evidence>>

\* The answer is passed on chunk by chunk, and read to its end even when the
\* client is gone.
FinishResponse(r) ==
  \E broken \in Noticed(r), content \in Answers :
    /\ Thread(r, "streaming", "recording")
    /\ answer' = [answer EXCEPT ![r] = content]
    /\ flawed' = [flawed EXCEPT ![r] = broken]
    /\ UNCHANGED <<nextIndex, receipts, proxy, index, client, unwritten,
                   evidence>>

\* The server cannot be reached, times out or breaks off.
UpstreamFails(r) ==
  /\ \/ Thread(r, "forwarding", "recording")
     \/ Thread(r, "streaming", "recording")
  /\ flawed' = [flawed EXCEPT ![r] = TRUE]
  /\ UNCHANGED <<nextIndex, receipts, proxy, index, answer, client, unwritten,
                 evidence>>

Receipt(r) == [request |-> r, turn |-> index[r],
               valid |-> answer[r] = "clean" /\ ~flawed[r]]

\* One line, under the lock of the recorder.
AppendReceipt(r) ==
  /\ Thread(r, "recording", "closing")
  /\ receipts' = Append(receipts, Receipt(r))
  /\ UNCHANGED <<nextIndex, proxy, index, answer, flawed, client, unwritten,
                 evidence>>

\* The line cannot be written: the exception ends the thread, and the server
\* closes the connection like that of any other request.
AppendFails(r) ==
  /\ Thread(r, "recording", "closing")
  /\ unwritten' = unwritten \cup {r}
  /\ UNCHANGED <<nextIndex, receipts, proxy, index, answer, flawed, client,
                 evidence>>

\* Answers have no length: the client sees their end when the connection ends.
CloseConnection(r) ==
  /\ Thread(r, "closing", "ended")
  /\ client' = IF client[r] = "open" THEN [client EXCEPT ![r] = "ended"]
                                     ELSE client
  /\ UNCHANGED <<nextIndex, receipts, proxy, index, answer, flawed, unwritten,
                 evidence>>

-----------------------------------------------------------------------------
(* The process, and the run that owns it.                                   *)

Killed == [r \in Requests |-> IF thread[r] = "none" THEN "none" ELSE "ended"]

\* _stop_cell_proxy, after the attempt: Pi has ended, threads may be at work.
StopProxy ==
  /\ proxy = "up" /\ \A r \in Requests : client[r] # "open"
  /\ proxy' = "stopped"
  /\ thread' = Killed
  /\ UNCHANGED <<nextIndex, receipts, index, answer, flawed, client, unwritten,
                 evidence>>

\* The process dies. A client that has the whole answer sees its regular end.
ProxyDies ==
  /\ proxy = "up"
  /\ proxy' = "dead"
  /\ thread' = Killed
  /\ client' = [r \in Requests |->
                  IF client[r] # "open" THEN client[r]
                  ELSE IF answer[r] = "none" THEN "gone" ELSE "ended"]
  /\ UNCHANGED <<nextIndex, receipts, index, answer, flawed, unwritten, evidence>>

\* Mutant: only the receipt that represents the cell is looked at.
Mutant_Sound == receipts # <<>> /\ receipts[Len(receipts)].valid

Sound == receipts # <<>> /\ \A i \in DOMAIN receipts : receipts[i].valid

\* _collect_proxy_receipts, when all cells are done.
CollectReceipts ==
  /\ proxy # "up" /\ evidence = "none"
  /\ evidence' = IF Sound THEN "accepted" ELSE "refused"
  /\ UNCHANGED <<nextIndex, receipts, proxy, requestVars, unwritten>>

Next ==
  \/ \E r \in Requests :
       \/ Send(r) \/ Disconnect(r)
       \/ Reject(r) \/ Reserve(r) \/ StartResponse(r) \/ FinishResponse(r)
       \/ UpstreamFails(r) \/ AppendReceipt(r) \/ AppendFails(r)
       \/ CloseConnection(r)
  \/ StopProxy \/ ProxyDies \/ CollectReceipts

Spec == Init /\ [][Next]_vars

-----------------------------------------------------------------------------
(* Properties.                                                              *)

Receipts == [request : Requests, turn : 1 .. MaxRequests, valid : BOOLEAN]

TypeOK ==
  /\ nextIndex \in 1 .. MaxRequests + 1
  /\ receipts \in Seq(Receipts)
  /\ proxy \in {"up", "stopped", "dead"}
  /\ thread \in [Requests -> {"none", "received", "forwarding", "streaming",
                              "recording", "closing", "ended"}]
  /\ index \in [Requests -> 0 .. MaxRequests]
  /\ answer \in [Requests -> Answers \cup {"none"}]
  /\ flawed \in [Requests -> BOOLEAN]
  /\ client \in [Requests -> {"unsent", "open", "ended", "gone"}]
  /\ unwritten \subseteq Requests
  /\ evidence \in {"none", "accepted", "refused"}

\* Pi got the whole answer and waited for its end.
Served(r) == client[r] = "ended" /\ answer[r] # "none"

\* An answer that Pi saw to its end has its receipt in the file by then,
\* whatever other threads do and whenever the run stops the proxy: stopping it
\* after the attempt loses no receipt of a turn (do_POST, _stop_cell_proxy).
ServedHasReceipt ==
  \A r \in Requests :
    Served(r) /\ r \notin unwritten /\ proxy # "dead"
      => \E i \in DOMAIN receipts : receipts[i].request = r

\* Receipts accepted as evidence mean that no answer Pi saw came from a reused
\* prefix or lacked its mechanics, but for a receipt that could not be written
\* or a proxy that died (_collect_proxy_receipts).
AcceptedMeansClean ==
  evidence = "accepted" /\ unwritten = {} /\ proxy = "stopped"
    => \A r \in Requests : Served(r) => answer[r] = "clean"

\* No two requests are recorded as the same provider turn, and no more are
\* forwarded than the limit allows (CacheProxyRecorder.reserve).
TurnsDistinct ==
  \A i, j \in DOMAIN receipts :
    receipts[i].turn = receipts[j].turn => i = j
=============================================================================
