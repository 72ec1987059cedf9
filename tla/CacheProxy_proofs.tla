-------------------------- MODULE CacheProxy_proofs --------------------------
(***************************************************************************)
(* Proofs about CacheProxy, for any number of requests and any limit. The  *)
(* invariant follows one request through its thread: what it has reserved, *)
(* read and recorded at each place, and what its client can have seen.     *)
(***************************************************************************)
EXTENDS CacheProxy, TLAPS

\* What a thread has at each place. A client sees no end before its thread ends.
ThreadInv ==
  \A r \in Requests :
    /\ thread[r] \in {"none", "received"} => index[r] = 0
    /\ thread[r] \in {"forwarding", "streaming", "recording"} => index[r] > 0
    /\ thread[r] \in {"none", "received", "forwarding", "streaming"}
         => answer[r] = "none"
    /\ client[r] = "ended" => thread[r] = "ended"
    /\ client[r] = "unsent" => thread[r] = "none"

\* Every turn was reserved by one request.
IndexInv ==
  /\ \A r \in Requests : index[r] < nextIndex
  /\ \A q, r \in Requests : index[q] = index[r] /\ index[r] > 0 => q = r

\* A line of the file is the receipt of a request past its recording.
ReceiptInv ==
  /\ \A i \in DOMAIN receipts :
       /\ receipts[i] = Receipt(receipts[i].request)
       /\ index[receipts[i].request] > 0
       /\ thread[receipts[i].request] \in {"closing", "ended"}
  /\ \A i, j \in DOMAIN receipts :
       receipts[i].request = receipts[j].request => i = j

Recorded(r) == r \in unwritten \/ \E i \in DOMAIN receipts : receipts[i].request = r

\* Between its recording and its end a thread has tried to write its receipt.
RecordedInv ==
  \A r \in Requests :
    /\ answer[r] # "none"
    /\ \/ thread[r] = "closing"
       \/ client[r] = "ended" /\ proxy # "dead"
    => Recorded(r)

\* Nothing is written once the process is gone.
EndInv ==
  /\ proxy # "up" => \A r \in Requests : thread[r] \in {"none", "ended"}
  /\ evidence # "none" => proxy # "up"
  /\ evidence = "accepted" => Sound

IInv == TypeOK /\ ThreadInv /\ IndexInv /\ ReceiptInv /\ RecordedInv /\ EndInv

USE ProxyAssumption DEF Requests, Answers

-----------------------------------------------------------------------------

\* Whether a write fails is a truth value.
LEMMA NoticedType == \A r : Noticed(r) \subseteq BOOLEAN
BY DEF Noticed

\* What an append does, position by position.
LEMMA Appended ==
  ASSUME NEW S, NEW s \in Seq(S), NEW e \in S
  PROVE  /\ Append(s, e) \in Seq(S)
         /\ DOMAIN Append(s, e) = DOMAIN s \cup {Len(s) + 1}
         /\ Len(s) + 1 \notin DOMAIN s
         /\ \A i \in DOMAIN s : Append(s, e)[i] = s[i]
         /\ Append(s, e)[Len(s) + 1] = e
OBVIOUS

\* Every line names a request.
LEMMA RequestsOf ==
  ASSUME TypeOK
  PROVE  \A i \in DOMAIN receipts : receipts[i].request \in Requests
<1>1. \A i \in DOMAIN receipts : receipts[i] \in Receipts
  BY DEF TypeOK
<1> QED
  BY <1>1 DEF Receipts

\* A receipt that is due has its type: the thread has reserved a turn.
LEMMA ReceiptType ==
  ASSUME TypeOK, ThreadInv, NEW r \in Requests, thread[r] = "recording"
  PROVE  Receipt(r) \in Receipts
BY DEF TypeOK, ThreadInv, Receipt, Receipts

LEMMA AppendedReceipt ==
  ASSUME TypeOK, ThreadInv, NEW r \in Requests, AppendReceipt(r)
  PROVE  /\ receipts' \in Seq(Receipts)
         /\ DOMAIN receipts' = DOMAIN receipts \cup {Len(receipts) + 1}
         /\ Len(receipts) + 1 \notin DOMAIN receipts
         /\ \A i \in DOMAIN receipts : receipts'[i] = receipts[i]
         /\ receipts'[Len(receipts) + 1] = Receipt(r)
<1>1. Receipt(r) \in Receipts
  BY ReceiptType DEF AppendReceipt, Thread
<1>2. receipts \in Seq(Receipts) /\ receipts' = Append(receipts, Receipt(r))
  BY DEF TypeOK, AppendReceipt
<1> QED
  BY <1>1, <1>2, Appended

\* Types are preserved by every step.
LEMMA TypeStep ==
  ASSUME TypeOK, ThreadInv, [Next]_vars
  PROVE  TypeOK'
<1> USE DEF TypeOK, Thread
<1>1. ASSUME NEW r \in Requests, Send(r) PROVE TypeOK'
  BY <1>1 DEF Send
<1>2. ASSUME NEW r \in Requests, Disconnect(r) PROVE TypeOK'
  BY <1>2 DEF Disconnect
<1>3. ASSUME NEW r \in Requests, Reject(r) PROVE TypeOK'
  BY <1>3 DEF Reject
<1>4. ASSUME NEW r \in Requests, Reserve(r) PROVE TypeOK'
  <2>1. CASE nextIndex > MaxRequests
    BY <1>4, <2>1 DEF Reserve
  <2>2. CASE ~(nextIndex > MaxRequests)
    <3>1. /\ nextIndex \in 1 .. MaxRequests
          /\ nextIndex' = nextIndex + 1
          /\ index' = [index EXCEPT ![r] = nextIndex]
          /\ thread[r] = "received"
          /\ thread' = [thread EXCEPT ![r] = "forwarding"]
          /\ UNCHANGED <<receipts, proxy, answer, flawed, client, unwritten,
                         evidence>>
      BY <1>4, <2>2 DEF Reserve
    <3> QED
      BY <3>1
  <2> QED
    BY <2>1, <2>2
<1>5. ASSUME NEW r \in Requests, StartResponse(r) PROVE TypeOK'
  <2>1. PICK broken \in BOOLEAN :
          /\ thread' = [thread EXCEPT ![r] = IF broken THEN "recording" ELSE "streaming"]
          /\ flawed' = [flawed EXCEPT ![r] = broken]
    BY <1>5, NoticedType DEF StartResponse
  <2> QED
    BY <1>5, <2>1 DEF StartResponse
<1>6. ASSUME NEW r \in Requests, FinishResponse(r) PROVE TypeOK'
  <2>1. PICK broken \in BOOLEAN : flawed' = [flawed EXCEPT ![r] = broken]
    BY <1>6, NoticedType DEF FinishResponse
  <2> QED
    BY <1>6, <2>1 DEF FinishResponse
<1>7. ASSUME NEW r \in Requests, UpstreamFails(r) PROVE TypeOK'
  BY <1>7 DEF UpstreamFails
<1>8. ASSUME NEW r \in Requests, AppendReceipt(r) PROVE TypeOK'
  <2>1. receipts' \in Seq(Receipts)
    BY <1>8, AppendedReceipt
  <2> QED
    BY <1>8, <2>1 DEF AppendReceipt
<1>9. ASSUME NEW r \in Requests, AppendFails(r) PROVE TypeOK'
  BY <1>9 DEF AppendFails
<1>10. ASSUME NEW r \in Requests, CloseConnection(r) PROVE TypeOK'
  BY <1>10 DEF CloseConnection
<1>11. CASE StopProxy
  BY <1>11 DEF StopProxy, Killed
<1>12. CASE ProxyDies
  BY <1>12 DEF ProxyDies, Killed
<1>13. CASE CollectReceipts
  BY <1>13 DEF CollectReceipts, requestVars
<1>14. CASE UNCHANGED vars
  BY <1>14 DEF vars, requestVars
<1> QED
  BY <1>1, <1>2, <1>3, <1>4, <1>5, <1>6, <1>7, <1>8, <1>9, <1>10, <1>11, <1>12,
     <1>13, <1>14 DEF Next

\* The place of a thread, and the turns.
LEMMA ThreadStep ==
  ASSUME TypeOK, ThreadInv, IndexInv, [Next]_vars
  PROVE  ThreadInv' /\ IndexInv'
<1> USE DEF TypeOK, ThreadInv, IndexInv, Thread
<1>1. ASSUME NEW r \in Requests, Send(r) PROVE ThreadInv' /\ IndexInv'
  BY <1>1 DEF Send
<1>2. ASSUME NEW r \in Requests, Disconnect(r) PROVE ThreadInv' /\ IndexInv'
  BY <1>2 DEF Disconnect
<1>3. ASSUME NEW r \in Requests, Reject(r) PROVE ThreadInv' /\ IndexInv'
  BY <1>3 DEF Reject
<1>4. ASSUME NEW r \in Requests, Reserve(r) PROVE ThreadInv' /\ IndexInv'
  <2>1. CASE nextIndex > MaxRequests
    BY <1>4, <2>1 DEF Reserve
  <2>2. CASE ~(nextIndex > MaxRequests)
    <3>1. /\ nextIndex \in 1 .. MaxRequests
          /\ nextIndex' = nextIndex + 1
          /\ index' = [index EXCEPT ![r] = nextIndex]
          /\ thread[r] = "received"
          /\ thread' = [thread EXCEPT ![r] = "forwarding"]
          /\ UNCHANGED <<receipts, proxy, answer, flawed, client, unwritten,
                         evidence>>
      BY <1>4, <2>2 DEF Reserve
    <3> QED
      BY <3>1
  <2> QED
    BY <2>1, <2>2
<1>5. ASSUME NEW r \in Requests, StartResponse(r) PROVE ThreadInv' /\ IndexInv'
  BY <1>5 DEF StartResponse
<1>6. ASSUME NEW r \in Requests, FinishResponse(r) PROVE ThreadInv' /\ IndexInv'
  BY <1>6 DEF FinishResponse
<1>7. ASSUME NEW r \in Requests, UpstreamFails(r) PROVE ThreadInv' /\ IndexInv'
  BY <1>7 DEF UpstreamFails
<1>8. ASSUME NEW r \in Requests, AppendReceipt(r) PROVE ThreadInv' /\ IndexInv'
  BY <1>8 DEF AppendReceipt
<1>9. ASSUME NEW r \in Requests, AppendFails(r) PROVE ThreadInv' /\ IndexInv'
  BY <1>9 DEF AppendFails
<1>10. ASSUME NEW r \in Requests, CloseConnection(r) PROVE ThreadInv' /\ IndexInv'
  BY <1>10 DEF CloseConnection
<1>11. CASE StopProxy
  BY <1>11 DEF StopProxy, Killed
<1>12. CASE ProxyDies
  BY <1>12 DEF ProxyDies, Killed
<1>13. CASE CollectReceipts
  BY <1>13 DEF CollectReceipts, requestVars
<1>14. CASE UNCHANGED vars
  BY <1>14 DEF vars, requestVars
<1> QED
  BY <1>1, <1>2, <1>3, <1>4, <1>5, <1>6, <1>7, <1>8, <1>9, <1>10, <1>11, <1>12,
     <1>13, <1>14 DEF Next

\* Lines of the file stay what they are: a receipt depends on fields that no
\* step changes once the thread is past its recording.
LEMMA ReceiptFrame ==
  ASSUME TypeOK, ReceiptInv, UNCHANGED receipts,
         \A r \in Requests : thread[r] \in {"closing", "ended"} =>
           /\ thread'[r] \in {"closing", "ended"}
           /\ index'[r] = index[r] /\ answer'[r] = answer[r]
           /\ flawed'[r] = flawed[r]
  PROVE  ReceiptInv'
<1>1. \A i \in DOMAIN receipts : receipts[i].request \in Requests
  BY RequestsOf
<1>2. \A r \in Requests : thread[r] \in {"closing", "ended"} => Receipt(r)' = Receipt(r)
  BY DEF Receipt
<1> QED
  BY <1>1, <1>2 DEF ReceiptInv

LEMMA ReceiptStep ==
  ASSUME TypeOK, ThreadInv, ReceiptInv, [Next]_vars
  PROVE  ReceiptInv'
<1> USE DEF Thread
<1>1. ASSUME NEW r \in Requests, Send(r) PROVE ReceiptInv'
  BY <1>1, ReceiptFrame DEF Send, TypeOK, ThreadInv
<1>2. ASSUME NEW r \in Requests, Disconnect(r) PROVE ReceiptInv'
  BY <1>2, ReceiptFrame DEF Disconnect, TypeOK, ThreadInv
<1>3. ASSUME NEW r \in Requests, Reject(r) PROVE ReceiptInv'
  BY <1>3, ReceiptFrame DEF Reject, TypeOK, ThreadInv
<1>4. ASSUME NEW r \in Requests, Reserve(r) PROVE ReceiptInv'
  <2>1. CASE nextIndex > MaxRequests
    BY <1>4, <2>1, ReceiptFrame DEF Reserve, TypeOK, ThreadInv
  <2>2. CASE ~(nextIndex > MaxRequests)
    BY <1>4, <2>2, ReceiptFrame DEF Reserve, TypeOK, ThreadInv
  <2> QED
    BY <2>1, <2>2
<1>5. ASSUME NEW r \in Requests, StartResponse(r) PROVE ReceiptInv'
  BY <1>5, ReceiptFrame DEF StartResponse, TypeOK, ThreadInv
<1>6. ASSUME NEW r \in Requests, FinishResponse(r) PROVE ReceiptInv'
  BY <1>6, ReceiptFrame DEF FinishResponse, TypeOK, ThreadInv
<1>7. ASSUME NEW r \in Requests, UpstreamFails(r) PROVE ReceiptInv'
  BY <1>7, ReceiptFrame DEF UpstreamFails, TypeOK, ThreadInv
<1>8. ASSUME NEW r \in Requests, AppendReceipt(r) PROVE ReceiptInv'
  <2>1. /\ DOMAIN receipts' = DOMAIN receipts \cup {Len(receipts) + 1}
        /\ \A i \in DOMAIN receipts : receipts'[i] = receipts[i]
        /\ receipts'[Len(receipts) + 1] = Receipt(r)
    BY <1>8, AppendedReceipt
  <2>2. \A i \in DOMAIN receipts : /\ receipts[i].request \in Requests
                                   /\ receipts[i].request # r
    BY <1>8, RequestsOf DEF AppendReceipt, ReceiptInv
  <2>3. Receipt(r).request = r /\ index[r] > 0 /\ thread'[r] = "closing"
    BY <1>8 DEF AppendReceipt, TypeOK, ThreadInv, Receipt
  <2>4. \A q \in Requests : /\ Receipt(q)' = Receipt(q) /\ index'[q] = index[q]
                            /\ q # r => thread'[q] = thread[q]
    BY <1>8 DEF AppendReceipt, TypeOK, Receipt
  <2>5. ASSUME NEW i \in DOMAIN receipts'
        PROVE  (/\ receipts[i] = Receipt(receipts[i].request)
                /\ index[receipts[i].request] > 0
                /\ thread[receipts[i].request] \in {"closing", "ended"})'
    <3>1. CASE i \in DOMAIN receipts
      BY <2>1, <2>2, <2>4, <3>1 DEF ReceiptInv
    <3>2. CASE i = Len(receipts) + 1
      BY <2>1, <2>3, <2>4, <3>2
    <3> QED
      BY <2>1, <3>1, <3>2
  <2>6. ASSUME NEW i \in DOMAIN receipts', NEW j \in DOMAIN receipts',
               receipts'[i].request = receipts'[j].request
        PROVE  i = j
    BY <2>1, <2>2, <2>3, <2>6 DEF ReceiptInv
  <2> QED
    BY <2>5, <2>6 DEF ReceiptInv
<1>9. ASSUME NEW r \in Requests, AppendFails(r) PROVE ReceiptInv'
  BY <1>9, ReceiptFrame DEF AppendFails, TypeOK, ThreadInv
<1>10. ASSUME NEW r \in Requests, CloseConnection(r) PROVE ReceiptInv'
  BY <1>10, ReceiptFrame DEF CloseConnection, TypeOK, ThreadInv
<1>11. CASE StopProxy
  BY <1>11, ReceiptFrame DEF StopProxy, Killed, TypeOK
<1>12. CASE ProxyDies
  BY <1>12, ReceiptFrame DEF ProxyDies, Killed, TypeOK
<1>13. CASE CollectReceipts
  BY <1>13, ReceiptFrame DEF CollectReceipts, requestVars
<1>14. CASE UNCHANGED vars
  BY <1>14, ReceiptFrame DEF vars, requestVars
<1> QED
  BY <1>1, <1>2, <1>3, <1>4, <1>5, <1>6, <1>7, <1>8, <1>9, <1>10, <1>11, <1>12,
     <1>13, <1>14 DEF Next

\* A receipt that was written or failed stays so, and answers come before it.
LEMMA RecordedStep ==
  ASSUME TypeOK, ThreadInv, RecordedInv, EndInv, [Next]_vars
  PROVE  RecordedInv'
<1> USE DEF TypeOK, ThreadInv, RecordedInv, Thread, Recorded
<1>1. ASSUME NEW r \in Requests, Send(r) PROVE RecordedInv'
  BY <1>1 DEF Send
<1>2. ASSUME NEW r \in Requests, Disconnect(r) PROVE RecordedInv'
  BY <1>2 DEF Disconnect
<1>3. ASSUME NEW r \in Requests, Reject(r) PROVE RecordedInv'
  BY <1>3 DEF Reject
<1>4. ASSUME NEW r \in Requests, Reserve(r) PROVE RecordedInv'
  <2>1. CASE nextIndex > MaxRequests
    BY <1>4, <2>1 DEF Reserve
  <2>2. CASE ~(nextIndex > MaxRequests)
    BY <1>4, <2>2 DEF Reserve
  <2> QED
    BY <2>1, <2>2
<1>5. ASSUME NEW r \in Requests, StartResponse(r) PROVE RecordedInv'
  <2>1. /\ thread[r] = "forwarding" /\ thread'[r] # "closing"
        /\ \A q \in Requests : q # r => thread'[q] = thread[q]
    BY <1>5 DEF StartResponse
  <2> QED
    BY <1>5, <2>1 DEF StartResponse
<1>6. ASSUME NEW r \in Requests, FinishResponse(r) PROVE RecordedInv'
  BY <1>6 DEF FinishResponse
<1>7. ASSUME NEW r \in Requests, UpstreamFails(r) PROVE RecordedInv'
  BY <1>7 DEF UpstreamFails
<1>8. ASSUME NEW r \in Requests, AppendReceipt(r) PROVE RecordedInv'
  <2>1. /\ DOMAIN receipts' = DOMAIN receipts \cup {Len(receipts) + 1}
        /\ \A i \in DOMAIN receipts : receipts'[i] = receipts[i]
        /\ receipts'[Len(receipts) + 1] = Receipt(r)
    BY <1>8, AppendedReceipt
  <2>2. \A q \in Requests : Recorded(q) => Recorded(q)'
    BY <1>8, <2>1 DEF AppendReceipt
  <2>3. Recorded(r)'
    BY <2>1 DEF Receipt
  <2>4. /\ \A q \in Requests : q # r => thread'[q] = thread[q]
        /\ UNCHANGED <<answer, client, proxy>>
    BY <1>8 DEF AppendReceipt
  <2> HIDE DEF Recorded
  <2> QED
    BY <2>2, <2>3, <2>4
<1>9. ASSUME NEW r \in Requests, AppendFails(r) PROVE RecordedInv'
  BY <1>9 DEF AppendFails
<1>10. ASSUME NEW r \in Requests, CloseConnection(r) PROVE RecordedInv'
  BY <1>10 DEF CloseConnection
<1>11. CASE StopProxy
  BY <1>11 DEF StopProxy, Killed
<1>12. CASE ProxyDies
  BY <1>12 DEF ProxyDies, Killed
<1>13. CASE CollectReceipts
  BY <1>13 DEF CollectReceipts, requestVars
<1>14. CASE UNCHANGED vars
  BY <1>14 DEF vars, requestVars
<1> QED
  BY <1>1, <1>2, <1>3, <1>4, <1>5, <1>6, <1>7, <1>8, <1>9, <1>10, <1>11, <1>12,
     <1>13, <1>14 DEF Next

\* After the process only the collection is left.
LEMMA EndStep ==
  ASSUME TypeOK, EndInv, [Next]_vars
  PROVE  EndInv'
<1> USE DEF TypeOK, EndInv, Thread, Sound
<1>1. ASSUME NEW r \in Requests, Send(r) PROVE EndInv'
  BY <1>1 DEF Send
<1>2. ASSUME NEW r \in Requests, Disconnect(r) PROVE EndInv'
  BY <1>2 DEF Disconnect
<1>3. ASSUME NEW r \in Requests, Reject(r) PROVE EndInv'
  BY <1>3 DEF Reject
<1>4. ASSUME NEW r \in Requests, Reserve(r) PROVE EndInv'
  BY <1>4 DEF Reserve
<1>5. ASSUME NEW r \in Requests, StartResponse(r) PROVE EndInv'
  BY <1>5 DEF StartResponse
<1>6. ASSUME NEW r \in Requests, FinishResponse(r) PROVE EndInv'
  BY <1>6 DEF FinishResponse
<1>7. ASSUME NEW r \in Requests, UpstreamFails(r) PROVE EndInv'
  BY <1>7 DEF UpstreamFails
<1>8. ASSUME NEW r \in Requests, AppendReceipt(r) PROVE EndInv'
  BY <1>8 DEF AppendReceipt
<1>9. ASSUME NEW r \in Requests, AppendFails(r) PROVE EndInv'
  BY <1>9 DEF AppendFails
<1>10. ASSUME NEW r \in Requests, CloseConnection(r) PROVE EndInv'
  BY <1>10 DEF CloseConnection
<1>11. CASE StopProxy
  BY <1>11 DEF StopProxy, Killed
<1>12. CASE ProxyDies
  BY <1>12 DEF ProxyDies, Killed
<1>13. CASE CollectReceipts
  BY <1>13 DEF CollectReceipts, requestVars
<1>14. CASE UNCHANGED vars
  BY <1>14 DEF vars, requestVars
<1> QED
  BY <1>1, <1>2, <1>3, <1>4, <1>5, <1>6, <1>7, <1>8, <1>9, <1>10, <1>11, <1>12,
     <1>13, <1>14 DEF Next

-----------------------------------------------------------------------------

\* The inductive invariant: a request through its thread, from the turn it
\* reserves to the line it leaves (do_POST).
THEOREM Invariance == Spec => []IInv
<1>1. Init => IInv
  BY DEF Init, IInv, TypeOK, ThreadInv, IndexInv, ReceiptInv, RecordedInv, EndInv
<1>2. IInv /\ [Next]_vars => IInv'
  BY TypeStep, ThreadStep, ReceiptStep, RecordedStep, EndStep DEF IInv
<1> QED
  BY <1>1, <1>2, PTL DEF Spec

\* Types, for any number of requests and any limit.
THEOREM TypeCorrect == Spec => []TypeOK
BY Invariance, PTL DEF IInv

\* A turn is never recorded for two requests: the numbers of the recorder are
\* given out under its lock and used once (reserve).
THEOREM TurnsStayDistinct == Spec => []TurnsDistinct
<1>1. IInv => TurnsDistinct
  <2> SUFFICES ASSUME IInv, NEW i \in DOMAIN receipts, NEW j \in DOMAIN receipts,
                      receipts[i].turn = receipts[j].turn
               PROVE  i = j
    BY DEF TurnsDistinct
  <2>1. receipts[i].request \in Requests /\ receipts[j].request \in Requests
    BY RequestsOf DEF IInv
  <2>2. index[receipts[i].request] = index[receipts[j].request]
    BY DEF IInv, ReceiptInv, Receipt
  <2>3. receipts[i].request = receipts[j].request
    BY <2>1, <2>2 DEF IInv, IndexInv, ReceiptInv
  <2> QED
    BY <2>3 DEF IInv, ReceiptInv
<1> QED
  BY <1>1, Invariance, PTL

\* Stopping the proxy after the attempt loses no receipt of a turn Pi saw to its
\* end (do_POST, _stop_cell_proxy).
THEOREM NoReceiptLost == Spec => []ServedHasReceipt
<1>1. IInv => ServedHasReceipt
  BY DEF IInv, ServedHasReceipt, Served, RecordedInv, Recorded
<1> QED
  BY <1>1, Invariance, PTL

\* What is accepted as evidence speaks of every answer Pi saw
\* (_collect_proxy_receipts).
THEOREM EvidenceIsSound == Spec => []AcceptedMeansClean
<1>1. IInv => AcceptedMeansClean
  <2> SUFFICES ASSUME IInv, evidence = "accepted", unwritten = {},
                      proxy = "stopped", NEW r \in Requests, Served(r)
               PROVE  answer[r] = "clean"
    BY DEF AcceptedMeansClean
  <2>1. PICK i \in DOMAIN receipts : receipts[i].request = r
    BY DEF IInv, RecordedInv, Recorded, Served
  <2>2. receipts[i].valid
    BY DEF IInv, EndInv, Sound
  <2>3. receipts[i] = Receipt(r)
    BY <2>1 DEF IInv, ReceiptInv
  <2>4. receipts[i].valid = (answer[r] = "clean" /\ ~flawed[r])
    BY <2>3 DEF Receipt
  <2> QED
    BY <2>2, <2>4, Zenon
<1> QED
  BY <1>1, Invariance, PTL
=============================================================================
