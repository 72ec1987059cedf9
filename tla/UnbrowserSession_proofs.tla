---------------------- MODULE UnbrowserSession_proofs ----------------------
(***************************************************************************)
(* Proofs about UnbrowserSession, for every set of pages and any number of *)
(* browser processes. The inductive invariant ties what the session        *)
(* remembers to the process it holds: a session without a process          *)
(* remembers nothing, and one that may act has navigated its process. The  *)
(* last part bounds the steps of a call.                                   *)
(***************************************************************************)
EXTENDS UnbrowserSession, TLAPS

Tools == {"navigate", "read", "interact", "describe", "form", "close"}
Causes == {"none", "infrastructure", "protocol", "refused", "too_large"}
AnyPage == Pages \cup {Refused, Away, NoPage}

Reports == [call : Tools, ok : BOOLEAN, cause : Causes, marked : BOOLEAN,
            content : AnyPage]

StateOK ==
  /\ browser \in {"none", "alive", "exited"}
  /\ page \in AnyPage
  /\ navigated \in BOOLEAN
  /\ firstDone \in BOOLEAN
  /\ currentUrl \in Pages \cup {Refused, NoPage}
  /\ call \in Tools
  /\ method \in {"navigate", "read", "interact", "close"}
  /\ pc \in {"idle", "fetch", "request", "wait", "closed"}
  /\ delivered \in BOOLEAN
  /\ lost \in BOOLEAN
  /\ refusedForm \in BOOLEAN
  /\ told \in {"status", "url", "nothing"}
  /\ starts \in Nat

TypeOK == StateOK /\ report \in Reports

\* Which call is at which method, and which calls hold a permission to act.
CallInv ==
  /\ pc = "fetch" => call \in Specialists /\ method = "navigate" /\ navigated
  /\ pc \in {"request", "wait"} =>
       \/ call = "navigate" /\ method = "navigate"
       \/ call = "navigate" /\ method = "read" /\ navigated /\ firstDone
       \/ call \in {"read", "interact"} /\ method = call /\ navigated
       \/ call = "form" /\ method \in {"navigate", "read"} /\ navigated
       \/ call = "close" /\ method = "close"

\* What the session remembers is about the process it holds.
MemoryInv ==
  /\ navigated => browser # "none" /\ firstDone /\ currentUrl # NoPage
  /\ firstDone => browser # "none"
  /\ browser = "none" => page = NoPage
  /\ browser = "none" => pc # "wait"
  /\ pc \in {"request", "wait"} /\ call = "close" => browser # "none"
  /\ page = NoPage => ~firstDone

\* The page the session may act on.
PageInv ==
  browser = "alive" /\ navigated =>
    \/ refusedForm \/ told = "nothing"
    \/ currentUrl = page /\ (page \in Pages \/ told = "url")

\* The required observation is on its way or was had.
ObservationInv ==
  /\ Required /\ browser = "alive" /\ firstDone =>
       \/ delivered \/ lost
       \/ Observing /\ pc \in {"request", "wait"}
  /\ ObservedBeforeActing

SessionInv == CallInv /\ MemoryInv /\ PageInv /\ ObservationInv /\ SemanticPageShown

IInv == TypeOK /\ SessionInv

USE SessionAssumption

\* The outcomes of a call are reports.
LEMMA AnswerType ==
  ASSUME call \in Tools, NEW p \in AnyPage, Answer(p)
  PROVE  report' \in Reports
BY DEF Answer, Reports, Causes

LEMMA ErrorType ==
  ASSUME NEW c \in Tools, NEW cause \in Causes, NEW m \in BOOLEAN, Error(c, cause, m)
  PROVE  report' \in Reports
BY DEF Error, Reports, AnyPage

LEMMA ReturnType ==
  ASSUME call \in Tools, NEW p \in AnyPage, Return(p)
  PROVE  report' \in Reports
<1>1. CASE Answer(p)
  BY <1>1, AnswerType
<1>2. CASE Error(call, "too_large", call \in Specialists)
  <2>1. (call \in Specialists) \in BOOLEAN
    OBVIOUS
  <2>2. "too_large" \in Causes
    BY DEF Causes
  <2> QED
    BY <1>2, <2>1, <2>2, ErrorType
<1> QED
  BY <1>1, <1>2 DEF Return

LEMMA RaiseType ==
  ASSUME call \in Tools, report \in Reports, NEW cause \in Causes, Raise(cause)
  PROVE  report' \in Reports
BY ErrorType DEF Raise

\* The types of the state.
LEMMA StateKept ==
  ASSUME StateOK, [Next]_vars
  PROVE  StateOK'
<1> USE DEF StateOK, Tools, AnyPage, process, session, place, history, Begin,
            Answer, Error, Return, Raise, Kill, Observing, LandAway, Land,
            Specialists, Landings
<1>1. CASE Navigate
  BY <1>1 DEF Navigate
<1>2. CASE Close
  BY <1>2 DEF Close
<1>3. CASE OnPage("read")
  BY <1>3 DEF OnPage
<1>4. CASE OnPage("interact")
  BY <1>4 DEF OnPage
<1>5. CASE Semantic("describe")
  BY <1>5 DEF Semantic
<1>6. CASE Semantic("form")
  BY <1>6 DEF Semantic
<1>7. CASE Fetch
  BY <1>7 DEF Fetch
<1>8. CASE Request
  <2> HIDE DEF Raise
  <2>1. Raise("infrastructure") => pc' \in {"idle", "closed"}
    BY DEF Raise
  <2>2. pc' \in {"idle", "closed", "wait"}
    BY <1>8, <2>1 DEF Request
  <2>3. starts' \in Nat
    BY <1>8 DEF Request
  <2>4. navigated' \in BOOLEAN /\ firstDone' \in BOOLEAN
    BY <1>8 DEF Request
  <2>5. /\ delivered' \in BOOLEAN /\ lost' \in BOOLEAN /\ refusedForm' \in BOOLEAN
        /\ told' \in {"status", "url", "nothing"}
    BY <1>8 DEF Request
  <2>6. /\ browser' \in {"none", "alive", "exited"}
        /\ page' \in AnyPage /\ currentUrl' \in Pages \cup {Refused, NoPage}
    BY <1>8 DEF Request
  <2>7. call' = call /\ method' = method
    BY <1>8 DEF Request
  <2> QED
    BY <2>2, <2>3, <2>4, <2>5, <2>6, <2>7
<1>9. CASE RequestFails
  BY <1>9 DEF RequestFails
<1>10. CASE NavigateReplies
  <2>1. CASE LandAway
    BY <1>10, <2>1 DEF NavigateReplies
  <2>2. CASE /\ call = "navigate"
             /\ page' = Refused /\ navigated' = FALSE /\ told' = "status"
             /\ Return(Refused)
             /\ UNCHANGED <<browser, firstDone, currentUrl, method, delivered, lost,
                            refusedForm>>
    BY <1>10, <2>2 DEF NavigateReplies
  <2>3. CASE /\ call = "form"
             /\ page' = Refused /\ refusedForm' = TRUE /\ told' = "status"
             /\ Raise("protocol")
             /\ UNCHANGED <<browser, session, method, delivered, lost>>
    BY <1>10, <2>3 DEF NavigateReplies
  <2>4. ASSUME NEW p \in Pages, page' = p, Land(p),
               firstDone' = (firstDone \/ call = "navigate"),
               IF call = "form" \/ (Required /\ ~firstDone)
               THEN method' = "read" /\ pc' = "request" /\ UNCHANGED report
               ELSE Return(p) /\ UNCHANGED method,
               UNCHANGED <<browser, delivered, lost>>
        PROVE  StateOK'
    BY <1>10, <2>4 DEF NavigateReplies
  <2>5. CASE Unreported /\ Raise("protocol")
    BY <1>10, <2>5 DEF NavigateReplies, Unreported
  <2> QED
    BY ONLY <1>10, <2>1, <2>2, <2>3, <2>4, <2>5 DEF NavigateReplies, Landings
<1>11. CASE ReadReplies
  BY <1>11 DEF ReadReplies
<1>12. CASE InteractReplies
  <2>1. CASE Unreported /\ (Raise("protocol") \/ Return(page'))
    BY <1>12, <2>1 DEF InteractReplies, Unreported
  <2>2. CASE LandAway
    BY <1>12, <2>2 DEF InteractReplies
  <2>3. CASE /\ page' = Refused /\ navigated' = FALSE /\ told' = "status"
             /\ Return(Refused)
             /\ UNCHANGED <<browser, firstDone, currentUrl, method, delivered, lost,
                            refusedForm>>
    BY <1>12, <2>3 DEF InteractReplies
  <2>4. ASSUME NEW p \in Pages, page' = p, Land(p), Return(p),
               UNCHANGED <<browser, firstDone, method, delivered, lost>>
        PROVE  StateOK'
    BY <1>12, <2>4 DEF InteractReplies
  <2>5. ASSUME NEW p \in Pages \cup {Refused}, UrlOnly(p), Return(p)
        PROVE  StateOK'
    BY <1>12, <2>5 DEF InteractReplies, UrlOnly
  <2> QED
    BY ONLY <1>12, <2>1, <2>2, <2>3, <2>4, <2>5 DEF InteractReplies, Landings
<1>13. CASE CloseReplies
  BY <1>13 DEF CloseReplies
<1>14. CASE BrowserExits
  BY <1>14 DEF BrowserExits
<1>15. CASE UNCHANGED vars
  BY <1>15 DEF vars
<1> QED
  BY <1>1, <1>2, <1>3, <1>4, <1>5, <1>6, <1>7, <1>8, <1>9, <1>10, <1>11,
     <1>12, <1>13, <1>14, <1>15
  DEF Next, Model, Browser, Specialists

\* The types of the reports.
LEMMA ReportKept ==
  ASSUME StateOK, report \in Reports, [Next]_vars
  PROVE  report' \in Reports
<1> USE DEF process, session, place, history, Begin, Kill, LandAway, Specialists,
            Landings, Causes, AnyPage, StateOK
<1>1. CASE Navigate
  BY <1>1 DEF Navigate
<1>2. CASE Close
  BY <1>2 DEF Close
<1>3. CASE OnPage("read")
  BY <1>3, ErrorType DEF OnPage, Tools
<1>4. CASE OnPage("interact")
  BY <1>4, ErrorType DEF OnPage, Tools
<1>5. CASE Semantic("describe")
  BY <1>5, ErrorType DEF Semantic, Tools
<1>6. CASE Semantic("form")
  BY <1>6, ErrorType DEF Semantic, Tools
<1>7. CASE Fetch
  BY <1>7, ReturnType, RaiseType, ErrorType DEF Fetch
<1>8. CASE Request
  BY <1>8, ReturnType, RaiseType, ErrorType DEF Request
<1>9. CASE RequestFails
  BY <1>9, ReturnType, RaiseType, ErrorType DEF RequestFails
<1>10. CASE NavigateReplies
  BY <1>10, ReturnType, RaiseType, ErrorType DEF NavigateReplies, Unreported
<1>11. CASE ReadReplies
  BY <1>11, ReturnType, RaiseType, ErrorType DEF ReadReplies
<1>12. CASE InteractReplies
  <2>1. CASE Unreported /\ (Raise("protocol") \/ Return(page'))
    <3>1. page' \in AnyPage
      BY <2>1 DEF Unreported
    <3> QED
      BY <2>1, <3>1, ReturnType, RaiseType
  <2>2. CASE \E p \in Landings : Return(p) \/ LandAway
    BY <2>2, ReturnType, RaiseType
  <2> QED
    BY ONLY <1>12, <2>1, <2>2 DEF InteractReplies
<1>13. CASE CloseReplies
  BY <1>13 DEF CloseReplies
<1>14. CASE BrowserExits
  BY <1>14 DEF BrowserExits
<1>15. CASE UNCHANGED vars
  BY <1>15 DEF vars
<1> QED
  BY <1>1, <1>2, <1>3, <1>4, <1>5, <1>6, <1>7, <1>8, <1>9, <1>10, <1>11,
     <1>12, <1>13, <1>14, <1>15
  DEF Next, Model, Browser, Specialists

\* A call keeps its permission while it runs.
LEMMA CallKept ==
  ASSUME StateOK, CallInv, MemoryInv, [Next]_vars
  PROVE  CallInv'
<1> USE DEF StateOK, CallInv, MemoryInv, process, session, place, history, Begin,
            Answer, Error, Return, Raise, Kill, Observing, LandAway, Land,
            Specialists, Landings
<1>1. CASE Navigate
  BY <1>1 DEF Navigate
<1>2. CASE Close
  BY <1>2 DEF Close
<1>3. CASE OnPage("read")
  BY <1>3 DEF OnPage
<1>4. CASE OnPage("interact")
  BY <1>4 DEF OnPage
<1>5. CASE Semantic("describe")
  BY <1>5 DEF Semantic
<1>6. CASE Semantic("form")
  BY <1>6 DEF Semantic
<1>7. CASE Fetch
  BY <1>7 DEF Fetch
<1>8. CASE Request
  BY <1>8 DEF Request
<1>9. CASE RequestFails
  BY <1>9 DEF RequestFails
<1>10. CASE NavigateReplies
  <2>1. CASE LandAway
    BY <1>10, <2>1 DEF NavigateReplies
  <2>2. CASE /\ call = "navigate"
             /\ page' = Refused /\ navigated' = FALSE /\ told' = "status"
             /\ Return(Refused)
             /\ UNCHANGED <<browser, firstDone, currentUrl, method, delivered, lost,
                            refusedForm>>
    BY <1>10, <2>2 DEF NavigateReplies
  <2>3. CASE /\ call = "form"
             /\ page' = Refused /\ refusedForm' = TRUE /\ told' = "status"
             /\ Raise("protocol")
             /\ UNCHANGED <<browser, session, method, delivered, lost>>
    BY <1>10, <2>3 DEF NavigateReplies
  <2>4. ASSUME NEW p \in Pages, page' = p, Land(p),
               firstDone' = (firstDone \/ call = "navigate"),
               IF call = "form" \/ (Required /\ ~firstDone)
               THEN method' = "read" /\ pc' = "request" /\ UNCHANGED report
               ELSE Return(p) /\ UNCHANGED method,
               UNCHANGED <<browser, delivered, lost>>
        PROVE  CallInv'
    BY <1>10, <2>4 DEF NavigateReplies
  <2>5. CASE Unreported /\ Raise("protocol")
    BY <1>10, <2>5 DEF NavigateReplies, Unreported
  <2> QED
    BY ONLY <1>10, <2>1, <2>2, <2>3, <2>4, <2>5 DEF NavigateReplies, Landings
<1>11. CASE ReadReplies
  BY <1>11 DEF ReadReplies
<1>12. CASE InteractReplies
  <2>1. CASE Unreported /\ (Raise("protocol") \/ Return(page'))
    BY <1>12, <2>1 DEF InteractReplies, Unreported
  <2>2. CASE LandAway
    BY <1>12, <2>2 DEF InteractReplies
  <2>3. CASE /\ page' = Refused /\ navigated' = FALSE /\ told' = "status"
             /\ Return(Refused)
             /\ UNCHANGED <<browser, firstDone, currentUrl, method, delivered, lost,
                            refusedForm>>
    BY <1>12, <2>3 DEF InteractReplies
  <2>4. ASSUME NEW p \in Pages, page' = p, Land(p), Return(p),
               UNCHANGED <<browser, firstDone, method, delivered, lost>>
        PROVE  CallInv'
    BY <1>12, <2>4 DEF InteractReplies
  <2>5. ASSUME NEW p \in Pages \cup {Refused}, UrlOnly(p), Return(p)
        PROVE  CallInv'
    BY <1>12, <2>5 DEF InteractReplies, UrlOnly
  <2> QED
    BY ONLY <1>12, <2>1, <2>2, <2>3, <2>4, <2>5 DEF InteractReplies, Landings
<1>13. CASE CloseReplies
  BY <1>13 DEF CloseReplies
<1>14. CASE BrowserExits
  BY <1>14 DEF BrowserExits
<1>15. CASE UNCHANGED vars
  BY <1>15 DEF vars
<1> QED
  BY <1>1, <1>2, <1>3, <1>4, <1>5, <1>6, <1>7, <1>8, <1>9, <1>10, <1>11,
     <1>12, <1>13, <1>14, <1>15
  DEF Next, Model, Browser, Specialists

\* A process that is gone is forgotten.
LEMMA MemoryKept ==
  ASSUME StateOK, CallInv, MemoryInv, [Next]_vars
  PROVE  MemoryInv'
<1> USE DEF StateOK, CallInv, MemoryInv, process, session, place, history, Begin,
            Answer, Error, Return, Raise, Kill, Observing, LandAway, Land,
            Specialists, Landings
<1>1. CASE Navigate
  BY <1>1 DEF Navigate
<1>2. CASE Close
  BY <1>2 DEF Close
<1>3. CASE OnPage("read")
  BY <1>3 DEF OnPage
<1>4. CASE OnPage("interact")
  BY <1>4 DEF OnPage
<1>5. CASE Semantic("describe")
  BY <1>5 DEF Semantic
<1>6. CASE Semantic("form")
  BY <1>6 DEF Semantic
<1>7. CASE Fetch
  BY <1>7 DEF Fetch
<1>8. CASE Request
  BY <1>8 DEF Request
<1>9. CASE RequestFails
  BY <1>9 DEF RequestFails
<1>10. CASE NavigateReplies
  <2>1. CASE LandAway
    BY <1>10, <2>1 DEF NavigateReplies
  <2>2. CASE /\ call = "navigate"
             /\ page' = Refused /\ navigated' = FALSE /\ told' = "status"
             /\ Return(Refused)
             /\ UNCHANGED <<browser, firstDone, currentUrl, method, delivered, lost,
                            refusedForm>>
    BY <1>10, <2>2 DEF NavigateReplies
  <2>3. CASE /\ call = "form"
             /\ page' = Refused /\ refusedForm' = TRUE /\ told' = "status"
             /\ Raise("protocol")
             /\ UNCHANGED <<browser, session, method, delivered, lost>>
    BY <1>10, <2>3 DEF NavigateReplies
  <2>4. ASSUME NEW p \in Pages, page' = p, Land(p),
               firstDone' = (firstDone \/ call = "navigate"),
               IF call = "form" \/ (Required /\ ~firstDone)
               THEN method' = "read" /\ pc' = "request" /\ UNCHANGED report
               ELSE Return(p) /\ UNCHANGED method,
               UNCHANGED <<browser, delivered, lost>>
        PROVE  MemoryInv'
    BY <1>10, <2>4 DEF NavigateReplies
  <2>5. CASE Unreported /\ Raise("protocol")
    BY <1>10, <2>5 DEF NavigateReplies, Unreported
  <2> QED
    BY ONLY <1>10, <2>1, <2>2, <2>3, <2>4, <2>5 DEF NavigateReplies, Landings
<1>11. CASE ReadReplies
  BY <1>11 DEF ReadReplies
<1>12. CASE InteractReplies
  <2>1. CASE Unreported /\ (Raise("protocol") \/ Return(page'))
    BY <1>12, <2>1 DEF InteractReplies, Unreported
  <2>2. CASE LandAway
    BY <1>12, <2>2 DEF InteractReplies
  <2>3. CASE /\ page' = Refused /\ navigated' = FALSE /\ told' = "status"
             /\ Return(Refused)
             /\ UNCHANGED <<browser, firstDone, currentUrl, method, delivered, lost,
                            refusedForm>>
    BY <1>12, <2>3 DEF InteractReplies
  <2>4. ASSUME NEW p \in Pages, page' = p, Land(p), Return(p),
               UNCHANGED <<browser, firstDone, method, delivered, lost>>
        PROVE  MemoryInv'
    BY <1>12, <2>4 DEF InteractReplies
  <2>5. ASSUME NEW p \in Pages \cup {Refused}, UrlOnly(p), Return(p)
        PROVE  MemoryInv'
    BY <1>12, <2>5 DEF InteractReplies, UrlOnly
  <2> QED
    BY ONLY <1>12, <2>1, <2>2, <2>3, <2>4, <2>5 DEF InteractReplies, Landings
<1>13. CASE CloseReplies
  BY <1>13 DEF CloseReplies
<1>14. CASE BrowserExits
  BY <1>14 DEF BrowserExits
<1>15. CASE UNCHANGED vars
  BY <1>15 DEF vars
<1> QED
  BY <1>1, <1>2, <1>3, <1>4, <1>5, <1>6, <1>7, <1>8, <1>9, <1>10, <1>11,
     <1>12, <1>13, <1>14, <1>15
  DEF Next, Model, Browser, Specialists

\* The page and the current URL go together.
LEMMA PageKept ==
  ASSUME StateOK, CallInv, MemoryInv, PageInv, [Next]_vars
  PROVE  PageInv'
<1> USE DEF StateOK, CallInv, MemoryInv, PageInv, process, session, place,
            history, Begin, Answer, Error, Return, Raise, Kill, Observing,
            LandAway, Land, Specialists, Landings
<1>1. CASE Navigate
  BY <1>1 DEF Navigate
<1>2. CASE Close
  BY <1>2 DEF Close
<1>3. CASE OnPage("read")
  BY <1>3 DEF OnPage
<1>4. CASE OnPage("interact")
  BY <1>4 DEF OnPage
<1>5. CASE Semantic("describe")
  BY <1>5 DEF Semantic
<1>6. CASE Semantic("form")
  BY <1>6 DEF Semantic
<1>7. CASE Fetch
  BY <1>7 DEF Fetch
<1>8. CASE Request
  BY <1>8 DEF Request
<1>9. CASE RequestFails
  BY <1>9 DEF RequestFails
<1>10. CASE NavigateReplies
  <2>1. CASE LandAway
    BY <1>10, <2>1 DEF NavigateReplies
  <2>2. CASE /\ call = "navigate"
             /\ page' = Refused /\ navigated' = FALSE /\ told' = "status"
             /\ Return(Refused)
             /\ UNCHANGED <<browser, firstDone, currentUrl, method, delivered, lost,
                            refusedForm>>
    BY <1>10, <2>2 DEF NavigateReplies
  <2>3. CASE /\ call = "form"
             /\ page' = Refused /\ refusedForm' = TRUE /\ told' = "status"
             /\ Raise("protocol")
             /\ UNCHANGED <<browser, session, method, delivered, lost>>
    BY <1>10, <2>3 DEF NavigateReplies
  <2>4. ASSUME NEW p \in Pages, page' = p, Land(p),
               firstDone' = (firstDone \/ call = "navigate"),
               IF call = "form" \/ (Required /\ ~firstDone)
               THEN method' = "read" /\ pc' = "request" /\ UNCHANGED report
               ELSE Return(p) /\ UNCHANGED method,
               UNCHANGED <<browser, delivered, lost>>
        PROVE  PageInv'
    BY <1>10, <2>4 DEF NavigateReplies
  <2>5. CASE Unreported /\ Raise("protocol")
    BY <1>10, <2>5 DEF NavigateReplies, Unreported
  <2> QED
    BY ONLY <1>10, <2>1, <2>2, <2>3, <2>4, <2>5 DEF NavigateReplies, Landings
<1>11. CASE ReadReplies
  BY <1>11 DEF ReadReplies
<1>12. CASE InteractReplies
  <2>1. CASE Unreported /\ (Raise("protocol") \/ Return(page'))
    BY <1>12, <2>1 DEF InteractReplies, Unreported
  <2>2. CASE LandAway
    BY <1>12, <2>2 DEF InteractReplies
  <2>3. CASE /\ page' = Refused /\ navigated' = FALSE /\ told' = "status"
             /\ Return(Refused)
             /\ UNCHANGED <<browser, firstDone, currentUrl, method, delivered, lost,
                            refusedForm>>
    BY <1>12, <2>3 DEF InteractReplies
  <2>4. ASSUME NEW p \in Pages, page' = p, Land(p), Return(p),
               UNCHANGED <<browser, firstDone, method, delivered, lost>>
        PROVE  PageInv'
    BY <1>12, <2>4 DEF InteractReplies
  <2>5. ASSUME NEW p \in Pages \cup {Refused}, UrlOnly(p), Return(p)
        PROVE  PageInv'
    BY <1>12, <2>5 DEF InteractReplies, UrlOnly
  <2> QED
    BY ONLY <1>12, <2>1, <2>2, <2>3, <2>4, <2>5 DEF InteractReplies, Landings
<1>13. CASE CloseReplies
  BY <1>13 DEF CloseReplies
<1>14. CASE BrowserExits
  BY <1>14 DEF BrowserExits
<1>15. CASE UNCHANGED vars
  BY <1>15 DEF vars
<1> QED
  BY <1>1, <1>2, <1>3, <1>4, <1>5, <1>6, <1>7, <1>8, <1>9, <1>10, <1>11,
     <1>12, <1>13, <1>14, <1>15
  DEF Next, Model, Browser, Specialists

\* The observation comes first.
LEMMA ObservationKept ==
  ASSUME StateOK, CallInv, MemoryInv, ObservationInv, [Next]_vars
  PROVE  ObservationInv'
<1> USE DEF StateOK, CallInv, MemoryInv, ObservationInv, ObservedBeforeActing,
            process, session, place, history, Begin, Answer, Error, Return, Raise,
            Kill, Observing, LandAway, Land, Specialists, Landings
<1>1. CASE Navigate
  BY <1>1 DEF Navigate
<1>2. CASE Close
  BY <1>2 DEF Close
<1>3. CASE OnPage("read")
  BY <1>3 DEF OnPage
<1>4. CASE OnPage("interact")
  BY <1>4 DEF OnPage
<1>5. CASE Semantic("describe")
  BY <1>5 DEF Semantic
<1>6. CASE Semantic("form")
  BY <1>6 DEF Semantic
<1>7. CASE Fetch
  BY <1>7 DEF Fetch
<1>8. CASE Request
  BY <1>8 DEF Request
<1>9. CASE RequestFails
  BY <1>9 DEF RequestFails
<1>10. CASE NavigateReplies
  <2>1. CASE LandAway
    BY <1>10, <2>1 DEF NavigateReplies
  <2>2. CASE /\ call = "navigate"
             /\ page' = Refused /\ navigated' = FALSE /\ told' = "status"
             /\ Return(Refused)
             /\ UNCHANGED <<browser, firstDone, currentUrl, method, delivered, lost,
                            refusedForm>>
    BY <1>10, <2>2 DEF NavigateReplies
  <2>3. CASE /\ call = "form"
             /\ page' = Refused /\ refusedForm' = TRUE /\ told' = "status"
             /\ Raise("protocol")
             /\ UNCHANGED <<browser, session, method, delivered, lost>>
    BY <1>10, <2>3 DEF NavigateReplies
  <2>4. ASSUME NEW p \in Pages, page' = p, Land(p),
               firstDone' = (firstDone \/ call = "navigate"),
               IF call = "form" \/ (Required /\ ~firstDone)
               THEN method' = "read" /\ pc' = "request" /\ UNCHANGED report
               ELSE Return(p) /\ UNCHANGED method,
               UNCHANGED <<browser, delivered, lost>>
        PROVE  ObservationInv'
    BY <1>10, <2>4 DEF NavigateReplies
  <2>5. CASE Unreported /\ Raise("protocol")
    BY <1>10, <2>5 DEF NavigateReplies, Unreported
  <2> QED
    BY ONLY <1>10, <2>1, <2>2, <2>3, <2>4, <2>5 DEF NavigateReplies, Landings
<1>11. CASE ReadReplies
  BY <1>11 DEF ReadReplies
<1>12. CASE InteractReplies
  <2>1. CASE Unreported /\ (Raise("protocol") \/ Return(page'))
    BY <1>12, <2>1 DEF InteractReplies, Unreported
  <2>2. CASE LandAway
    BY <1>12, <2>2 DEF InteractReplies
  <2>3. CASE /\ page' = Refused /\ navigated' = FALSE /\ told' = "status"
             /\ Return(Refused)
             /\ UNCHANGED <<browser, firstDone, currentUrl, method, delivered, lost,
                            refusedForm>>
    BY <1>12, <2>3 DEF InteractReplies
  <2>4. ASSUME NEW p \in Pages, page' = p, Land(p), Return(p),
               UNCHANGED <<browser, firstDone, method, delivered, lost>>
        PROVE  ObservationInv'
    BY <1>12, <2>4 DEF InteractReplies
  <2>5. ASSUME NEW p \in Pages \cup {Refused}, UrlOnly(p), Return(p)
        PROVE  ObservationInv'
    BY <1>12, <2>5 DEF InteractReplies, UrlOnly
  <2> QED
    BY ONLY <1>12, <2>1, <2>2, <2>3, <2>4, <2>5 DEF InteractReplies, Landings
<1>13. CASE CloseReplies
  BY <1>13 DEF CloseReplies
<1>14. CASE BrowserExits
  BY <1>14 DEF BrowserExits
<1>15. CASE UNCHANGED vars
  BY <1>15 DEF vars
<1> QED
  BY <1>1, <1>2, <1>3, <1>4, <1>5, <1>6, <1>7, <1>8, <1>9, <1>10, <1>11,
     <1>12, <1>13, <1>14, <1>15
  DEF Next, Model, Browser, Specialists

\* A specialist answers from the page at hand.
LEMMA SemanticKept ==
  ASSUME StateOK, CallInv, MemoryInv, PageInv, SemanticPageShown, [Next]_vars
  PROVE  SemanticPageShown'
<1> USE DEF StateOK, CallInv, MemoryInv, PageInv, SemanticPageShown, process,
            session, place, history, Begin, Answer, Error, Return, Raise, Kill,
            Observing, LandAway, Land, Specialists, Landings
<1>1. CASE Navigate
  BY <1>1 DEF Navigate
<1>2. CASE Close
  BY <1>2 DEF Close
<1>3. CASE OnPage("read")
  BY <1>3 DEF OnPage
<1>4. CASE OnPage("interact")
  BY <1>4 DEF OnPage
<1>5. CASE Semantic("describe")
  BY <1>5 DEF Semantic
<1>6. CASE Semantic("form")
  BY <1>6 DEF Semantic
<1>7. CASE Fetch
  BY <1>7 DEF Fetch
<1>8. CASE Request
  BY <1>8 DEF Request
<1>9. CASE RequestFails
  BY <1>9 DEF RequestFails
<1>10. CASE NavigateReplies
  <2>1. CASE LandAway
    BY <1>10, <2>1 DEF NavigateReplies
  <2>2. CASE /\ call = "navigate"
             /\ page' = Refused /\ navigated' = FALSE /\ told' = "status"
             /\ Return(Refused)
             /\ UNCHANGED <<browser, firstDone, currentUrl, method, delivered, lost,
                            refusedForm>>
    BY <1>10, <2>2 DEF NavigateReplies
  <2>3. CASE /\ call = "form"
             /\ page' = Refused /\ refusedForm' = TRUE /\ told' = "status"
             /\ Raise("protocol")
             /\ UNCHANGED <<browser, session, method, delivered, lost>>
    BY <1>10, <2>3 DEF NavigateReplies
  <2>4. ASSUME NEW p \in Pages, page' = p, Land(p),
               firstDone' = (firstDone \/ call = "navigate"),
               IF call = "form" \/ (Required /\ ~firstDone)
               THEN method' = "read" /\ pc' = "request" /\ UNCHANGED report
               ELSE Return(p) /\ UNCHANGED method,
               UNCHANGED <<browser, delivered, lost>>
        PROVE  SemanticPageShown'
    BY <1>10, <2>4 DEF NavigateReplies
  <2>5. CASE Unreported /\ Raise("protocol")
    BY <1>10, <2>5 DEF NavigateReplies, Unreported
  <2> QED
    BY ONLY <1>10, <2>1, <2>2, <2>3, <2>4, <2>5 DEF NavigateReplies, Landings
<1>11. CASE ReadReplies
  BY <1>11 DEF ReadReplies
<1>12. CASE InteractReplies
  <2>1. CASE Unreported /\ (Raise("protocol") \/ Return(page'))
    BY <1>12, <2>1 DEF InteractReplies, Unreported
  <2>2. CASE LandAway
    BY <1>12, <2>2 DEF InteractReplies
  <2>3. CASE /\ page' = Refused /\ navigated' = FALSE /\ told' = "status"
             /\ Return(Refused)
             /\ UNCHANGED <<browser, firstDone, currentUrl, method, delivered, lost,
                            refusedForm>>
    BY <1>12, <2>3 DEF InteractReplies
  <2>4. ASSUME NEW p \in Pages, page' = p, Land(p), Return(p),
               UNCHANGED <<browser, firstDone, method, delivered, lost>>
        PROVE  SemanticPageShown'
    BY <1>12, <2>4 DEF InteractReplies
  <2>5. ASSUME NEW p \in Pages \cup {Refused}, UrlOnly(p), Return(p)
        PROVE  SemanticPageShown'
    BY <1>12, <2>5 DEF InteractReplies, UrlOnly
  <2> QED
    BY ONLY <1>12, <2>1, <2>2, <2>3, <2>4, <2>5 DEF InteractReplies, Landings
<1>13. CASE CloseReplies
  BY <1>13 DEF CloseReplies
<1>14. CASE BrowserExits
  BY <1>14 DEF BrowserExits
<1>15. CASE UNCHANGED vars
  BY <1>15 DEF vars
<1> QED
  BY <1>1, <1>2, <1>3, <1>4, <1>5, <1>6, <1>7, <1>8, <1>9, <1>10, <1>11,
     <1>12, <1>13, <1>14, <1>15
  DEF Next, Model, Browser, Specialists

-----------------------------------------------------------------------------

LEMMA InitInv == Init => IInv
<1> SUFFICES ASSUME Init PROVE IInv
  OBVIOUS
<1>1. StateOK
  BY DEF Init, StateOK, Tools, AnyPage
<1>2. report \in Reports
  BY DEF Init, Reports, Tools, Causes, AnyPage
<1>3. SessionInv
  BY DEF Init, SessionInv, CallInv, MemoryInv, PageInv, ObservationInv,
         ObservedBeforeActing, SemanticPageShown
<1> QED
  BY <1>1, <1>2, <1>3 DEF IInv, TypeOK

LEMMA NextInv == IInv /\ [Next]_vars => IInv'
  BY StateKept, ReportKept, CallKept, MemoryKept, PageKept, ObservationKept, SemanticKept
  DEF IInv, SessionInv, TypeOK

\* The inductive invariant holds in every reachable state.
THEOREM Invariance == Spec => []IInv
  BY InitInv, NextInv, PTL DEF Spec

\* Type correctness for every set of pages.
THEOREM TypeCorrect == Spec => []TypeOK
<1>1. IInv => TypeOK
  BY DEF IInv
<1> QED
  BY <1>1, Invariance, PTL

\* A session that lets the model act is on an accepted page, if the browser told
\* the status of the page and no form submission was refused
\* (_check_navigate_result, _check_interaction_result).
THEOREM PageIsAccepted == Spec => []AcceptedPage
<1>1. IInv => AcceptedPage
  BY DEF IInv, SessionInv, PageInv, AcceptedPage
<1> QED
  BY <1>1, Invariance, PTL

\* A semantic specialist describes the page the browser shows, if the browser told
\* its URL and no form submission was refused (_current_url).
THEOREM SpecialistsSeePage == Spec => []SemanticPageShown
<1>1. IInv => SemanticPageShown
  BY DEF IInv, SessionInv
<1> QED
  BY <1>1, Invariance, PTL

\* The required first observation of a browser comes before any other answer
\* (execute, _kill).
THEOREM ObservationIsFirst == Spec => []ObservedBeforeActing
<1>1. IInv => ObservedBeforeActing
  BY DEF IInv, SessionInv, ObservationInv
<1> QED
  BY <1>1, Invariance, PTL

\* A browser without a page is only asked to navigate or to close (_kill resets
\* what was known).
THEOREM NewBrowserNavigates == Spec => []FreshBrowserNavigates
<1>1. IInv => FreshBrowserNavigates
  BY DEF IInv, SessionInv, CallInv, MemoryInv, FreshBrowserNavigates
<1> QED
  BY <1>1, Invariance, PTL

-----------------------------------------------------------------------------
(* The length of a call.                                                   *)

\* The longest way of a call to its answer: fetch the page, send the request and
\* wait for its reply, and the same for what is read after a navigation.
Left ==
  CASE pc = "fetch" -> 5
    [] pc = "request" -> IF method = "navigate" THEN 4 ELSE 2
    [] pc = "wait" -> IF method = "navigate" THEN 3 ELSE 1
    [] OTHER -> 0

\* While a call is served each step brings it nearer to its answer, but for the
\* exit of the browser, which takes nothing back.
StepsDescend ==
  [][pc # "idle" => IF BrowserExits THEN Left' = Left ELSE Left' < Left]_vars

\* No call has more than five steps, and none are left only when the call is
\* answered or the session closed.
CallIsBounded == Left \in 0 .. 5 /\ (Left = 0 <=> pc \in {"idle", "closed"})

LEMMA LeftAt ==
  /\ pc = "fetch" => Left = 5
  /\ pc = "request" => Left = IF method = "navigate" THEN 4 ELSE 2
  /\ pc = "wait" => Left = IF method = "navigate" THEN 3 ELSE 1
  /\ pc \in {"idle", "closed"} => Left = 0
BY DEF Left

LEMMA AnswerDescends ==
  ASSUME StateOK, CallInv, pc # "idle", Next
  PROVE  IF BrowserExits THEN Left' = Left ELSE Left' < Left
<1>1. CASE BrowserExits
  BY <1>1 DEF BrowserExits, Left, place
<1>2. CASE ~BrowserExits
  <2>1. \/ pc = "fetch" /\ pc' \in {"idle", "request"}
        \/ pc = "request" /\ pc' \in {"idle", "closed", "wait"} /\ method' = method
        \/ pc = "wait" /\ pc' \in {"idle", "closed"}
        \/ pc = "wait" /\ method = "navigate" /\ pc' = "request" /\ method' = "read"
    BY <1>2, Zenon DEF Next, Model, Navigate, OnPage, Semantic, Close, Fetch, Request,
       RequestFails, Browser, NavigateReplies, ReadReplies, InteractReplies,
       Unreported, CloseReplies, LandAway, Answer, Error, Return, Raise
  <2>2. pc' = "fetch" \/ pc' = "request" \/ pc' = "wait" \/ pc' \in {"idle", "closed"}
    BY <2>1
  <2>3. /\ pc' = "request" => Left' = IF method' = "navigate" THEN 4 ELSE 2
        /\ pc' = "wait" => Left' = IF method' = "navigate" THEN 3 ELSE 1
        /\ pc' \in {"idle", "closed"} => Left' = 0
    BY DEF Left
  <2> QED BY <1>2, <2>1, <2>2, <2>3, LeftAt
<1> QED BY <1>1, <1>2

\* A call is answered after at most five steps, whatever the browser does
\* (execute, _request, and the fetch and form submission of the specialists).
THEOREM CallsEndInBound == Spec => []CallIsBounded /\ StepsDescend
<1>1. IInv => CallIsBounded
  BY LeftAt DEF IInv, TypeOK, StateOK, CallIsBounded
<1>2. IInv /\ [Next]_vars =>
        [pc # "idle" => IF BrowserExits THEN Left' = Left ELSE Left' < Left]_vars
  BY AnswerDescends DEF IInv, TypeOK, SessionInv
<1> QED BY <1>1, <1>2, Invariance, PTL DEF Spec, StepsDescend
=============================================================================
