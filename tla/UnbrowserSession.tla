-------------------------- MODULE UnbrowserSession --------------------------
(***************************************************************************)
(* One interactive Unbrowser session of a worker (unbrowser_rpc.py): a     *)
(* child process that holds a page, what the session remembers of it, and  *)
(* the tool calls of the model, answered one after the other.              *)
(*                                                                         *)
(* The browser can hang, exit or answer with an error at any point.  A     *)
(* failed request kills it, and the next call that is allowed to starts a  *)
(* new one.  The model is told the outcome of every call; an outcome that  *)
(* is the fault of the infrastructure carries a mark for the gates.        *)
(***************************************************************************)
EXTENDS Naturals

CONSTANTS
  Pages,        \* pages of the allowed origin that answer with status 200
  Refused,      \* any page with another status or a challenge, wherever it is
  Away,         \* any other page outside the origin
  NoPage,       \* a browser that has not navigated, no current URL
  Required,     \* a first observation is required
  MaxStarts     \* bound: browser processes

ASSUME SessionAssumption ==
  /\ Refused \notin Pages /\ Away \notin Pages /\ NoPage \notin Pages
  /\ NoPage \notin {Refused, Away}
  /\ Required \in BOOLEAN
  /\ MaxStarts \in Nat

\* query, text and blockmap are "read"; click, type and submit "interact";
\* semantic_table and the describe action of semantic_form "describe".

VARIABLES
  browser,      \* "none", or the state of the process the session holds
  page,         \* the page the browser shows
  navigated, firstDone, currentUrl,   \* what the session remembers
  call,         \* tool call being served
  method,       \* RPC method it is at
  pc,           \* "idle", "fetch", "request", "wait" or "closed"
  report,       \* outcome of the last call
  delivered,    \* history: this browser's first observation reached the model
  lost,         \* history: ... or was in a result that was too large
  refusedForm,  \* history: the page was left by a refused form submission
  told,         \* history: what the answer that led to the page said of it:
                \* its "status" and URL, its "url" only, or "nothing"
  starts

process == <<browser, page>>
session == <<navigated, firstDone, currentUrl>>
place == <<call, method, pc>>
history == <<delivered, lost, refusedForm, told>>
vars == <<process, session, place, report, history, starts>>

Init ==
  /\ browser = "none" /\ page = NoPage
  /\ navigated = FALSE /\ firstDone = FALSE /\ currentUrl = NoPage
  /\ call = "navigate" /\ method = "navigate" /\ pc = "idle"
  /\ report = [call |-> "navigate", ok |-> FALSE, cause |-> "none",
               marked |-> FALSE, content |-> NoPage]
  /\ delivered = FALSE /\ lost = FALSE /\ refusedForm = FALSE /\ told = "status"
  /\ starts = 0

-----------------------------------------------------------------------------
(* Outcomes *)

Answer(content) ==
  /\ pc' = "idle"
  /\ report' = [call |-> call, ok |-> TRUE, cause |-> "none", marked |-> FALSE,
                content |-> content]

Error(c, cause, marked) ==
  /\ pc' = "idle"
  /\ report' = [call |-> c, ok |-> FALSE, cause |-> cause, marked |-> marked,
                content |-> NoPage]

Specialists == {"describe", "form"}

\* Every result has a size limit; one that exceeds it is an error, and the
\* session goes on.
Return(content) ==
  Answer(content) \/ Error(call, "too_large", call \in Specialists)

Observing == call = "navigate" /\ method = "read"

\* Mutant: the first navigation of a session counts, not that of its browser.
Mutant_KillKeepsFirst ==
  /\ browser' = "none" /\ page' = NoPage
  /\ navigated' = FALSE /\ currentUrl' = NoPage
  /\ UNCHANGED firstDone

Kill ==
  /\ browser' = "none" /\ page' = NoPage
  /\ navigated' = FALSE /\ firstDone' = FALSE /\ currentUrl' = NoPage

\* A request that raises: the required observation wraps whatever it was in an
\* error of its own, close swallows it.
Raise(cause) ==
  IF call = "close"
  THEN pc' = "closed" /\ UNCHANGED report
  ELSE Error(call, cause, cause = "infrastructure" /\ ~Observing)

-----------------------------------------------------------------------------
(* The calls of the model *)

Begin(c, m, to) ==
  /\ call' = c /\ method' = m /\ pc' = to
  /\ UNCHANGED report

Navigate ==
  /\ pc = "idle"
  /\ Begin("navigate", "navigate", "request")
  /\ UNCHANGED <<process, session, history, starts>>

\* Actions on the page are refused until a navigation has succeeded.
OnPage(c) ==
  /\ pc = "idle"
  /\ IF navigated
     THEN Begin(c, c, "request")
     ELSE Error(c, "refused", FALSE) /\ UNCHANGED <<call, method>>
  /\ UNCHANGED <<process, session, history, starts>>

Semantic(c) ==
  /\ pc = "idle"
  /\ IF navigated
     THEN Begin(c, "navigate", "fetch")
     ELSE Error(c, "refused", FALSE) /\ UNCHANGED <<call, method>>
  /\ UNCHANGED <<process, session, history, starts>>

\* The worker ends; without a browser there is nothing to close.
Close ==
  /\ pc = "idle"
  /\ IF browser = "none"
     THEN Begin("close", "close", "closed")
     ELSE Begin("close", "close", "request")
  /\ UNCHANGED <<process, session, history, starts>>

\* The controller fetches the current URL itself.  A description is answered
\* from what it got; a form submission goes on to navigate the browser.
Fetch ==
  /\ pc = "fetch"
  /\ \/ /\ call = "describe"
        /\ Return(currentUrl)
     \/ /\ call = "form"
        /\ pc' = "request" /\ UNCHANGED report
     \/ Error(call, "infrastructure", TRUE)
     \/ Error(call, "refused", FALSE)
  /\ UNCHANGED <<process, session, call, method, history, starts>>

-----------------------------------------------------------------------------
(* Requests to the browser *)

\* A session without a browser starts one.  One whose browser has exited
\* reports that and keeps it, unless it was observing.
Request ==
  /\ pc = "request"
  /\ \/ /\ browser = "none" /\ starts < MaxStarts
        /\ browser' = "alive" /\ page' = NoPage
        /\ starts' = starts + 1
        /\ delivered' = FALSE /\ lost' = FALSE /\ refusedForm' = FALSE
        /\ told' = "status"
        /\ pc' = "wait"
        /\ UNCHANGED <<session, report>>
     \/ /\ browser = "none"
        /\ Raise("infrastructure")
        /\ UNCHANGED <<process, session, history, starts>>
     \/ /\ browser = "alive"
        /\ pc' = "wait"
        /\ UNCHANGED <<process, session, report, history, starts>>
     \/ /\ browser = "exited"
        /\ Raise("infrastructure")
        /\ IF Observing \/ call = "close" THEN Kill ELSE UNCHANGED <<process, session>>
        /\ UNCHANGED <<history, starts>>
  /\ UNCHANGED <<call, method>>

\* Mutant: only a browser that exits ends the wait.
Mutant_RequestFails ==
  /\ pc = "wait" /\ browser = "exited"
  /\ Kill
  /\ Raise("infrastructure")
  /\ UNCHANGED <<call, method, history, starts>>

\* The deadline passes, the browser exits before it replies, or its reply is an
\* error or cannot be read: the browser is killed.
RequestFails ==
  /\ pc = "wait"
  /\ Kill
  /\ \E cause \in {"infrastructure", "protocol"} : Raise(cause)
  /\ UNCHANGED <<call, method, history, starts>>

Landings == Pages \cup {Refused, Away}

\* A page outside the origin ends the browser at once.
LandAway ==
  /\ Kill
  /\ Raise("protocol")
  /\ UNCHANGED <<method, history>>

Land(p) ==
  /\ navigated' = TRUE /\ currentUrl' = p
  /\ refusedForm' = FALSE /\ told' = "status"

\* An answer with no word of where the browser is now: it may have moved. The
\* session goes on as before.
Unreported ==
  /\ page' \in Landings \cup {page}
  /\ told' = IF page' = page THEN told ELSE "nothing"
  /\ UNCHANGED <<browser, session, method, delivered, lost, refusedForm>>

\* An answer with a URL and no status: the URL is kept, and the permission to act.
UrlOnly(p) ==
  /\ page' = p /\ currentUrl' = p
  /\ IF p = page THEN UNCHANGED <<told, refusedForm>>
                 ELSE told' = "url" /\ refusedForm' = FALSE
  /\ UNCHANGED <<browser, navigated, firstDone, method, delivered, lost>>

\* The first navigation of a browser goes on to observe; a form submission
\* reads the text of its page.  A refused page takes the permission to act
\* away, except when a form submission led there.  A result that is not an
\* object is an error, and the browser is kept.
NavigateReplies ==
  /\ pc = "wait" /\ method = "navigate" /\ browser = "alive"
  /\ \/ Unreported /\ Raise("protocol")
     \/ \E p \in Landings :
          \/ p = Away /\ LandAway
          \/ /\ p = Refused /\ call = "navigate"
             /\ page' = p /\ navigated' = FALSE /\ told' = "status"
             /\ Return(p)
             /\ UNCHANGED <<browser, firstDone, currentUrl, method, delivered, lost,
                            refusedForm>>
          \/ /\ p = Refused /\ call = "form"
             /\ page' = p /\ refusedForm' = TRUE /\ told' = "status"
             /\ Raise("protocol")
             /\ UNCHANGED <<browser, session, method, delivered, lost>>
          \/ /\ p \in Pages
             /\ page' = p
             /\ Land(p)
             /\ firstDone' = (firstDone \/ call = "navigate")
             /\ IF call = "form" \/ (Required /\ ~firstDone)
                THEN method' = "read" /\ pc' = "request" /\ UNCHANGED report
                ELSE Return(p) /\ UNCHANGED method
             /\ UNCHANGED <<browser, delivered, lost>>
  /\ UNCHANGED <<call, starts>>

\* The required observation reaches the model unless it is too large.
ReadReplies ==
  /\ pc = "wait" /\ method = "read" /\ browser = "alive"
  /\ Return(page)
  /\ delivered' = (delivered \/ (Observing /\ report'.ok))
  /\ lost' = (lost \/ (Observing /\ ~report'.ok))
  /\ UNCHANGED <<process, session, call, method, refusedForm, told, starts>>

\* Mutant: the status of a page reached by a click is not looked at.
Mutant_InteractReplies ==
  /\ pc = "wait" /\ method = "interact" /\ browser = "alive"
  /\ \E p \in Landings :
       \/ p = Away /\ LandAway
       \/ /\ p # Away
          /\ page' = p /\ currentUrl' = p /\ told' = "status"
          /\ Return(p)
          /\ UNCHANGED <<browser, navigated, firstDone, method, delivered, lost,
                         refusedForm>>
  /\ UNCHANGED <<call, starts>>

\* Mutant: the URL of a page reached by a click is not kept.
Mutant_InteractForgets ==
  /\ pc = "wait" /\ method = "interact" /\ browser = "alive"
  /\ \E p \in Landings :
       \/ p = Away /\ LandAway
       \/ /\ p # Away
          /\ page' = p /\ navigated' = (p \in Pages) /\ told' = "status"
          /\ Return(p)
          /\ UNCHANGED <<browser, firstDone, currentUrl, method, delivered, lost,
                         refusedForm>>
  /\ UNCHANGED <<call, starts>>

\* An interaction fails, or its answer says nothing of the page (a result that is
\* not an object, or one about the element), its URL only, or its status.
InteractReplies ==
  /\ pc = "wait" /\ method = "interact" /\ browser = "alive"
  /\ \/ Unreported /\ (Raise("protocol") \/ Return(page'))
     \/ \E p \in Landings :
          \/ p = Away /\ LandAway
          \/ p # Away /\ UrlOnly(p) /\ Return(p)
          \/ /\ p = Refused
             /\ page' = p /\ navigated' = FALSE /\ told' = "status"
             /\ Return(p)
             /\ UNCHANGED <<browser, firstDone, currentUrl, method, delivered, lost,
                            refusedForm>>
          \/ /\ p \in Pages
             /\ page' = p
             /\ Land(p)
             /\ Return(p)
             /\ UNCHANGED <<browser, firstDone, method, delivered, lost>>
  /\ UNCHANGED <<call, starts>>

CloseReplies ==
  /\ pc = "wait" /\ method = "close" /\ browser = "alive"
  /\ Kill
  /\ pc' = "closed"
  /\ UNCHANGED <<call, method, report, history, starts>>

\* The browser dies by itself, at any time.
BrowserExits ==
  /\ browser = "alive"
  /\ browser' = "exited"
  /\ UNCHANGED <<page, session, place, report, history, starts>>

-----------------------------------------------------------------------------

Model ==
  \/ Navigate \/ Close
  \/ \E c \in {"read", "interact"} : OnPage(c)
  \/ \E c \in Specialists : Semantic(c)

Browser == NavigateReplies \/ ReadReplies \/ InteractReplies \/ CloseReplies

Next == Model \/ Fetch \/ Request \/ RequestFails \/ Browser \/ BrowserExits

\* Every wait has a deadline; nobody relies on the browser or the model.
Spec == Init /\ [][Next]_vars /\ WF_vars(Fetch \/ Request \/ RequestFails)

-----------------------------------------------------------------------------
(* Properties *)

\* Between calls, a session that lets the model act is on a page it has
\* accepted, if the answer that led there told its status (_navigated, against
\* _check_navigate_result and _check_interaction_result); a refused form
\* submission is the exception. Without a status the session trusts the browser.
AcceptedPage ==
  /\ pc = "idle" /\ browser = "alive" /\ navigated /\ told = "status"
  => page \in Pages \/ refusedForm

\* A semantic specialist describes the page the live browser shows, however the
\* model got there, if the browser told its URL: a click that leads elsewhere and
\* answers about its element only, or a navigation whose result is no object, is
\* not seen (_current_url, against the page of the child).
SemanticPageShown ==
  /\ pc = "idle" /\ browser = "alive" /\ ~refusedForm /\ told # "nothing"
  /\ report.call \in Specialists /\ report.ok
  => report.content = page

\* Nothing of a page is answered before the required first observation of that
\* browser, also after a crash; only one that was too large is skipped.
ObservedBeforeActing ==
  /\ Required /\ pc = "idle" /\ browser = "alive"
  /\ report.ok /\ report.call # "navigate"
  => delivered \/ lost

\* A browser without a page is only ever asked to navigate or to close: no call
\* of the model acts on it in the belief that the page of the one before is still
\* there.
FreshBrowserNavigates ==
  pc = "wait" /\ browser = "alive" /\ page = NoPage => method \in {"navigate", "close"}

\* Every call is answered, whatever the browser does.
EveryCallAnswered == pc # "idle" ~> pc \in {"idle", "closed"}

\* A call that failed because the browser could not be started, hung or died
\* says so (notes/m3-browser-lifecycle-audit.md).
InfrastructureMarked == report.cause = "infrastructure" => report.marked
=============================================================================
