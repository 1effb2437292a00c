----------------------------- MODULE StudioLease -----------------------------
(***************************************************************************)
(* Who may control the arm: the controller lease of PoLiMa Studio          *)
(* (claim_lease and require_lease in studio/runtime.py, mutation and the   *)
(* routes in studio/app.py) together with the pages that hold it           *)
(* (studio-ui/src/main.jsx): each page keeps the lease in React state and  *)
(* in the localStorage its browser's pages share, renews it on a timer and *)
(* sends it with every request.                                            *)
(***************************************************************************)
EXTENDS Naturals

CONSTANTS
    Tabs,       \* open pages
    Browsers,   \* browsers, each a localStorage, a cookie jar and a browser id
    BrowserOf,  \* the browser a page is open in
    Tokens,     \* lease tokens; one that nobody knows is as good as new
    Slots,      \* requests under way at a time
    Operations, \* what the users do in this instance
    Restarts,   \* whether the service restarts
    None

ASSUME NoneAssumption == None \notin (Tabs \cup Browsers \cup Tokens)
ASSUME BrowserOfAssumption == BrowserOf \in [Tabs -> Browsers]
ASSUME OperationsAssumption == Operations \subseteq {"mutate", "halt", "reset"}
ASSUME RestartsAssumption == Restarts \in BOOLEAN

VARIABLES
    leaseToken, leaseOwner, leaseLive,  \* _lease_token, _lease_owner, not expired
    csrfTokens,  \* pages whose CSRF token the service knows
    cookie,      \* the page whose CSRF token is a browser's polima_csrf cookie
    stored,      \* a browser's localStorage entry for the lease
    lease,       \* a page's lease state
    opened,      \* pages that have loaded
    call         \* requests under way

serverVars == <<leaseToken, leaseOwner, leaseLive, csrfTokens>>
pageVars   == <<cookie, stored, lease, opened>>
vars == <<serverVars, pageVars, call>>

NoCall == [at |-> "free", by |-> None, op |-> None, token |-> None, csrf |-> FALSE]

\* Tokens somebody has or is about to get.
Known ==
    {leaseToken} \cup {stored[b] : b \in Browsers} \cup {lease[t] : t \in Tabs}
                 \cup {call[s].token : s \in Slots}

Init ==
    /\ leaseToken = None
    /\ leaseOwner = None
    /\ leaseLive = FALSE
    /\ csrfTokens = {}
    /\ cookie = [b \in Browsers |-> None]
    /\ stored = [b \in Browsers |-> None]
    /\ lease = [t \in Tabs |-> None]
    /\ opened = {}
    /\ call = [s \in Slots |-> NoCall]

-----------------------------------------------------------------------------
(* Pages *)

\* A page loads or reloads: it takes up its browser's stored lease, and its new
\* CSRF token becomes the browser's cookie.  What an older load had sent is lost.
Open(t) ==
    /\ lease' = [lease EXCEPT ![t] = stored[BrowserOf[t]]]
    /\ opened' = opened \cup {t}
    /\ csrfTokens' = csrfTokens \cup {t}
    /\ cookie' = [cookie EXCEPT ![BrowserOf[t]] = t]
    /\ call' = [s \in Slots |-> IF call[s].by = t THEN NoCall ELSE call[s]]
    /\ UNCHANGED <<leaseToken, leaseOwner, leaseLive, stored>>

Send(t, op) ==
    /\ t \in opened
    /\ \E s \in Slots :
         /\ call[s].at = "free"
         /\ call' = [call EXCEPT ![s] =
                       [at |-> "sent", by |-> t, op |-> op, token |-> lease[t],
                        csrf |-> cookie[BrowserOf[t]] = t]]
    /\ UNCHANGED <<serverVars, pageVars>>

\* "Take Operator Control" is shown to a page that thinks it has none.
Claim(t) == lease[t] = None /\ Send(t, "claim")

\* The 15 second timer of a page that thinks it has control.
Renew(t) ==
    /\ lease[t] # None
    /\ \A s \in Slots : ~(call[s].by = t /\ call[s].op = "renew")  \* bound
    /\ Send(t, "renew")

\* Emergency Halt and Reset are for everybody, the rest for the controller.
Press(t, op) ==
    /\ op \in Operations
    /\ op = "mutate" => lease[t] # None
    /\ Send(t, op)

\* The answer arrives: rememberLease, forgetLease or an error message.  The mutant
\* never forgets.
RememberAlways(t, token) ==
    /\ stored' = [stored EXCEPT ![BrowserOf[t]] = IF token = None THEN @ ELSE token]
    /\ lease' = [lease EXCEPT ![t] = IF token = None THEN @ ELSE token]
Remember(t, token) ==
    /\ stored' = [stored EXCEPT ![BrowserOf[t]] = token]
    /\ lease' = [lease EXCEPT ![t] = token]

Answer(s) ==
    /\ call[s].at \in {"granted", "refused"}
    /\ CASE call[s].op \in {"claim", "renew"} /\ call[s].at = "granted" ->
                Remember(call[s].by, call[s].token)
         [] call[s].op = "renew" /\ call[s].at = "refused" ->
                Remember(call[s].by, None)
         [] OTHER -> UNCHANGED <<stored, lease>>
    /\ call' = [call EXCEPT ![s] = NoCall]
    /\ UNCHANGED <<serverVars, cookie, opened>>

-----------------------------------------------------------------------------
(* The service *)

\* mutation's double-submit check: cookie, header and the tokens issued.
CsrfValid(s) == call[s].csrf /\ call[s].by \in csrfTokens

Refuse(s) ==
    /\ call[s].at = "sent"
    /\ ~CsrfValid(s)
    /\ call' = [call EXCEPT ![s].at = "refused"]
    /\ UNCHANGED <<serverVars, pageVars>>

\* owner and owner == _lease_owner.  The mutant takes any named browser for the
\* owner's.
SameBrowserAny(b) == leaseOwner # None
SameBrowser(b) == leaseOwner = b

\* claim_lease: a new token unless the caller has the current one or is another
\* page of the same browser.
ClaimLease(s) ==
    /\ call[s].at = "sent" /\ call[s].op \in {"claim", "renew"}
    /\ CsrfValid(s)
    /\ LET b == BrowserOf[call[s].by]
           previous == call[s].token
           kept == leaseToken # None /\ (previous = leaseToken \/ SameBrowser(b))
       IN  /\ \E token \in IF kept THEN {leaseToken} ELSE Tokens \ Known :
                /\ leaseToken' = token
                /\ call' = [call EXCEPT ![s] = [@ EXCEPT !.at = "granted", !.token = token]]
           /\ leaseOwner' = b
    /\ leaseLive' = TRUE
    /\ UNCHANGED <<csrfTokens, pageVars>>

LeaseValid(token) == token # None /\ token = leaseToken /\ leaseLive

\* require_lease, and the handler afterwards, without the lock in between.
Require(s) ==
    /\ call[s].at = "sent" /\ call[s].op = "mutate"
    /\ CsrfValid(s)
    /\ call' = [call EXCEPT ![s].at = IF LeaseValid(call[s].token) THEN "checked"
                                                                  ELSE "refused"]
    /\ UNCHANGED <<serverVars, pageVars>>

Mutate(s) ==
    /\ call[s].at = "checked"
    /\ call' = [call EXCEPT ![s].at = "granted"]
    /\ UNCHANGED <<serverVars, pageVars>>

\* halt takes no lease.
Halt(s) ==
    /\ call[s].at = "sent" /\ call[s].op = "halt"
    /\ CsrfValid(s)
    /\ call' = [call EXCEPT ![s].at = "granted"]
    /\ UNCHANGED <<serverVars, pageVars>>

\* The end of reset drops the lease.
Reset(s) ==
    /\ call[s].at = "sent" /\ call[s].op = "reset"
    /\ CsrfValid(s)
    /\ call' = [call EXCEPT ![s].at = "granted"]
    /\ leaseToken' = None
    /\ leaseOwner' = None
    /\ leaseLive' = FALSE
    /\ UNCHANGED <<csrfTokens, pageVars>>

\* 30 seconds without a claim.
Expire ==
    /\ leaseLive
    /\ leaseLive' = FALSE
    /\ UNCHANGED <<leaseToken, leaseOwner, csrfTokens, pageVars, call>>

\* A request the service did not get to answer.  The mutant loses its page.
FailedForgotten(c) == [NoCall EXCEPT !.at = "refused"]
Failed(c) == [c EXCEPT !.at = "refused"]

\* The service restarts: lease and CSRF tokens are gone, what was under way fails.
Restart ==
    /\ Restarts
    /\ leaseToken' = None
    /\ leaseOwner' = None
    /\ leaseLive' = FALSE
    /\ csrfTokens' = {}
    /\ call' = [s \in Slots |-> IF call[s].at \in {"sent", "checked"}
                                THEN Failed(call[s])
                                ELSE call[s]]
    /\ UNCHANGED pageVars

Serve(s) ==
    \/ Refuse(s) \/ ClaimLease(s) \/ Require(s) \/ Mutate(s) \/ Halt(s) \/ Reset(s)
    \/ Answer(s)

Next ==
    \/ \E t \in Tabs : Open(t) \/ Claim(t) \/ Renew(t)
    \/ \E t \in Tabs, op \in Operations : Press(t, op)
    \/ \E s \in Slots : Serve(s)
    \/ Expire
    \/ Restart

Spec == Init /\ [][Next]_vars

\* The service answers every request, and each page's renewal timer keeps firing.
FairSpec ==
    /\ Spec
    /\ \A s \in Slots : WF_vars(Serve(s))
    /\ \A t \in Tabs : SF_vars(Renew(t))

-----------------------------------------------------------------------------
(* Properties *)

CallRecord == [at: {"free", "sent", "checked", "granted", "refused"},
               by: Tabs \cup {None}, op: {"claim", "renew", "mutate", "halt", "reset", None},
               token: Tokens \cup {None}, csrf: BOOLEAN]

\* Types; a request under way is some page's.
TypeOK ==
    /\ leaseToken \in Tokens \cup {None}
    /\ leaseOwner \in Browsers \cup {None}
    /\ leaseLive \in BOOLEAN
    /\ csrfTokens \subseteq Tabs
    /\ cookie \in [Browsers -> Tabs \cup {None}]
    /\ stored \in [Browsers -> Tokens \cup {None}]
    /\ lease \in [Tabs -> Tokens \cup {None}]
    /\ opened \subseteq Tabs
    /\ call \in [Slots -> CallRecord]
    /\ \A s \in Slots : call[s].at # "free" => call[s].by \in Tabs

\* Control moves as one baton: whoever has the current token, in a page, in
\* localStorage, in a request or in an answer on its way, is the owner's
\* browser, however claims, renewals, resets, restarts and late answers
\* interleave (runtime.py:136-150; "One browser owns the renewable controller
\* lease", docs/polima-studio.md:28).
OneBaton ==
    leaseToken # None =>
        /\ \A t \in Tabs : lease[t] = leaseToken => BrowserOf[t] = leaseOwner
        /\ \A b \in Browsers : stored[b] = leaseToken => b = leaseOwner
        /\ \A s \in Slots : call[s].token = leaseToken => BrowserOf[call[s].by] = leaseOwner

\* A page that wrongly thinks it has control finds out, once resets, restarts
\* and reloads stop: its token becomes current again, or it forgets it, or another
\* browser has taken over (runtime.py:131-148, main.jsx:104-111).
ResetsStop  == <>[][leaseToken' # None]_leaseToken
ReloadsStop == <>[][\A t \in Tabs : ~Open(t)]_vars

StaleLeaseHeals ==
    ResetsStop /\ ReloadsStop =>
        \A t \in Tabs :
            (lease[t] # None /\ lease[t] # leaseToken)
                ~> \/ lease[t] = None \/ lease[t] = leaseToken
                   \/ leaseOwner \notin {BrowserOf[t], None}
=============================================================================
