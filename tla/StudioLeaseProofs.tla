-------------------------- MODULE StudioLeaseProofs --------------------------
(***************************************************************************)
(* Theorems about StudioLease, for any number of browsers and pages.       *)
(***************************************************************************)
EXTENDS StudioLease, TLAPS

LeaseInv == TypeOK /\ OneBaton

\* At first nobody has control.
LEMMA LeaseInit == Init => LeaseInv
  <1>1. NoCall \in CallRecord /\ NoCall.at = "free"
    BY DEF NoCall, CallRecord
  <1> QED
    BY <1>1 DEF Init, LeaseInv, TypeOK, OneBaton

\* A request moves on: its page and its token stay.
LEMMA CallMoves ==
  ASSUME LeaseInv, NEW s \in Slots, call[s].at # "free",
         NEW at \in {"checked", "granted", "refused"},
         call' = [call EXCEPT ![s].at = at]
  PROVE  /\ call' \in [Slots -> CallRecord]
         /\ \A q \in Slots : call'[q].by = call[q].by /\ call'[q].token = call[q].token
         /\ \A q \in Slots : call'[q].at # "free" => call[q].at # "free"
  BY DEF LeaseInv, TypeOK, CallRecord

\* A request that is refused, checked or served changes nothing about control.
LEMMA MovesKeep ==
  ASSUME LeaseInv, NEW s \in Slots, call[s].at # "free",
         NEW at \in {"checked", "granted", "refused"},
         call' = [call EXCEPT ![s].at = at],
         UNCHANGED <<serverVars, pageVars>>
  PROVE  LeaseInv'
  BY CallMoves DEF LeaseInv, TypeOK, OneBaton, serverVars, pageVars

\* A claim hands the current token to its owner's browser or makes a new one.
LEMMA ClaimKeeps ==
  ASSUME LeaseInv, NEW s \in Slots, ClaimLease(s)
  PROVE  LeaseInv'
  <1> USE DEF LeaseInv, TypeOK
  <1> DEFINE b == BrowserOf[call[s].by]
  <1>1. b \in Browsers /\ call[s].by \in Tabs
    BY BrowserOfAssumption DEF ClaimLease
  <1>2. PICK token \in Tokens :
          /\ leaseToken' = token /\ leaseOwner' = b
          /\ call' = [call EXCEPT ![s] = [@ EXCEPT !.at = "granted", !.token = token]]
          /\ \/ token \notin Known
             \/ token = leaseToken /\ (call[s].token = leaseToken \/ leaseOwner = b)
    BY DEF ClaimLease, SameBrowser
  <1>3. UNCHANGED <<csrfTokens, cookie, stored, lease, opened>>
    BY DEF ClaimLease, pageVars
  <1>4. leaseLive' = TRUE
    BY <1>1 DEF ClaimLease
  <1>5. [call[s] EXCEPT !.at = "granted", !.token = token] \in CallRecord
    BY DEF CallRecord
  <1>6. /\ call' \in [Slots -> CallRecord]
        /\ \A q \in Slots : call'[q].by = call[q].by
        /\ call'[s].token = token
        /\ \A q \in Slots \ {s} : call'[q] = call[q]
    BY <1>2, <1>5 DEF CallRecord
  <1>7. TypeOK'
    BY <1>1, <1>2, <1>3, <1>4, <1>6 DEF ClaimLease
  <1>8. CASE token \notin Known
    <2>1. /\ \A t \in Tabs : lease[t] # token
          /\ \A c \in Browsers : stored[c] # token
          /\ \A q \in Slots : call[q].token # token
      BY <1>8 DEF Known
    <2> QED
      BY <1>2, <1>3, <1>6, <1>7, <2>1 DEF OneBaton
  <1>9. CASE token = leaseToken /\ (call[s].token = leaseToken \/ leaseOwner = b)
    <2>1. leaseToken # None /\ leaseOwner = b
      BY <1>9, NoneAssumption DEF OneBaton
    <2> QED
      BY <1>2, <1>3, <1>6, <1>7, <1>9, <2>1 DEF OneBaton
  <1> QED
    BY <1>2, <1>8, <1>9

\* Every step of a page, a request or the service keeps one baton.
LEMMA LeaseStep == LeaseInv /\ [Next]_vars => LeaseInv'
  <1> SUFFICES ASSUME LeaseInv, [Next]_vars PROVE LeaseInv'
    OBVIOUS
  <1>1. ASSUME NEW t \in Tabs, Open(t) PROVE LeaseInv'
    <2>1. BrowserOf[t] \in Browsers
      BY BrowserOfAssumption
    <2>2. call' \in [Slots -> CallRecord] /\ \A s \in Slots : call'[s] \in {call[s], NoCall}
      BY <1>1 DEF Open, LeaseInv, TypeOK, NoCall, CallRecord
    <2> QED
      BY <1>1, <2>1, <2>2 DEF Open, LeaseInv, TypeOK, OneBaton, NoCall
  <1>2. ASSUME NEW t \in Tabs, NEW op \in {"claim", "renew"} \cup Operations, Send(t, op)
        PROVE  LeaseInv'
    <2>1. PICK s \in Slots : call' = [call EXCEPT ![s] =
            [at |-> "sent", by |-> t, op |-> op, token |-> lease[t],
             csrf |-> cookie[BrowserOf[t]] = t]]
      BY <1>2 DEF Send
    <2> DEFINE new == [at |-> "sent", by |-> t, op |-> op, token |-> lease[t],
                       csrf |-> cookie[BrowserOf[t]] = t]
    <2>2. new \in CallRecord /\ new.by = t /\ new.token = lease[t]
      BY OperationsAssumption DEF CallRecord, LeaseInv, TypeOK
    <2>3. call' = [call EXCEPT ![s] = new]
      BY <2>1
    <2> HIDE DEF new
    <2>4. UNCHANGED <<serverVars, pageVars>>
      BY <1>2 DEF Send
    <2> QED
      BY <2>2, <2>3, <2>4 DEF LeaseInv, TypeOK, OneBaton, serverVars, pageVars
  <1>3. ASSUME NEW s \in Slots, Answer(s) PROVE LeaseInv'
    <2>1. call[s].by \in Tabs /\ BrowserOf[call[s].by] \in Browsers
      BY <1>3, BrowserOfAssumption DEF Answer, LeaseInv, TypeOK
    <2>2. call' \in [Slots -> CallRecord] /\ \A q \in Slots : call'[q] \in {call[q], NoCall}
      BY <1>3 DEF Answer, LeaseInv, TypeOK, NoCall, CallRecord
    <2>3. PICK token \in {call[s].token, None} :
            Remember(call[s].by, token) \/ UNCHANGED <<stored, lease>>
      BY <1>3 DEF Answer
    <2>4. token \in Tokens \cup {None}
      BY DEF LeaseInv, TypeOK, CallRecord
    <2>5. UNCHANGED <<serverVars, cookie, opened>>
      BY <1>3 DEF Answer
    <2> QED
      BY <2>1, <2>2, <2>3, <2>4, <2>5 DEF Remember, LeaseInv, TypeOK, OneBaton, NoCall, serverVars
  <1>4. ASSUME NEW s \in Slots, Refuse(s) \/ Require(s) \/ Mutate(s) \/ Halt(s) PROVE LeaseInv'
    BY <1>4, MovesKeep DEF Refuse, Require, Mutate, Halt
  <1>5. ASSUME NEW s \in Slots, Reset(s) PROVE LeaseInv'
    BY <1>5, CallMoves DEF Reset, LeaseInv, TypeOK, OneBaton, pageVars
  <1>6. CASE Expire
    BY <1>6 DEF Expire, LeaseInv, TypeOK, OneBaton, pageVars
  <1>7. CASE Restart
    <2>1. /\ call' \in [Slots -> CallRecord]
          /\ \A s \in Slots : call'[s].at # "free" => call'[s].by \in Tabs
      BY <1>7 DEF Restart, Failed, LeaseInv, TypeOK, CallRecord
    <2> QED
      BY <1>7, <2>1 DEF Restart, LeaseInv, TypeOK, OneBaton, pageVars
  <1>8. CASE UNCHANGED vars
    BY <1>8 DEF vars, serverVars, pageVars, LeaseInv, TypeOK, OneBaton
  <1> QED
    BY <1>1, <1>2, <1>3, <1>4, <1>5, <1>6, <1>7, <1>8, ClaimKeeps
    DEF Next, Claim, Renew, Press, Serve

\* Tokens, owners, sessions and requests keep their types through every restart and expiry.
THEOREM LeaseTyped == Spec => []TypeOK
  <1>1. LeaseInv => TypeOK
    BY DEF LeaseInv
  <1> QED
    BY LeaseInit, LeaseStep, <1>1, PTL DEF Spec

\* Control moves as one baton, whatever claims, renewals, resets, restarts and
\* late answers do: the current token is only ever with the owner's browser.
THEOREM BatonIsOne == Spec => []OneBaton
  <1>1. LeaseInv => OneBaton
    BY DEF LeaseInv
  <1> QED
    BY LeaseInit, LeaseStep, <1>1, PTL DEF Spec
=============================================================================
