---------------------------- MODULE QmiRequests ----------------------------
(***************************************************************************)
(* What the users of a QMI client may rely on (qmi_client.h): how a call    *)
(* returns, when the response buffer may be written, what the callback is   *)
(* told and what a deletion means.  Which lists a request is on, who holds  *)
(* it and which thread ends it is left to QcciTxn, which implements this.   *)
(***************************************************************************)
EXTENDS Naturals

CONSTANT Requests

VARIABLES
  kind,        \* of the request: synchronous, asynchronous
  call,        \* how the call that made the request stands
  writes,      \* how often the response buffer was written
  callbacks,   \* how often the callback ran
  deleted      \* what the deletion of the request reported

vars == <<kind, call, writes, callbacks, deleted>>

Init ==
  /\ kind \in [Requests -> {"sync", "async"}]
  /\ call = [n \in Requests |-> "none"]
  /\ writes = [n \in Requests |-> 0]
  /\ callbacks = [n \in Requests |-> 0]
  /\ deleted = [n \in Requests |-> "no"]

Call(n) ==
  /\ call[n] = "none"
  /\ call' = [call EXCEPT ![n] = "calling"]
  /\ \E k \in {"sync", "async"} : kind' = [kind EXCEPT ![n] = k]
  /\ UNCHANGED <<writes, callbacks, deleted>>

\* The request has not ended
Open(n) == writes[n] = 0 /\ callbacks[n] = 0 /\ deleted[n] # "ok"

\* The response is decoded into the buffer and, if asynchronous, reported in the same breath
Respond(n) ==
  /\ Open(n)
  /\ call[n] = "calling" \/ (kind[n] = "async" /\ call[n] = "sent")
  /\ writes' = [writes EXCEPT ![n] = 1]
  /\ callbacks' = IF kind[n] = "async" THEN [callbacks EXCEPT ![n] = 1] ELSE callbacks
  /\ UNCHANGED <<kind, call, deleted>>

\* The callback reports that there will be no response; it may do so even when the call was
\* or is going to be refused
Fail(n) ==
  /\ Open(n) /\ kind[n] = "async" /\ call[n] # "none"
  /\ callbacks' = [callbacks EXCEPT ![n] = 1]
  /\ UNCHANGED <<kind, call, writes, deleted>>

\* A synchronous call succeeds if and only if it has a response, unless it times out; an
\* asynchronous one is not refused once there was a response.
ReturnCodes(n) ==
  IF kind[n] = "async" THEN (IF writes[n] = 0 THEN {"sent", "refused"} ELSE {"sent"})
  ELSE IF writes[n] = 1 THEN {"ok", "timeout"} ELSE {"error", "timeout"}

Return(n) ==
  /\ call[n] = "calling"
  /\ \E r \in ReturnCodes(n) : call' = [call EXCEPT ![n] = r]
  /\ UNCHANGED <<kind, writes, callbacks, deleted>>

\* A deletion that succeeds is the end of the request.  One that comes too late says so: the
\* callback has run or will run.
Delete(n) ==
  /\ kind[n] = "async" /\ call[n] = "sent" /\ deleted[n] = "no"
  /\ \/ /\ callbacks[n] = 0
        /\ deleted' = [deleted EXCEPT ![n] = "ok"]
     \/ deleted' = [deleted EXCEPT ![n] = "invalid"]
  /\ UNCHANGED <<kind, call, writes, callbacks>>

Next == \E n \in Requests : Call(n) \/ Respond(n) \/ Fail(n) \/ Return(n) \/ Delete(n)

Spec == Init /\ [][Next]_vars
=============================================================================
