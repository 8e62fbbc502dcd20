---------------------------- MODULE ThermalQmi ----------------------------
(***************************************************************************)
(* The thermal engine's client of the modem's mitigation service (TMD),     *)
(* thermal-engine/devices/devices-qmi.c, one of its three clnt_info: a      *)
(* thread registers with the service and sends it the levels requested so   *)
(* far; requests go to the service, or are recorded until it is there; when *)
(* it goes, the error callback starts a new thread to register again.       *)
(*                                                                         *)
(* The functions of QCCI are used as QcciClient and QcciTxn show them: a    *)
(* client fails its calls and runs its error callback after its server has  *)
(* gone, from its reader thread, or from qmi_client_register_error_cb when   *)
(* that comes second; a release waits for the reader thread.                *)
(***************************************************************************)
EXTENDS Integers, FiniteSets

CONSTANTS
  Devs,          \* the mitigation devices of this clnt_info; each has one requester at a time
  Levels,        \* the levels they may be set to, 0 among them
  Nobody,        \* the owner of a mutex that is free
  MaxServers,    \* bound on the starts of the service
  MaxRequests,   \* bound on the requests of the thermal engine
  MaxFails       \* bound on the failures of the system when a client is made

\* A thread makes one client and each client has a server of its own, hence the number of threads;
\* a client is named by its thread
Threads == 1..MaxServers + 1
NULL == 0

ASSUME ThermalAssumption ==
  /\ 0 \in Levels /\ MaxServers \in Nat /\ MaxRequests \in Nat /\ MaxFails \in Nat
  /\ Nobody \notin Devs \cup Threads
  /\ Devs \cap Threads = {}

VARIABLES
  server,      \* the service: its incarnation, whether it is up, its devices and their levels
  clnt,        \* the QCCI clients of the threads that register
  handle, thread, supported, prev_req_lvl, mtx,   \* clnt_info; mtx is the owner of the mutex
  reg,         \* the threads in qmi_register
  req,         \* per device: the request being made
  main,        \* the thread in qmi_communication_release
  left         \* what the bounds still allow

info == <<handle, thread, supported, prev_req_lvl, mtx>>
vars == <<server, clnt, info, reg, req, main, left>>

RegPcs == {"none", "start", "release", "notifier", "clear", "lookup", "wait", "init", "verify", "drop",
           "reg_cb", "join", "create", "set", "lock", "send", "sending", "return", "done"}

Server == [gen: 0..MaxServers, up: BOOLEAN, devs: SUBSET Devs, level: [Devs -> Levels]]
Client == [gen: 0..MaxServers, open: BOOLEAN, valid: BOOLEAN, err_cb: BOOLEAN,
           err_pending: BOOLEAN, reader: {"poll", "join", "create"}, join: Threads \cup {NULL}]
Registration == [pc: RegPcs, sig: BOOLEAN, gen: 0..MaxServers, todo: SUBSET Devs,
                 dev: Devs \cup {Nobody}, lvl: Levels, failed: BOOLEAN,
                 c: Threads \cup {NULL}, join: Threads \cup {NULL}]
Requester == [pc: {"idle", "lock", "sending"}, lvl: Levels, c: Threads \cup {NULL}]
Ending == [pc: {"run", "join", "release", "closed"}, c: Threads \cup {NULL}, join: Threads \cup {NULL}]

\* Everything has its type, and the owner of mtx is the thread between its lock and its unlock
TypeOK ==
  /\ server \in Server /\ clnt \in [Threads -> Client]
  /\ handle \in Threads \cup {NULL} /\ thread \in Threads
  /\ supported \subseteq Devs /\ prev_req_lvl \in [Devs -> Levels]
  /\ mtx \in Devs \cup Threads \cup {Nobody}
  /\ reg \in [Threads -> Registration]
  /\ req \in [Devs -> Requester]
  /\ main \in Ending
  /\ left \in [requests: 0..MaxRequests, fails: 0..MaxFails]
  /\ \A r \in Threads : mtx = r <=> reg[r].pc \in {"release", "send", "sending"}
  /\ \A d \in Devs : mtx = d <=> req[d].pc = "sending"

Idle == [pc |-> "idle", lvl |-> 0, c |-> NULL]

\* qmi_communication_init has started the first thread
Init ==
  /\ server = [gen |-> 0, up |-> FALSE, devs |-> {}, level |-> [d \in Devs |-> 0]]
  /\ clnt = [c \in Threads |-> [gen |-> 0, open |-> FALSE, valid |-> FALSE, err_cb |-> FALSE,
                                err_pending |-> FALSE, reader |-> "poll", join |-> NULL]]
  /\ handle = NULL /\ thread = 1 /\ supported = {} /\ prev_req_lvl = [d \in Devs |-> 0]
  /\ mtx = Nobody
  /\ reg = [r \in Threads |-> [pc |-> IF r = 1 THEN "start" ELSE "none", sig |-> FALSE, gen |-> 0,
                               todo |-> {}, dev |-> Nobody, lvl |-> 0, failed |-> FALSE, c |-> NULL, join |-> NULL]]
  /\ req = [d \in Devs |-> Idle]
  /\ main = [pc |-> "run", c |-> NULL, join |-> NULL]
  /\ left = [requests |-> MaxRequests, fails |-> MaxFails]

-----------------------------------------------------------------------------
(* The service and QCCI *)

\* The server of client c is there
Current(c) == server.up /\ server.gen = clnt[c].gen

\* A notifier signals its thread whenever the service comes or goes
Notified == [r \in Threads |->
  [reg[r] EXCEPT !.sig = @ \/ reg[r].pc \in {"clear", "lookup", "wait"}]]

ServerUp ==
  /\ ~server.up /\ server.gen < MaxServers
  /\ \E devs \in SUBSET Devs :
       server' = [gen |-> server.gen + 1, up |-> TRUE, devs |-> devs, level |-> [d \in Devs |-> 0]]
  /\ reg' = Notified
  /\ UNCHANGED <<clnt, info, req, main, left>>

ServerDown ==
  /\ server.up
  /\ server' = [server EXCEPT !.up = FALSE]
  /\ reg' = Notified
  /\ UNCHANGED <<clnt, info, req, main, left>>

\* A synchronous call on client c gets its answer; or it fails, since the client has been told
\* that the server has gone, or has been released
Connected == {c \in Threads : clnt[c].open /\ clnt[c].valid}
Answers(c) == c \in Connected /\ Current(c)
CallFails(c) == c \notin Connected

\* request_common_qmi with a result of the call
Requested(c, d, lvl) ==
  \/ /\ Answers(c)
     /\ server' = [server EXCEPT !.level[d] = IF d \in server.devs THEN lvl ELSE @]
  \/ CallFails(c) /\ UNCHANGED server

\* qmi_client_release: no call is under way, and the reader thread is not in a callback
Released(c) == (clnt[c].open => clnt[c].reader = "poll") /\ clnt' = [clnt EXCEPT ![c].open = FALSE]

\* pthread_join of thread t by thread r; it refuses to wait for itself
Joined(t, r) == reg[t].pc = "done" \/ t = r

\* The thread of client c learns that the server has gone: calls fail from now on, and the
\* error callback runs if there is one
ServerGone(c) ==
  /\ clnt[c].open /\ clnt[c].valid /\ ~Current(c) /\ clnt[c].reader = "poll"
  /\ clnt' = [clnt EXCEPT ![c].valid = FALSE,
                ![c].err_pending = ~clnt[c].err_cb,
                ![c].reader = IF clnt[c].err_cb THEN "join" ELSE "poll",
                ![c].join = IF clnt[c].err_cb THEN thread ELSE NULL]
  /\ UNCHANGED <<server, info, reg, req, main, left>>

-----------------------------------------------------------------------------
(* qmi_clnt_error_cb: wait for the thread that registered, start another one.  It runs in the *)
(* reader thread, and in the registering thread itself if the server went before.             *)

\* mutant: the old thread is not waited for
ErrorJoin_NoWait(c) ==
  /\ clnt[c].reader = "join"
  /\ supported' = {}
  /\ clnt' = [clnt EXCEPT ![c].reader = "create", ![c].join = NULL]
  /\ UNCHANGED <<server, handle, thread, prev_req_lvl, mtx, reg, req, main, left>>

ErrorJoin(c) ==
  /\ clnt[c].reader = "join" /\ Joined(clnt[c].join, NULL)
  /\ supported' = {}
  /\ clnt' = [clnt EXCEPT ![c].reader = "create", ![c].join = NULL]
  /\ UNCHANGED <<server, handle, thread, prev_req_lvl, mtx, reg, req, main, left>>

NewThread == CHOOSE r \in Threads : reg[r].pc = "none" /\ \A s \in 1..r - 1 : reg[s].pc # "none"

\* mutant: no thread is started
ErrorCreate_None(c) ==
  /\ clnt[c].reader = "create"
  /\ clnt' = [clnt EXCEPT ![c].reader = "poll"]
  /\ UNCHANGED <<server, info, reg, req, main, left>>

ErrorCreate(c) ==
  /\ clnt[c].reader = "create"
  /\ thread' = NewThread
  /\ reg' = [reg EXCEPT ![NewThread].pc = "start"]
  /\ clnt' = [clnt EXCEPT ![c].reader = "poll"]
  /\ UNCHANGED <<server, handle, supported, prev_req_lvl, mtx, req, main, left>>

OwnJoin(r) ==
  /\ reg[r].pc = "join" /\ Joined(reg[r].join, r)
  /\ supported' = {}
  /\ reg' = [reg EXCEPT ![r].pc = "create", ![r].join = NULL]
  /\ UNCHANGED <<server, clnt, handle, thread, prev_req_lvl, mtx, req, main, left>>

OwnCreate(r) ==
  /\ reg[r].pc = "create"
  /\ thread' = NewThread
  /\ reg' = [reg EXCEPT ![r].pc = "set", ![NewThread].pc = "start"]
  /\ UNCHANGED <<server, clnt, handle, supported, prev_req_lvl, mtx, req, main, left>>

-----------------------------------------------------------------------------
(* qmi_register *)

Go(r, pc) == reg' = [reg EXCEPT ![r].pc = pc]
Fail(r, pc) == reg' = [reg EXCEPT ![r].pc = pc, ![r].failed = TRUE]

\* Under mtx: release the old client
Start(r) ==
  /\ reg[r].pc = "start" /\ mtx = Nobody
  /\ IF handle = NULL THEN Go(r, "notifier") /\ UNCHANGED mtx
     ELSE mtx' = r /\ reg' = [reg EXCEPT ![r].pc = "release", ![r].c = handle]
  /\ UNCHANGED <<server, clnt, handle, thread, supported, prev_req_lvl, req, main, left>>

\* mutant: the handle is forgotten without a release
ReleaseOld_Kept(r) ==
  /\ reg[r].pc = "release"
  /\ handle' = NULL /\ mtx' = Nobody
  /\ reg' = [reg EXCEPT ![r].pc = "notifier", ![r].c = NULL]
  /\ UNCHANGED <<server, clnt, thread, supported, prev_req_lvl, req, main, left>>

ReleaseOld(r) ==
  /\ reg[r].pc = "release"
  /\ Released(reg[r].c)
  /\ handle' = NULL /\ mtx' = Nobody
  /\ reg' = [reg EXCEPT ![r].pc = "notifier", ![r].c = NULL]
  /\ UNCHANGED <<server, thread, supported, prev_req_lvl, req, main, left>>

\* The notifier, or the client, cannot be made: the thread ends
SystemFails(r) ==
  /\ reg[r].pc \in {"notifier", "init"} /\ left.fails > 0
  /\ left' = [left EXCEPT !.fails = @ - 1]
  /\ Fail(r, IF reg[r].pc = "notifier" THEN "done" ELSE "return")
  /\ UNCHANGED <<server, clnt, info, req, main>>

\* A service that is there has set the signal already
InitNotifier(r) ==
  /\ reg[r].pc = "notifier"
  /\ reg' = [reg EXCEPT ![r].pc = "clear", ![r].sig = server.up]
  /\ UNCHANGED <<server, clnt, info, req, main, left>>

ClearSignal(r) ==
  /\ reg[r].pc = "clear"
  /\ reg' = [reg EXCEPT ![r].pc = "lookup", ![r].sig = FALSE]
  /\ UNCHANGED <<server, clnt, info, req, main, left>>

Lookup(r) ==
  /\ reg[r].pc = "lookup"
  /\ reg' = [reg EXCEPT ![r].pc = IF server.up THEN "init" ELSE "wait",
                        ![r].gen = IF server.up THEN server.gen ELSE 0]
  /\ UNCHANGED <<server, clnt, info, req, main, left>>

WaitForServer(r) ==
  /\ reg[r].pc = "wait" /\ reg[r].sig
  /\ Go(r, "clear")
  /\ UNCHANGED <<server, clnt, info, req, main, left>>

\* qmi_client_init checks that the server that was found still exists; if not, the thread gives up
InitClient(r) ==
  /\ reg[r].pc = "init"
  /\ IF server.up /\ server.gen = reg[r].gen
     THEN /\ clnt' = [clnt EXCEPT ![r].gen = server.gen, ![r].open = TRUE, ![r].valid = TRUE]
          /\ Go(r, "verify")
     ELSE Fail(r, "return") /\ UNCHANGED clnt
  /\ UNCHANGED <<server, info, req, main, left>>

\* verify_tmd_device: a service without a device of ours is not used, nor one that does not answer
VerifyDevices(r) ==
  /\ reg[r].pc = "verify"
  /\ \/ /\ Answers(r)
        /\ supported' = supported \cup server.devs
        /\ Go(r, IF server.devs = {} THEN "drop" ELSE "reg_cb")
     \/ /\ CallFails(r)
        /\ Go(r, "drop")
        /\ UNCHANGED supported
  /\ UNCHANGED <<server, clnt, handle, thread, prev_req_lvl, mtx, req, main, left>>

Drop(r) ==
  /\ reg[r].pc = "drop"
  /\ Released(r)
  /\ Fail(r, "return")
  /\ UNCHANGED <<server, info, req, main, left>>

\* The result of qmi_client_register_error_cb is not looked at
RegisterErrorCb(r) ==
  /\ reg[r].pc = "reg_cb"
  /\ clnt' = [clnt EXCEPT ![r].err_cb = TRUE]
  /\ reg' = IF clnt[r].err_pending
            THEN [reg EXCEPT ![r].pc = "join", ![r].join = thread] ELSE [reg EXCEPT ![r].pc = "set"]
  /\ UNCHANGED <<server, info, req, main, left>>

\* without mtx
SetHandle(r) ==
  /\ reg[r].pc = "set"
  /\ handle' = r
  /\ Go(r, "lock")
  /\ UNCHANGED <<server, clnt, thread, supported, prev_req_lvl, mtx, req, main, left>>

\* mutant: the levels are sent without mtx
LockToSend_Unlocked(r) ==
  /\ reg[r].pc = "lock"
  /\ reg' = [reg EXCEPT ![r].pc = "send", ![r].todo = Devs]
  /\ UNCHANGED <<server, clnt, info, req, main, left>>

LockToSend(r) ==
  /\ reg[r].pc = "lock" /\ mtx = Nobody
  /\ mtx' = r
  /\ reg' = [reg EXCEPT ![r].pc = "send", ![r].todo = Devs]
  /\ UNCHANGED <<server, clnt, handle, thread, supported, prev_req_lvl, req, main, left>>

\* The level that was requested last is sent for each device that the service has
SendLevel(r, d) ==
  /\ reg[r].pc = "send" /\ d \in reg[r].todo
  /\ reg' = IF d \in supported
            THEN [reg EXCEPT ![r].pc = "sending", ![r].todo = @ \ {d}, ![r].dev = d,
                             ![r].lvl = prev_req_lvl[d], ![r].c = handle]
            ELSE [reg EXCEPT ![r].todo = @ \ {d}]
  /\ UNCHANGED <<server, clnt, info, req, main, left>>

LevelSent(r) ==
  /\ reg[r].pc = "sending"
  /\ Requested(reg[r].c, reg[r].dev, reg[r].lvl)
  /\ reg' = [reg EXCEPT ![r].pc = "send", ![r].dev = Nobody, ![r].lvl = 0, ![r].c = NULL]
  /\ UNCHANGED <<clnt, info, req, main, left>>

\* mutant: mtx stays locked
UnlockSend_Kept(r) ==
  /\ reg[r].pc = "send" /\ reg[r].todo = {}
  /\ Go(r, "return")
  /\ UNCHANGED <<server, clnt, info, req, main, left>>

UnlockSend(r) ==
  /\ reg[r].pc = "send" /\ reg[r].todo = {}
  /\ mtx' = Nobody
  /\ Go(r, "return")
  /\ UNCHANGED <<server, clnt, handle, thread, supported, prev_req_lvl, req, main, left>>

\* The notifier is released and the thread ends
Return(r) ==
  /\ reg[r].pc = "return"
  /\ reg' = [reg EXCEPT ![r].pc = "done", ![r].sig = FALSE]
  /\ UNCHANGED <<server, clnt, info, req, main, left>>

-----------------------------------------------------------------------------
(* modem_request, fusion_modem_request, and vdd_restrict_qmi_request for this clnt_info *)

Request(d, lvl) ==
  /\ main.pc = "run" /\ req[d].pc = "idle" /\ left.requests > 0
  /\ req' = [req EXCEPT ![d] = [Idle EXCEPT !.pc = "lock", !.lvl = lvl]]
  /\ left' = [left EXCEPT !.requests = @ - 1]
  /\ UNCHANGED <<server, clnt, info, reg, main>>

\* Without a client the level is recorded only
LockRequest(d) ==
  /\ req[d].pc = "lock" /\ mtx = Nobody
  /\ \/ /\ handle = NULL
        /\ prev_req_lvl' = [prev_req_lvl EXCEPT ![d] = req[d].lvl]
        /\ req' = [req EXCEPT ![d] = Idle]
        /\ UNCHANGED mtx
     \/ /\ handle # NULL
        /\ mtx' = d
        /\ req' = [req EXCEPT ![d].pc = "sending", ![d].c = handle]
        /\ UNCHANGED prev_req_lvl
  /\ UNCHANGED <<server, clnt, handle, thread, supported, reg, main, left>>

\* mutant: the level is recorded only if there is no client
EndRequest_NotSaved(d) ==
  /\ req[d].pc = "sending"
  /\ Requested(req[d].c, d, req[d].lvl)
  /\ mtx' = Nobody
  /\ req' = [req EXCEPT ![d] = Idle]
  /\ UNCHANGED <<clnt, handle, thread, supported, prev_req_lvl, reg, main, left>>

\* Whatever came of it, the level is recorded for the next registration
EndRequest(d) ==
  /\ req[d].pc = "sending"
  /\ Requested(req[d].c, d, req[d].lvl)
  /\ prev_req_lvl' = [prev_req_lvl EXCEPT ![d] = req[d].lvl]
  /\ mtx' = Nobody
  /\ req' = [req EXCEPT ![d] = Idle]
  /\ UNCHANGED <<clnt, handle, thread, supported, reg, main, left>>

-----------------------------------------------------------------------------
(* qmi_communication_release, "called after use of client handles is complete" *)

Close ==
  /\ main.pc = "run" /\ \A d \in Devs : req[d].pc = "idle"
  /\ main' = [main EXCEPT !.pc = "join", !.join = thread]
  /\ UNCHANGED <<server, clnt, info, reg, req, left>>

JoinThread ==
  /\ main.pc = "join" /\ Joined(main.join, NULL)
  /\ main' = [pc |-> IF handle = NULL THEN "closed" ELSE "release", c |-> handle, join |-> NULL]
  /\ UNCHANGED <<server, clnt, info, reg, req, left>>

ReleaseHandle ==
  /\ main.pc = "release"
  /\ Released(main.c)
  /\ handle' = NULL
  /\ main' = [main EXCEPT !.pc = "closed", !.c = NULL]
  /\ UNCHANGED <<server, thread, supported, prev_req_lvl, mtx, reg, req, left>>

-----------------------------------------------------------------------------
RegStep(r) ==
  \/ Start(r) \/ ReleaseOld(r) \/ InitNotifier(r) \/ ClearSignal(r) \/ Lookup(r) \/ WaitForServer(r)
  \/ InitClient(r) \/ VerifyDevices(r) \/ Drop(r) \/ RegisterErrorCb(r) \/ OwnJoin(r) \/ OwnCreate(r)
  \/ SetHandle(r) \/ LockToSend(r) \/ (\E d \in Devs : SendLevel(r, d)) \/ LevelSent(r)
  \/ UnlockSend(r) \/ Return(r)

ReaderStep(c) == ServerGone(c) \/ ErrorJoin(c) \/ ErrorCreate(c)

RequestStep(d) == LockRequest(d) \/ EndRequest(d)

Next ==
  \/ ServerUp \/ ServerDown
  \/ \E r \in Threads : RegStep(r) \/ SystemFails(r) \/ ReaderStep(r)
  \/ \E d \in Devs : RequestStep(d) \/ \E lvl \in Levels : Request(d, lvl)
  \/ Close \/ JoinThread \/ ReleaseHandle

Spec == Init /\ [][Next]_vars

\* Threads run, the router tells clients of their server's end, and the service answers while it is up
FairSpec ==
  /\ Spec
  /\ \A r \in Threads : WF_vars(RegStep(r)) /\ WF_vars(ReaderStep(r))
  /\ \A d \in Devs : WF_vars(RequestStep(d))
  /\ WF_vars(JoinThread \/ ReleaseHandle)

-----------------------------------------------------------------------------
(* Properties *)

\* The server went between the check in qmi_client_init and the registration of the error callback:
\* the callback runs in the registering thread, which cannot wait for itself, so that a second thread
\* registers while the first one still publishes its dead client.
TwoThreads == \E r \in Threads : clnt[r].err_cb /\ clnt[r].err_pending

\* The thread that was to register has ended without a client, and no other one will be started.
GaveUp == reg[thread].pc = "done" /\ reg[thread].failed

\* The service has the levels that were requested last.
InStep == \A d \in server.devs : server.level[d] = prev_req_lvl[d]

\* Whenever nobody holds mtx and the registration is complete, the service is in step: no request that
\* came while the client was made or the levels were sent is lost, or undone by an older one.
RequestsInStep ==
  mtx = Nobody /\ Answers(handle) /\ reg[handle].pc \in {"return", "done"}
    => InStep

\* The error callback and the threads in qmi_register take turns: what they change without mtx (thread,
\* supported, handle) is not changed by two at a time.
OneAtATime ==
  ~TwoThreads /\ main.pc = "run" =>
    Cardinality({r \in Threads : reg[r].pc \notin {"none", "done"}}
                \cup {c \in Threads : clnt[c].reader = "create"}) <= 1

\* A client is in use, being made or released: none is left behind when the service goes and comes.
NothingLeaked ==
  ~TwoThreads /\ main.pc = "run" =>
    \A c \in Threads : clnt[c].open => c = handle \/ reg[c].pc \in {"verify", "drop", "reg_cb", "set"}

\* "Save previous request to handle subsytem restart, and requests prior to QMI service being available":
\* a service that stays up gets the last requests, unless the registration was given up.
Mitigates ==
  []<>(~server.up \/ GaveUp \/ TwoThreads \/ main.pc # "run" \/
       (InStep /\ Answers(handle)))

\* A request returns although its call has no time-out: the service answers or is reported gone, and
\* no thread keeps mtx.
RequestReturns == \A d \in Devs : req[d].pc = "lock" ~> req[d].pc = "idle"

=============================================================================
