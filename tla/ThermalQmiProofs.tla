----------------------------- MODULE ThermalQmiProofs -----------------------------
(***************************************************************************)
(* The safety properties of ThermalQmi, proved.  First what each action does *)
(* to the variables, then one lemma per part of the inductive invariant with  *)
(* one step per action, then the theorems.                                    *)
(***************************************************************************)
EXTENDS ThermalQmiInv, FiniteSetTheorems, TLAPS

(* Names for what steps have in common. *)

\* Registering thread r goes from a to b.
Goes(r, a, b) ==
  /\ reg[r].pc = a /\ reg'[r].pc = b
  /\ reg' \in [Threads -> Registration]
  /\ \A s \in Threads : s # r => reg'[s] = reg[s]
\* The local variables of its registration stay as they are.
Keeps(r) ==
  /\ reg'[r].todo = reg[r].todo /\ reg'[r].dev = reg[r].dev /\ reg'[r].lvl = reg[r].lvl
  /\ reg'[r].c = reg[r].c /\ reg'[r].join = reg[r].join
\* No client but c changes, and c is one for the same server.
OnlyClient(c) ==
  /\ clnt' \in [Threads -> Client]
  /\ \A e \in Threads : e # c => clnt'[e] = clnt[e]
SameServer(c) == clnt'[c].gen = clnt[c].gen
\* Client c is closed, or was.
Closes(c) ==
  /\ OnlyClient(c) /\ SameServer(c)
  /\ clnt[c].open => clnt[c].reader = "poll"
  /\ clnt'[c].open = FALSE /\ clnt'[c].valid = clnt[c].valid /\ clnt'[c].err_cb = clnt[c].err_cb
  /\ clnt'[c].err_pending = clnt[c].err_pending /\ clnt'[c].reader = clnt[c].reader
  /\ clnt'[c].join = clnt[c].join
  /\ ~clnt[c].open => clnt'[c] = clnt[c]
\* Nothing but that happens to the clients.
OnlyCloses ==
  \A s \in Threads :
    /\ clnt'[s].gen = clnt[s].gen /\ clnt'[s].valid = clnt[s].valid
    /\ clnt'[s].err_cb = clnt[s].err_cb
    /\ clnt'[s].err_pending = clnt[s].err_pending /\ clnt'[s].reader = clnt[s].reader
    /\ clnt'[s].join = clnt[s].join
    /\ clnt'[s].open => clnt[s].open
    /\ ~clnt[s].open => clnt'[s] = clnt[s]
\* A level is sent for device d through client c, or the client fails.
Sends(c, d, lvl) ==
  \/ CallFails(c) /\ UNCHANGED server
  \/ /\ Answers(c) /\ server' \in Server
     /\ server'.gen = server.gen /\ server'.up = server.up /\ server'.devs = server.devs
     /\ d \in server.devs => server'.level[d] = lvl
     /\ \A e \in Devs : e # d => server'.level[e] = server.level[e]

-----------------------------------------------------------------------------
(* Types of the parts. *)

\* The elements of the functions have their types.
LEMMA Elements ==
  ASSUME TypeOK
  PROVE  /\ \A r \in Threads : reg[r] \in Registration
         /\ \A c \in Threads : clnt[c] \in Client
         /\ server \in Server
  BY DEF TypeOK

\* Numbers are not model values.
LEMMA Names ==
  /\ NULL \notin Threads /\ Nobody \notin Threads /\ Nobody \notin Devs /\ Devs \cap Threads = {}
  /\ Threads \subseteq Nat /\ 1 \in Threads
  BY ThermalAssumption DEF Threads, NULL

\* One registration is replaced.
LEMMA SetReg ==
  ASSUME TypeOK, NEW r \in Threads, NEW x \in Registration, reg' = [reg EXCEPT ![r] = x]
  PROVE  /\ reg' \in [Threads -> Registration] /\ reg'[r] = x
         /\ \A s \in Threads : s # r => reg'[s] = reg[s]
  BY DEF TypeOK

\* One client is replaced.
LEMMA SetClient ==
  ASSUME TypeOK, NEW c \in Threads, NEW x \in Client, clnt' = [clnt EXCEPT ![c] = x]
  PROVE  OnlyClient(c) /\ clnt'[c] = x
  BY DEF TypeOK, OnlyClient

\* A thread that only changes its place.
LEMMA GoStep ==
  ASSUME TypeOK, NEW r \in Threads, NEW b \in RegPcs, Go(r, b)
  PROVE  Goes(r, reg[r].pc, b) /\ Keeps(r)
<1> DEFINE x == [reg[r] EXCEPT !.pc = b]
<1>1. reg[r] \in Registration
  BY Elements
<1>2. x \in Registration /\ x.pc = b /\ x.todo = reg[r].todo /\ x.dev = reg[r].dev
      /\ x.lvl = reg[r].lvl /\ x.c = reg[r].c /\ x.join = reg[r].join
  BY <1>1 DEF Registration
<1>3. reg' = [reg EXCEPT ![r] = x]
  BY DEF Go
<1> HIDE DEF x
<1> QED
  BY <1>2, <1>3, SetReg DEF Goes, Keeps

\* ... or that gives up.
LEMMA FailStep ==
  ASSUME TypeOK, NEW r \in Threads, NEW b \in RegPcs, Fail(r, b)
  PROVE  Goes(r, reg[r].pc, b) /\ Keeps(r)
<1> DEFINE x == [reg[r] EXCEPT !.pc = b, !.failed = TRUE]
<1>1. reg[r] \in Registration
  BY Elements
<1>2. x \in Registration /\ x.pc = b /\ x.todo = reg[r].todo /\ x.dev = reg[r].dev
      /\ x.lvl = reg[r].lvl /\ x.c = reg[r].c /\ x.join = reg[r].join
  BY <1>1 DEF Registration
<1>3. reg' = [reg EXCEPT ![r] = x]
  BY DEF Fail
<1> HIDE DEF x
<1> QED
  BY <1>2, <1>3, SetReg DEF Goes, Keeps

\* The release of a client.
LEMMA ReleasedStep ==
  ASSUME TypeOK, NEW c \in Threads, Released(c)
  PROVE  Closes(c)
<1> DEFINE x == [clnt[c] EXCEPT !.open = FALSE]
<1>1. clnt[c] \in Client
  BY Elements
<1>2. x \in Client /\ x.open = FALSE /\ x.valid = clnt[c].valid /\ x.err_cb = clnt[c].err_cb
      /\ x.err_pending = clnt[c].err_pending /\ x.reader = clnt[c].reader /\ x.join = clnt[c].join
      /\ x.gen = clnt[c].gen
  BY <1>1 DEF Client
<1>3. clnt' = [clnt EXCEPT ![c] = x]
  BY DEF Released
<1>4. ~clnt[c].open => x = clnt[c]
  BY <1>1 DEF Client
<1> HIDE DEF x
<1> QED
  BY <1>2, <1>3, <1>4, SetClient DEF Released, Closes, SameServer

\* The result of a call that sends a level.
LEMMA RequestedStep ==
  ASSUME TypeOK, NEW c, NEW d \in Devs, NEW lvl \in Levels, Requested(c, d, lvl)
  PROVE  Sends(c, d, lvl)
<1>1. CASE CallFails(c) /\ UNCHANGED server
  BY <1>1 DEF Sends
<1>2. CASE Answers(c) /\ server' = [server EXCEPT !.level[d] = IF d \in server.devs THEN lvl ELSE @]
  <2> DEFINE l == IF d \in server.devs THEN lvl ELSE server.level[d]
             f == [server.level EXCEPT ![d] = l]
  <2>1. server \in Server /\ server.level \in [Devs -> Levels]
    BY Elements DEF Server
  <2>2. l \in Levels /\ (d \in server.devs => l = lvl)
    BY <2>1
  <2>3. server' = [server EXCEPT !.level = f]
    BY <1>2, <2>1 DEF Server
  <2> HIDE DEF l
  <2>4. f \in [Devs -> Levels] /\ f[d] = l /\ \A e \in Devs : e # d => f[e] = server.level[e]
    BY <2>1, <2>2
  <2> HIDE DEF f
  <2>5. server' \in Server /\ server'.gen = server.gen /\ server'.up = server.up
        /\ server'.devs = server.devs /\ server'.level = f
    BY <2>1, <2>3, <2>4 DEF Server
  <2> QED
    BY <1>2, <2>2, <2>4, <2>5 DEF Sends
<1> QED
  BY <1>1, <1>2 DEF Requested

-----------------------------------------------------------------------------
(* What each action does. *)

\* The service and the signal of its notifiers.
LEMMA NotifiedIs ==
  ASSUME TypeOK, reg' = Notified
  PROVE  /\ reg' \in [Threads -> Registration]
         /\ \A r \in Threads : reg'[r].pc = reg[r].pc /\ Keeps(r)
<1>1. reg \in [Threads -> Registration]
  BY DEF TypeOK
<1>2. ASSUME NEW r \in Threads
      PROVE  reg'[r] \in Registration /\ reg'[r].pc = reg[r].pc /\ Keeps(r)
  <2> DEFINE z == reg[r].sig \/ reg[r].pc \in {"clear", "lookup", "wait"}
  <2>1. reg[r] \in Registration
    BY <1>1
  <2>2. reg'[r] = [reg[r] EXCEPT !.sig = z]
    BY DEF Notified
  <2>3. z \in BOOLEAN
    BY <2>1 DEF Registration
  <2> HIDE DEF z
  <2> QED
    BY <2>1, <2>2, <2>3 DEF Registration, Keeps
<1>3. reg' = [r \in Threads |-> reg'[r]]
  BY DEF Notified
<1> QED
  BY <1>2, <1>3

\* The service starts.
LEMMA ServerUpEffect ==
  ASSUME TypeOK, ServerUp
  PROVE  /\ server' \in Server /\ server.gen \in Nat /\ ~server.up /\ server'.up
         /\ server'.gen = server.gen + 1
         /\ reg' \in [Threads -> Registration]
         /\ \A r \in Threads : reg'[r].pc = reg[r].pc /\ Keeps(r)
         /\ UNCHANGED <<clnt, handle, thread, supported, prev_req_lvl, mtx, req, main, left>>
<1>1. server \in Server
  BY Elements
<1>2. server.gen \in Nat
  BY <1>1, ThermalAssumption DEF Server
<1>3. server' \in Server
  BY <1>1, ThermalAssumption DEF ServerUp, Server
<1>4. ~server.up /\ server'.up /\ server'.gen = server.gen + 1
  BY <1>1 DEF ServerUp, Server
<1> QED
  BY <1>2, <1>3, <1>4, NotifiedIs DEF ServerUp, info

\* The service goes.
LEMMA ServerDownEffect ==
  ASSUME TypeOK, ServerDown
  PROVE  /\ server' \in Server /\ server.gen \in Nat /\ server.up /\ ~server'.up
         /\ server'.gen = server.gen
         /\ reg' \in [Threads -> Registration]
         /\ \A r \in Threads : reg'[r].pc = reg[r].pc /\ Keeps(r)
         /\ UNCHANGED <<clnt, handle, thread, supported, prev_req_lvl, mtx, req, main, left>>
<1>1. server \in Server
  BY Elements
<1>2. server.gen \in Nat
  BY <1>1, ThermalAssumption DEF Server
<1>3. server' \in Server
  BY <1>1, ThermalAssumption DEF ServerDown, Server
<1>4. server.up /\ ~server'.up /\ server'.gen = server.gen
  BY <1>1 DEF ServerDown, Server
<1> QED
  BY <1>2, <1>3, <1>4, NotifiedIs DEF ServerDown, info

\* A thread starts.
LEMMA StartEffect ==
  ASSUME TypeOK, NEW r \in Threads, Start(r)
  PROVE  /\ mtx = Nobody
         /\ \/ handle = NULL /\ mtx' = mtx /\ Goes(r, "start", "notifier") /\ Keeps(r)
            \/ /\ handle # NULL /\ mtx' = r /\ Goes(r, "start", "release") /\ reg'[r].c = handle
               /\ reg'[r].todo = reg[r].todo /\ reg'[r].dev = reg[r].dev
               /\ reg'[r].lvl = reg[r].lvl /\ reg'[r].join = reg[r].join
         /\ UNCHANGED <<server, clnt, handle, thread, supported, prev_req_lvl, req, main, left>>
<1>1. CASE handle = NULL
  <2>1. "notifier" \in RegPcs
    BY DEF RegPcs
  <2> QED
    BY <1>1, <2>1, GoStep DEF Start, Goes, info
<1>2. CASE handle # NULL
  <2> DEFINE x == [reg[r] EXCEPT !.pc = "release", !.c = handle]
  <2>1. reg[r] \in Registration /\ handle \in Threads \cup {NULL}
    BY Elements DEF TypeOK
  <2>2. /\ x \in Registration /\ x.pc = "release" /\ x.c = handle /\ x.todo = reg[r].todo
        /\ x.dev = reg[r].dev /\ x.lvl = reg[r].lvl /\ x.join = reg[r].join
    BY <2>1 DEF Registration, RegPcs
  <2>3. reg' = [reg EXCEPT ![r] = x]
    BY <1>2 DEF Start
  <2> HIDE DEF x
  <2> QED
    BY <1>2, <2>2, <2>3, SetReg DEF Start, Goes, info
<1> QED
  BY <1>1, <1>2

\* The old client is released.
LEMMA ReleaseOldEffect ==
  ASSUME TypeOK, NEW r \in Threads, ReleaseOld(r)
  PROVE  /\ Goes(r, "release", "notifier")
         /\ reg'[r].todo = reg[r].todo /\ reg'[r].dev = reg[r].dev
         /\ reg'[r].lvl = reg[r].lvl /\ reg'[r].join = reg[r].join
         /\ \/ reg[r].c = NULL /\ UNCHANGED clnt
            \/ \E c \in Threads : c = reg[r].c /\ Closes(c)
         /\ handle' = NULL /\ mtx' = Nobody
         /\ UNCHANGED <<server, thread, supported, prev_req_lvl, req, main, left>>
<1> DEFINE x == [reg[r] EXCEPT !.pc = "notifier", !.c = NULL]
<1>1. reg[r] \in Registration
  BY Elements
<1>2. /\ x \in Registration /\ x.pc = "notifier" /\ x.todo = reg[r].todo /\ x.dev = reg[r].dev
      /\ x.lvl = reg[r].lvl /\ x.join = reg[r].join
  BY <1>1 DEF Registration, RegPcs
<1>3. reg' = [reg EXCEPT ![r] = x]
  BY DEF ReleaseOld
<1> HIDE DEF x
<1>4. Released(reg[r].c)
  BY DEF ReleaseOld
<1>5. ASSUME NEW c \in Threads, c = reg[r].c PROVE Closes(c)
  BY <1>4, <1>5, ReleasedStep
<1>6. ASSUME reg[r].c = NULL PROVE UNCHANGED clnt
  BY <1>4, <1>6, Names DEF Released, TypeOK
<1>7. reg[r].c \in Threads \cup {NULL}
  BY <1>1 DEF Registration
<1> QED
  BY <1>2, <1>3, <1>5, <1>6, <1>7, SetReg DEF ReleaseOld, Goes, info

\* The notifier is made.
LEMMA InitNotifierEffect ==
  ASSUME TypeOK, NEW r \in Threads, InitNotifier(r)
  PROVE  /\ Goes(r, "notifier", "clear") /\ Keeps(r)
        
         /\ UNCHANGED <<server, clnt, handle, thread, supported, prev_req_lvl, mtx, req, main, left>>
<1> DEFINE x == [reg[r] EXCEPT !.pc = "clear", !.sig = server.up]
<1>1. reg[r] \in Registration
  BY Elements
<1>2. x \in Registration /\ x.pc = "clear" /\ x.todo = reg[r].todo /\ x.dev = reg[r].dev
      /\ x.lvl = reg[r].lvl
      /\ x.c = reg[r].c /\ x.join = reg[r].join
  BY <1>1, Elements DEF Registration, RegPcs, Server
<1>3. reg' = [reg EXCEPT ![r] = x]
  BY DEF InitNotifier
<1> HIDE DEF x
<1> QED
  BY <1>2, <1>3, SetReg DEF InitNotifier, Goes, Keeps, info

\* The signal is cleared.
LEMMA ClearSignalEffect ==
  ASSUME TypeOK, NEW r \in Threads, ClearSignal(r)
  PROVE  /\ Goes(r, "clear", "lookup") /\ Keeps(r)
        
         /\ UNCHANGED <<server, clnt, handle, thread, supported, prev_req_lvl, mtx, req, main, left>>
<1> DEFINE x == [reg[r] EXCEPT !.pc = "lookup", !.sig = FALSE]
<1>1. reg[r] \in Registration
  BY Elements
<1>2. x \in Registration /\ x.pc = "lookup" /\ x.todo = reg[r].todo /\ x.dev = reg[r].dev
      /\ x.lvl = reg[r].lvl
      /\ x.c = reg[r].c /\ x.join = reg[r].join
  BY <1>1 DEF Registration, RegPcs
<1>3. reg' = [reg EXCEPT ![r] = x]
  BY DEF ClearSignal
<1> HIDE DEF x
<1> QED
  BY <1>2, <1>3, SetReg DEF ClearSignal, Goes, Keeps, info

\* A server is looked up.
LEMMA LookupEffect ==
  ASSUME TypeOK, NEW r \in Threads, Lookup(r)
  PROVE  /\ Goes(r, "lookup", "init") \/ Goes(r, "lookup", "wait")
         /\ Keeps(r)
        
         /\ UNCHANGED <<server, clnt, handle, thread, supported, prev_req_lvl, mtx, req, main, left>>
<1> DEFINE z == IF server.up THEN "init" ELSE "wait"
           g == IF server.up THEN server.gen ELSE 0
           x == [reg[r] EXCEPT !.pc = z, !.gen = g]
<1>1. reg[r] \in Registration /\ server \in Server
  BY Elements
<1>2. z \in {"init", "wait"} /\ g \in 0..MaxServers
  BY <1>1, ThermalAssumption DEF Server
<1>3. reg' = [reg EXCEPT ![r] = x]
  BY DEF Lookup
<1> HIDE DEF z, g
<1>4. x \in Registration /\ x.pc = z /\ x.todo = reg[r].todo /\ x.dev = reg[r].dev
      /\ x.lvl = reg[r].lvl
      /\ x.c = reg[r].c /\ x.join = reg[r].join
  BY <1>1, <1>2 DEF Registration, RegPcs
<1> HIDE DEF x
<1> QED
  BY <1>2, <1>3, <1>4, SetReg DEF Lookup, Goes, Keeps, info

\* The signal wakes the thread.
LEMMA WaitForServerEffect ==
  ASSUME TypeOK, NEW r \in Threads, WaitForServer(r)
  PROVE  /\ Goes(r, "wait", "clear") /\ Keeps(r)
        
         /\ UNCHANGED <<server, clnt, handle, thread, supported, prev_req_lvl, mtx, req, main, left>>
<1>1. "clear" \in RegPcs
  BY DEF RegPcs
<1> QED
  BY <1>1, GoStep DEF WaitForServer, Goes, info

\* The client is made, or its server has gone.
LEMMA InitClientEffect ==
  ASSUME TypeOK, NEW r \in Threads, InitClient(r)
  PROVE  /\ Keeps(r)
         /\ \/ Goes(r, "init", "return") /\ UNCHANGED clnt
            \/ /\ Goes(r, "init", "verify") /\ OnlyClient(r) /\ server.up
               /\ clnt'[r].gen = server.gen /\ clnt'[r].open = TRUE /\ clnt'[r].valid = TRUE
               /\ clnt'[r].err_cb = clnt[r].err_cb /\ clnt'[r].err_pending = clnt[r].err_pending
               /\ clnt'[r].reader = clnt[r].reader /\ clnt'[r].join = clnt[r].join
         /\ UNCHANGED <<server, handle, thread, supported, prev_req_lvl, mtx, req, main, left>>
<1>0. "verify" \in RegPcs /\ "return" \in RegPcs
  BY DEF RegPcs
<1>1. CASE server.up /\ server.gen = reg[r].gen
  <2> DEFINE x == [clnt[r] EXCEPT !.gen = server.gen, !.open = TRUE, !.valid = TRUE]
  <2>1. clnt[r] \in Client /\ server \in Server
    BY Elements
  <2>2. /\ x \in Client /\ x.gen = server.gen /\ x.open = TRUE /\ x.valid = TRUE
        /\ x.err_cb = clnt[r].err_cb /\ x.err_pending = clnt[r].err_pending
        /\ x.reader = clnt[r].reader /\ x.join = clnt[r].join
    BY <2>1 DEF Client, Server
  <2>3. clnt' = [clnt EXCEPT ![r] = x] /\ Go(r, "verify") /\ reg[r].pc = "init"
    BY <1>1 DEF InitClient
  <2> HIDE DEF x
  <2>4. Goes(r, "init", "verify") /\ Keeps(r)
    BY <1>0, <2>3, GoStep
  <2>5. OnlyClient(r) /\ clnt'[r] = x
    BY <2>2, <2>3, SetClient
  <2> QED
    BY <1>1, <2>2, <2>4, <2>5 DEF InitClient, info
<1>2. CASE ~(server.up /\ server.gen = reg[r].gen)
  BY <1>0, <1>2, FailStep DEF InitClient, Goes, info
<1> QED
  BY <1>1, <1>2

\* The devices of the service are asked for.
LEMMA VerifyDevicesEffect ==
  ASSUME TypeOK, NEW r \in Threads, VerifyDevices(r)
  PROVE  /\ Keeps(r)
         /\ \/ /\ Goes(r, "verify", "drop") \/ Goes(r, "verify", "reg_cb")
               /\ supported' = supported \cup server.devs
            \/ Goes(r, "verify", "drop") /\ UNCHANGED supported
         /\ UNCHANGED <<server, clnt, handle, thread, prev_req_lvl, mtx, req, main, left>>
<1>1. "drop" \in RegPcs /\ "reg_cb" \in RegPcs
  BY DEF RegPcs
<1>2. reg[r].pc = "verify"
  BY DEF VerifyDevices
<1>3. \/ (Go(r, "drop") \/ Go(r, "reg_cb")) /\ supported' = supported \cup server.devs
      \/ Go(r, "drop") /\ UNCHANGED supported
  BY DEF VerifyDevices
<1>4. Go(r, "drop") => Goes(r, "verify", "drop") /\ Keeps(r)
  BY <1>1, <1>2, GoStep
<1>5. Go(r, "reg_cb") => Goes(r, "verify", "reg_cb") /\ Keeps(r)
  BY <1>1, <1>2, GoStep
<1> QED
  BY <1>3, <1>4, <1>5 DEF VerifyDevices, info

\* The client is dropped.
LEMMA DropEffect ==
  ASSUME TypeOK, NEW r \in Threads, Drop(r)
  PROVE  /\ Goes(r, "drop", "return") /\ Keeps(r)
         /\ Closes(r)
         /\ UNCHANGED <<server, handle, thread, supported, prev_req_lvl, mtx, req, main, left>>
<1>1. "return" \in RegPcs
  BY DEF RegPcs
<1> QED
  BY <1>1, FailStep, ReleasedStep DEF Drop, Goes, info

\* The error callback is registered.
LEMMA RegisterErrorCbEffect ==
  ASSUME TypeOK, NEW r \in Threads, RegisterErrorCb(r)
  PROVE  /\ \/ clnt[r].err_pending /\ Goes(r, "reg_cb", "join") /\ reg'[r].join = thread
            \/ ~clnt[r].err_pending /\ Goes(r, "reg_cb", "set") /\ reg'[r].join = reg[r].join
         /\ reg'[r].todo = reg[r].todo /\ reg'[r].dev = reg[r].dev
         /\ reg'[r].lvl = reg[r].lvl /\ reg'[r].c = reg[r].c
         /\ OnlyClient(r) /\ SameServer(r)
         /\ clnt'[r].open = clnt[r].open /\ clnt'[r].valid = clnt[r].valid /\ clnt'[r].err_cb = TRUE
         /\ clnt'[r].err_pending = clnt[r].err_pending /\ clnt'[r].reader = clnt[r].reader
         /\ clnt'[r].join = clnt[r].join
         /\ UNCHANGED <<server, handle, thread, supported, prev_req_lvl, mtx, req, main, left>>
<1> DEFINE x == [reg[r] EXCEPT !.pc = "join", !.join = thread]
           y == [reg[r] EXCEPT !.pc = "set"]
           z == [clnt[r] EXCEPT !.err_cb = TRUE]
<1>1. reg[r] \in Registration /\ clnt[r] \in Client /\ thread \in Threads
  BY Elements DEF TypeOK
<1>2. x \in Registration /\ x.pc = "join" /\ x.join = thread /\ x.todo = reg[r].todo
      /\ x.dev = reg[r].dev /\ x.lvl = reg[r].lvl /\ x.c = reg[r].c
  BY <1>1 DEF Registration, RegPcs
<1>3. y \in Registration /\ y.pc = "set" /\ y.join = reg[r].join /\ y.todo = reg[r].todo
      /\ y.dev = reg[r].dev /\ y.lvl = reg[r].lvl /\ y.c = reg[r].c
  BY <1>1 DEF Registration, RegPcs
<1>4. z \in Client /\ z.gen = clnt[r].gen /\ z.open = clnt[r].open /\ z.valid = clnt[r].valid
      /\ z.err_cb = TRUE /\ z.err_pending = clnt[r].err_pending /\ z.reader = clnt[r].reader
      /\ z.join = clnt[r].join
  BY <1>1 DEF Client
<1>5. /\ clnt[r].err_pending => reg' = [reg EXCEPT ![r] = x]
      /\ ~clnt[r].err_pending => reg' = [reg EXCEPT ![r] = y]
      /\ clnt' = [clnt EXCEPT ![r] = z] /\ reg[r].pc = "reg_cb"
  BY DEF RegisterErrorCb
<1> HIDE DEF x, y, z
<1>6. OnlyClient(r) /\ clnt'[r] = z
  BY <1>4, <1>5, SetClient
<1>7. CASE clnt[r].err_pending
  <2>1. Goes(r, "reg_cb", "join") /\ reg'[r] = x
    BY <1>2, <1>5, <1>7, SetReg DEF Goes
  <2> QED
    BY <1>2, <1>4, <1>6, <1>7, <2>1 DEF SameServer, RegisterErrorCb, info
<1>8. CASE ~clnt[r].err_pending
  <2>1. Goes(r, "reg_cb", "set") /\ reg'[r] = y
    BY <1>3, <1>5, <1>8, SetReg DEF Goes
  <2> QED
    BY <1>3, <1>4, <1>6, <1>8, <2>1 DEF SameServer, RegisterErrorCb, info
<1> QED
  BY <1>7, <1>8

\* The thread does not wait for itself.
LEMMA OwnJoinEffect ==
  ASSUME TypeOK, NEW r \in Threads, OwnJoin(r)
  PROVE  /\ Goes(r, "join", "create")
         /\ reg'[r].todo = reg[r].todo /\ reg'[r].dev = reg[r].dev
         /\ reg'[r].lvl = reg[r].lvl /\ reg'[r].c = reg[r].c
         /\ supported' = {}
         /\ UNCHANGED <<server, clnt, handle, thread, prev_req_lvl, mtx, req, main, left>>
<1> DEFINE x == [reg[r] EXCEPT !.pc = "create", !.join = NULL]
<1>1. reg[r] \in Registration
  BY Elements
<1>2. x \in Registration /\ x.pc = "create" /\ x.todo = reg[r].todo /\ x.dev = reg[r].dev
      /\ x.lvl = reg[r].lvl /\ x.c = reg[r].c
  BY <1>1 DEF Registration, RegPcs
<1>3. reg' = [reg EXCEPT ![r] = x]
  BY DEF OwnJoin
<1> HIDE DEF x
<1> QED
  BY <1>2, <1>3, SetReg DEF OwnJoin, Goes, Keeps, info

\* The handle is published.
LEMMA SetHandleEffect ==
  ASSUME TypeOK, NEW r \in Threads, SetHandle(r)
  PROVE  /\ Goes(r, "set", "lock") /\ Keeps(r)
         /\ handle' = r
         /\ UNCHANGED <<server, clnt, thread, supported, prev_req_lvl, mtx, req, main, left>>
<1>1. "lock" \in RegPcs
  BY DEF RegPcs
<1> QED
  BY <1>1, GoStep DEF SetHandle, Goes, info

\* mtx is taken to send the levels.
LEMMA LockToSendEffect ==
  ASSUME TypeOK, NEW r \in Threads, LockToSend(r)
  PROVE  /\ Goes(r, "lock", "send")
         /\ reg'[r].todo = Devs /\ reg'[r].dev = reg[r].dev
         /\ reg'[r].lvl = reg[r].lvl /\ reg'[r].c = reg[r].c /\ reg'[r].join = reg[r].join
         /\ mtx = Nobody /\ mtx' = r
         /\ UNCHANGED <<server, clnt, handle, thread, supported, prev_req_lvl, req, main, left>>
<1> DEFINE x == [reg[r] EXCEPT !.pc = "send", !.todo = Devs]
<1>1. reg[r] \in Registration
  BY Elements
<1>2. x \in Registration /\ x.pc = "send" /\ x.todo = Devs /\ x.dev = reg[r].dev
      /\ x.lvl = reg[r].lvl
      /\ x.c = reg[r].c /\ x.join = reg[r].join
  BY <1>1 DEF Registration, RegPcs
<1>3. reg' = [reg EXCEPT ![r] = x]
  BY DEF LockToSend
<1> HIDE DEF x
<1> QED
  BY <1>2, <1>3, SetReg DEF LockToSend, Goes, Keeps, info

\* A level is about to be sent.
LEMMA SendLevelEffect ==
  ASSUME TypeOK, NEW r \in Threads, NEW d \in Devs, SendLevel(r, d)
  PROVE  /\ d \in reg[r].todo /\ reg'[r].todo = reg[r].todo \ {d} /\ reg'[r].join = reg[r].join
         /\ \/ /\ d \in supported /\ Goes(r, "send", "sending")
               /\ reg'[r].dev = d /\ reg'[r].lvl = prev_req_lvl[d] /\ reg'[r].c = handle
            \/ /\ d \notin supported /\ Goes(r, "send", "send")
               /\ reg'[r].dev = reg[r].dev /\ reg'[r].lvl = reg[r].lvl /\ reg'[r].c = reg[r].c
        
         /\ UNCHANGED <<server, clnt, handle, thread, supported, prev_req_lvl, mtx, req, main, left>>
<1> DEFINE x == [reg[r] EXCEPT !.pc = "sending", !.todo = @ \ {d}, !.dev = d,
                             !.lvl = prev_req_lvl[d], !.c = handle]
           y == [reg[r] EXCEPT !.todo = @ \ {d}]
<1>1. reg[r] \in Registration /\ handle \in Threads \cup {NULL} /\ prev_req_lvl[d] \in Levels
  BY Elements DEF TypeOK
<1>2. x \in Registration /\ x.pc = "sending" /\ x.todo = reg[r].todo \ {d} /\ x.dev = d
      /\ x.lvl = prev_req_lvl[d] /\ x.c = handle /\ x.join = reg[r].join
  BY <1>1 DEF Registration, RegPcs
<1>3. y \in Registration /\ y.pc = reg[r].pc /\ y.todo = reg[r].todo \ {d} /\ y.dev = reg[r].dev
      /\ y.lvl = reg[r].lvl /\ y.c = reg[r].c /\ y.join = reg[r].join
  BY <1>1 DEF Registration
<1>4. /\ d \in supported => reg' = [reg EXCEPT ![r] = x]
      /\ d \notin supported => reg' = [reg EXCEPT ![r] = y]
      /\ reg[r].pc = "send" /\ d \in reg[r].todo
  BY DEF SendLevel
<1> HIDE DEF x, y
<1>5. CASE d \in supported
  <2>1. Goes(r, "send", "sending") /\ reg'[r] = x
    BY <1>2, <1>4, <1>5, SetReg DEF Goes
  <2> QED
    BY <1>2, <1>4, <1>5, <2>1 DEF SendLevel, info
<1>6. CASE d \notin supported
  <2>1. Goes(r, "send", "send") /\ reg'[r] = y
    BY <1>3, <1>4, <1>6, SetReg DEF Goes
  <2> QED
    BY <1>3, <1>4, <1>6, <2>1 DEF SendLevel, info
<1> QED
  BY <1>5, <1>6

\* A level has been sent.
LEMMA LevelSentEffect ==
  ASSUME TypeOK, NEW r \in Threads, LevelSent(r)
  PROVE  /\ Goes(r, "sending", "send")
         /\ reg'[r].todo = reg[r].todo /\ reg'[r].dev = Nobody /\ reg'[r].join = reg[r].join
         /\ Requested(reg[r].c, reg[r].dev, reg[r].lvl)
         /\ UNCHANGED <<clnt, handle, thread, supported, prev_req_lvl, mtx, req, main, left>>
<1> DEFINE x == [reg[r] EXCEPT !.pc = "send", !.dev = Nobody, !.lvl = 0, !.c = NULL]
<1>1. reg[r] \in Registration
  BY Elements
<1>2. x \in Registration /\ x.pc = "send" /\ x.dev = Nobody /\ x.todo = reg[r].todo
      /\ x.join = reg[r].join
  BY <1>1, ThermalAssumption DEF Registration, RegPcs
<1>3. reg' = [reg EXCEPT ![r] = x]
  BY DEF LevelSent
<1> HIDE DEF x
<1> QED
  BY <1>2, <1>3, SetReg DEF LevelSent, Goes, Keeps, info

\* All levels have been sent.
LEMMA UnlockSendEffect ==
  ASSUME TypeOK, NEW r \in Threads, UnlockSend(r)
  PROVE  /\ Goes(r, "send", "return") /\ Keeps(r)
         /\ reg[r].todo = {} /\ mtx' = Nobody
         /\ UNCHANGED <<server, clnt, handle, thread, supported, prev_req_lvl, req, main, left>>
<1>1. "return" \in RegPcs
  BY DEF RegPcs
<1> QED
  BY <1>1, GoStep DEF UnlockSend, Goes, info

\* The thread ends.
LEMMA ReturnEffect ==
  ASSUME TypeOK, NEW r \in Threads, Return(r)
  PROVE  /\ Goes(r, "return", "done") /\ Keeps(r)
        
         /\ UNCHANGED <<server, clnt, handle, thread, supported, prev_req_lvl, mtx, req, main, left>>
<1> DEFINE x == [reg[r] EXCEPT !.pc = "done", !.sig = FALSE]
<1>1. reg[r] \in Registration
  BY Elements
<1>2. x \in Registration /\ x.pc = "done" /\ x.todo = reg[r].todo /\ x.dev = reg[r].dev
      /\ x.lvl = reg[r].lvl
      /\ x.c = reg[r].c /\ x.join = reg[r].join
  BY <1>1 DEF Registration, RegPcs
<1>3. reg' = [reg EXCEPT ![r] = x]
  BY DEF Return
<1> HIDE DEF x
<1> QED
  BY <1>2, <1>3, SetReg DEF Return, Goes, Keeps, info

\* The system fails.
LEMMA SystemFailsEffect ==
  ASSUME TypeOK, NEW r \in Threads, SystemFails(r)
  PROVE  /\ Goes(r, "notifier", "done") \/ Goes(r, "init", "return")
         /\ Keeps(r)
         /\ left' \in [requests: 0..MaxRequests, fails: 0..MaxFails]
         /\ UNCHANGED <<server, clnt, handle, thread, supported, prev_req_lvl, mtx, req, main>>
<1> DEFINE b == IF reg[r].pc = "notifier" THEN "done" ELSE "return"
<1>1. Fail(r, b) /\ reg[r].pc \in {"notifier", "init"} /\ left.fails > 0
      /\ left' = [left EXCEPT !.fails = @ - 1]
  BY DEF SystemFails
<1>2. b \in RegPcs
  BY DEF RegPcs
<1>3. Goes(r, reg[r].pc, b) /\ Keeps(r)
  BY <1>1, <1>2, FailStep
<1>4. left' \in [requests: 0..MaxRequests, fails: 0..MaxFails]
  BY <1>1, ThermalAssumption DEF TypeOK
<1> QED
  BY <1>1, <1>3, <1>4 DEF SystemFails, Goes, info

\* The router tells the client that its server has gone.
LEMMA ServerGoneEffect ==
  ASSUME TypeOK, NEW c \in Threads, ServerGone(c)
  PROVE  /\ clnt[c].open /\ clnt[c].valid /\ ~Current(c) /\ clnt[c].reader = "poll"
         /\ OnlyClient(c) /\ SameServer(c)
         /\ clnt'[c].open = clnt[c].open /\ clnt'[c].valid = FALSE
         /\ clnt'[c].err_cb = clnt[c].err_cb
         /\ \/ /\ clnt[c].err_cb /\ clnt'[c].err_pending = FALSE
               /\ clnt'[c].reader = "join" /\ clnt'[c].join = thread
            \/ ~clnt[c].err_cb /\ clnt'[c].err_pending = TRUE /\ clnt'[c].reader = "poll"
         /\ UNCHANGED <<server, handle, thread, supported, prev_req_lvl, mtx, reg, req, main, left>>
<1> DEFINE x == [clnt[c] EXCEPT !.valid = FALSE, !.err_pending = FALSE, !.reader = "join", !.join = thread]
           y == [clnt[c] EXCEPT !.valid = FALSE, !.err_pending = TRUE, !.reader = "poll", !.join = NULL]
<1>1. clnt[c] \in Client /\ thread \in Threads
  BY Elements DEF TypeOK
<1>2. /\ x \in Client /\ x.gen = clnt[c].gen /\ x.open = clnt[c].open /\ x.valid = FALSE
      /\ x.err_cb = clnt[c].err_cb /\ x.err_pending = FALSE /\ x.reader = "join" /\ x.join = thread
  BY <1>1 DEF Client
<1>3. /\ y \in Client /\ y.gen = clnt[c].gen /\ y.open = clnt[c].open /\ y.valid = FALSE
      /\ y.err_cb = clnt[c].err_cb /\ y.err_pending = TRUE /\ y.reader = "poll"
  BY <1>1 DEF Client
<1>4. clnt[c].err_cb \in BOOLEAN
  BY <1>1 DEF Client
<1>5. /\ clnt[c].err_cb => clnt' = [clnt EXCEPT ![c] = x]
      /\ ~clnt[c].err_cb => clnt' = [clnt EXCEPT ![c] = y]
  BY <1>4 DEF ServerGone
<1> HIDE DEF x, y
<1>6. CASE clnt[c].err_cb
  <2>1. OnlyClient(c) /\ clnt'[c] = x
    BY <1>2, <1>5, <1>6, SetClient
  <2> QED
    BY <1>2, <1>6, <2>1 DEF ServerGone, SameServer, info
<1>7. CASE ~clnt[c].err_cb
  <2>1. OnlyClient(c) /\ clnt'[c] = y
    BY <1>3, <1>5, <1>7, SetClient
  <2> QED
    BY <1>3, <1>7, <2>1 DEF ServerGone, SameServer, info
<1> QED
  BY <1>6, <1>7

\* The old thread has ended.
LEMMA ErrorJoinEffect ==
  ASSUME TypeOK, NEW c \in Threads, ErrorJoin(c)
  PROVE  /\ clnt[c].reader = "join" /\ Joined(clnt[c].join, NULL)
         /\ OnlyClient(c) /\ SameServer(c)
         /\ clnt'[c].open = clnt[c].open /\ clnt'[c].valid = clnt[c].valid
         /\ clnt'[c].err_cb = clnt[c].err_cb /\ clnt'[c].err_pending = clnt[c].err_pending
         /\ clnt'[c].reader = "create" /\ supported' = {}
         /\ UNCHANGED <<server, handle, thread, prev_req_lvl, mtx, reg, req, main, left>>
<1> DEFINE x == [clnt[c] EXCEPT !.reader = "create", !.join = NULL]
<1>1. clnt[c] \in Client /\ thread \in Threads
  BY Elements DEF TypeOK
<1>2. x \in Client /\ x.reader = "create" /\ x.gen = clnt[c].gen /\ x.open = clnt[c].open
      /\ x.valid = clnt[c].valid
      /\ x.err_cb = clnt[c].err_cb /\ x.err_pending = clnt[c].err_pending
  BY <1>1 DEF Client
<1>3. clnt' = [clnt EXCEPT ![c] = x]
  BY DEF ErrorJoin
<1> HIDE DEF x
<1>4. OnlyClient(c) /\ clnt'[c] = x
  BY <1>2, <1>3, SetClient
<1> QED
  BY <1>2, <1>4 DEF SameServer, ErrorJoin, info

\* The number of threads is enough for one more.
LEMMA ThreadIsLeft ==
  ASSUME TypeOK, NEW r \in Threads, r = thread, Gone(r)
  PROVE  thread + 1 \in Threads
<1>1. clnt[r].gen \in 0..MaxServers
  BY Elements DEF Client
<1>2. clnt[r].gen >= r
  BY DEF Gone
<1> QED
  BY <1>1, <1>2, ThermalAssumption DEF Threads

\* The thread that is started is the one after the last.
LEMMA NewThreadIs ==
  ASSUME TypeOK, ChainInv, thread + 1 \in Threads
  PROVE  NewThread = thread + 1 /\ reg[thread + 1].pc = "none"
<1> DEFINE P(r) == reg[r].pc = "none" /\ \A s \in 1..r - 1 : reg[s].pc # "none"
<1>1. thread \in Threads /\ thread \in Nat
  BY ThermalAssumption DEF TypeOK, Threads
<1>2. P(thread + 1)
  BY <1>1, ThermalAssumption DEF ChainInv, Threads
<1>3. \A r \in Threads : P(r) => r = thread + 1
  <2> SUFFICES ASSUME NEW r \in Threads, P(r) PROVE r = thread + 1
    OBVIOUS
  <2>1. r \in Nat /\ r >= 1
    BY ThermalAssumption DEF Threads
  <2>2. ~(r <= thread)
    BY DEF ChainInv
  <2>3. ~(thread + 1 < r)
    BY <2>1, <1>1, <1>2
  <2> QED
    BY <2>1, <2>2, <2>3, <1>1
<1> HIDE DEF P
<1>4. NewThread = CHOOSE r \in Threads : P(r)
  BY DEF NewThread, P
<1>5. NewThread = thread + 1
  BY <1>2, <1>3, <1>4
<1> QED
  BY <1>2, <1>5 DEF P

\* A thread is started.
Starts(n) ==
  /\ n \in Threads /\ n = thread + 1 /\ thread' = n
  /\ reg[n].pc = "none" /\ reg'[n].pc = "start" /\ Keeps(n)
  /\ reg' \in [Threads -> Registration]

\* The error callback starts a thread, in the reader thread,
LEMMA ErrorCreateEffect ==
  ASSUME TypeOK, ChainInv, CallbackInv, NEW c \in Threads, ErrorCreate(c)
  PROVE  /\ clnt[c].reader = "create"
         /\ Starts(thread + 1) /\ \A s \in Threads : s # thread + 1 => reg'[s] = reg[s]
         /\ OnlyClient(c) /\ SameServer(c)
         /\ clnt'[c].open = clnt[c].open /\ clnt'[c].valid = clnt[c].valid
         /\ clnt'[c].err_cb = clnt[c].err_cb /\ clnt'[c].err_pending = clnt[c].err_pending
         /\ clnt'[c].reader = "poll" /\ clnt'[c].join = clnt[c].join
         /\ UNCHANGED <<server, handle, supported, prev_req_lvl, mtx, req, main, left>>
<1> DEFINE n == thread + 1
           x == [clnt[c] EXCEPT !.reader = "poll"]
           y == [reg[n] EXCEPT !.pc = "start"]
<1>1. clnt[c].reader = "create" /\ c = thread /\ Gone(c)
  BY DEF ErrorCreate, CallbackInv, CallbackOf
<1>2. n \in Threads
  BY <1>1, ThreadIsLeft
<1>3. NewThread = n /\ reg[n].pc = "none"
  BY <1>2, NewThreadIs
<1>4. clnt[c] \in Client /\ reg[n] \in Registration
  BY <1>2, Elements
<1>5. x \in Client /\ x.reader = "poll" /\ x.join = clnt[c].join /\ x.gen = clnt[c].gen
      /\ x.open = clnt[c].open /\ x.valid = clnt[c].valid
      /\ x.err_cb = clnt[c].err_cb /\ x.err_pending = clnt[c].err_pending
  BY <1>4 DEF Client
<1>6. y \in Registration /\ y.pc = "start" /\ y.todo = reg[n].todo /\ y.dev = reg[n].dev
      /\ y.lvl = reg[n].lvl /\ y.c = reg[n].c /\ y.join = reg[n].join
  BY <1>4 DEF Registration, RegPcs
<1>7. clnt' = [clnt EXCEPT ![c] = x] /\ reg' = [reg EXCEPT ![n] = y] /\ thread' = n
  BY <1>3 DEF ErrorCreate
<1> HIDE DEF x, y
<1>8. OnlyClient(c) /\ clnt'[c] = x
  BY <1>5, <1>7, SetClient
<1>9. /\ reg' \in [Threads -> Registration] /\ reg'[n] = y
      /\ \A s \in Threads : s # n => reg'[s] = reg[s]
  BY <1>2, <1>6, <1>7, SetReg
<1>10. Starts(n)
  BY <1>2, <1>3, <1>6, <1>7, <1>9 DEF Starts, Keeps
<1> QED
  BY <1>1, <1>5, <1>8, <1>9, <1>10 DEF SameServer, ErrorCreate, info

\* or in the thread that registers it.
LEMMA OwnCreateEffect ==
  ASSUME TypeOK, ChainInv, CallbackInv, NEW r \in Threads, OwnCreate(r)
  PROVE  /\ reg[r].pc = "create" /\ reg'[r].pc = "set" /\ Keeps(r)
         /\ Starts(thread + 1) /\ \A s \in Threads : s # thread + 1 /\ s # r => reg'[s] = reg[s]
         /\ UNCHANGED <<server, clnt, handle, supported, prev_req_lvl, mtx, req, main, left>>
<1> DEFINE n == thread + 1
           x == [reg[r] EXCEPT !.pc = "set"]
           y == [reg[n] EXCEPT !.pc = "start"]
           f == [reg EXCEPT ![r] = x]
<1>1. reg[r].pc = "create" /\ r = thread /\ Gone(r)
  BY DEF OwnCreate, CallbackInv, CallbackOf
<1>2. n \in Threads
  BY <1>1, ThreadIsLeft
<1>3. NewThread = n /\ reg[n].pc = "none" /\ n # r
  BY <1>1, <1>2, NewThreadIs
<1>4. reg[r] \in Registration /\ reg[n] \in Registration /\ reg \in [Threads -> Registration]
  BY <1>2, Elements DEF TypeOK
<1>5. x \in Registration /\ x.pc = "set" /\ x.todo = reg[r].todo /\ x.dev = reg[r].dev
      /\ x.lvl = reg[r].lvl /\ x.c = reg[r].c /\ x.join = reg[r].join
  BY <1>4 DEF Registration, RegPcs
<1>6. y \in Registration /\ y.pc = "start" /\ y.todo = reg[n].todo /\ y.dev = reg[n].dev
      /\ y.lvl = reg[n].lvl /\ y.c = reg[n].c /\ y.join = reg[n].join
  BY <1>4 DEF Registration, RegPcs
<1>7. f \in [Threads -> Registration] /\ f[r] = x /\ \A s \in Threads : s # r => f[s] = reg[s]
  BY <1>4, <1>5
<1>8. reg' = [f EXCEPT ![n] = [f[n] EXCEPT !.pc = "start"]] /\ thread' = n
  BY <1>3 DEF OwnCreate
<1> HIDE DEF x, f
<1>9. reg' = [f EXCEPT ![n] = y]
  BY <1>2, <1>3, <1>7, <1>8
<1> HIDE DEF y
<1>10. /\ reg' \in [Threads -> Registration] /\ reg'[n] = y /\ reg'[r] = x
       /\ \A s \in Threads : s # n /\ s # r => reg'[s] = reg[s]
  BY <1>2, <1>3, <1>6, <1>7, <1>9
<1>11. Starts(n)
  BY <1>2, <1>3, <1>6, <1>8, <1>10 DEF Starts, Keeps
<1> QED
  BY <1>1, <1>5, <1>10, <1>11 DEF Keeps, OwnCreate, info

\* A request has mtx.
LEMMA LockRequestEffect ==
  ASSUME TypeOK, NEW d \in Devs, LockRequest(d)
  PROVE  /\ req[d].pc = "lock" /\ mtx = Nobody
         /\ req' \in [Devs -> Requester]
         /\ \A e \in Devs : e # d => req'[e] = req[e]
         /\ \/ /\ handle = NULL /\ req'[d].pc = "idle" /\ UNCHANGED mtx
               /\ prev_req_lvl' = [prev_req_lvl EXCEPT ![d] = req[d].lvl]
            \/ /\ handle # NULL /\ req'[d].pc = "sending" /\ req'[d].c = handle
               /\ mtx' = d /\ UNCHANGED prev_req_lvl
         /\ UNCHANGED <<server, clnt, handle, thread, supported, reg, main, left>>
<1> DEFINE x == [req[d] EXCEPT !.pc = "sending", !.c = handle]
<1>1. req[d] \in Requester
  BY DEF TypeOK
<1>2. Idle \in Requester /\ Idle.pc = "idle"
  BY ThermalAssumption DEF Idle, Requester
<1>3. CASE handle = NULL
  <2>1. req' = [req EXCEPT ![d] = Idle]
    BY <1>3 DEF LockRequest
  <2>2. req'[d] = Idle /\ req' \in [Devs -> Requester] /\ \A e \in Devs : e # d => req'[e] = req[e]
    BY <1>2, <2>1 DEF TypeOK
  <2> QED
    BY <1>2, <1>3, <2>2 DEF LockRequest
<1>4. CASE handle # NULL
  <2>1. x \in Requester
        /\ x.pc = "sending" /\ x.c = handle
    BY <1>1 DEF TypeOK, Requester
  <2>2. req' = [req EXCEPT ![d] = x]
    BY <1>4 DEF LockRequest
  <2> HIDE DEF x
  <2>3. req'[d] = x /\ req' \in [Devs -> Requester] /\ \A e \in Devs : e # d => req'[e] = req[e]
    BY <2>1, <2>2 DEF TypeOK
  <2> QED
    BY <1>4, <2>1, <2>3 DEF LockRequest
<1> QED
  BY <1>3, <1>4

\* A request returns.
LEMMA EndRequestEffect ==
  ASSUME TypeOK, NEW d \in Devs, EndRequest(d)
  PROVE  /\ req[d].pc = "sending" /\ req'[d].pc = "idle"
         /\ req' \in [Devs -> Requester]
         /\ \A e \in Devs : e # d => req'[e] = req[e]
         /\ req[d].lvl \in Levels /\ Requested(req[d].c, d, req[d].lvl)
         /\ prev_req_lvl' = [prev_req_lvl EXCEPT ![d] = req[d].lvl]
         /\ mtx' = Nobody
         /\ UNCHANGED <<clnt, handle, thread, supported, reg, main, left>>
<1>1. Idle \in Requester /\ Idle.pc = "idle"
  BY ThermalAssumption DEF Idle, Requester
<1>2. req' = [req EXCEPT ![d] = Idle]
  BY DEF EndRequest
<1>3. req'[d] = Idle /\ req' \in [Devs -> Requester] /\ \A e \in Devs : e # d => req'[e] = req[e]
  BY <1>1, <1>2 DEF TypeOK
<1>4. req[d].lvl \in Levels
  BY DEF TypeOK, Requester
<1> QED
  BY <1>1, <1>3, <1>4 DEF EndRequest

\* A request begins.
LEMMA RequestEffect ==
  ASSUME TypeOK, NEW d \in Devs, NEW lvl \in Levels, Request(d, lvl)
  PROVE  /\ main.pc = "run" /\ req[d].pc = "idle" /\ req'[d].pc = "lock"
         /\ req' \in [Devs -> Requester]
         /\ \A e \in Devs : e # d => req'[e] = req[e]
         /\ left' \in [requests: 0..MaxRequests, fails: 0..MaxFails]
         /\ UNCHANGED <<server, clnt, handle, thread, supported, prev_req_lvl, mtx, reg, main>>
<1> DEFINE x == [Idle EXCEPT !.pc = "lock", !.lvl = lvl]
<1>1. x \in Requester /\ x.pc = "lock"
  BY DEF Idle, Requester
<1>2. req' = [req EXCEPT ![d] = x] /\ left' = [left EXCEPT !.requests = @ - 1] /\ left.requests > 0
  BY DEF Request
<1> HIDE DEF x
<1>3. req'[d] = x /\ req' \in [Devs -> Requester] /\ \A e \in Devs : e # d => req'[e] = req[e]
  BY <1>1, <1>2 DEF TypeOK
<1>4. left' \in [requests: 0..MaxRequests, fails: 0..MaxFails]
  BY <1>2, ThermalAssumption DEF TypeOK
<1> QED
  BY <1>1, <1>3, <1>4 DEF Request, info

\* The thermal engine ends.
LEMMA CloseEffect ==
  ASSUME TypeOK, Close
  PROVE  /\ main.pc = "run" /\ main'.pc = "join"
         /\ main' \in Ending
         /\ \A d \in Devs : req[d].pc = "idle"
         /\ UNCHANGED <<server, clnt, handle, thread, supported, prev_req_lvl, mtx, reg, req, left>>
  BY DEF Close, TypeOK, Ending, info

\* The registering thread has ended.
LEMMA JoinThreadEffect ==
  ASSUME TypeOK, JoinThread
  PROVE  /\ main.pc = "join" /\ main'.pc \in {"closed", "release"}
         /\ main' \in Ending
         /\ UNCHANGED <<server, clnt, handle, thread, supported, prev_req_lvl, mtx, reg, req, left>>
  BY DEF JoinThread, TypeOK, Ending, info

\* The client is released.
LEMMA ReleaseHandleEffect ==
  ASSUME TypeOK, ReleaseHandle
  PROVE  /\ main.pc = "release" /\ main'.pc = "closed"
         /\ main' \in Ending
         /\ handle' = NULL
         /\ \/ main.c = NULL /\ UNCHANGED clnt
            \/ \E c \in Threads : c = main.c /\ Closes(c)
         /\ UNCHANGED <<server, thread, supported, prev_req_lvl, mtx, reg, req, left>>
<1>1. main.c \in Threads \cup {NULL} /\ main' \in Ending
  BY DEF ReleaseHandle, TypeOK, Ending
<1>2. Released(main.c)
  BY DEF ReleaseHandle
<1>3. ASSUME NEW c \in Threads, c = main.c PROVE Closes(c)
  BY <1>2, <1>3, ReleasedStep
<1>4. ASSUME main.c = NULL PROVE UNCHANGED clnt
  BY <1>2, <1>4, Names DEF Released, TypeOK
<1>5. main.pc = "release" /\ main'.pc = "closed"
  BY DEF ReleaseHandle, TypeOK, Ending
<1> QED
  BY <1>1, <1>3, <1>4, <1>5 DEF ReleaseHandle
-----------------------------------------------------------------------------
(* More about the effects. *)

\* What is counted or ordered is a number.
LEMMA Numbers ==
  ASSUME TypeOK
  PROVE  /\ thread \in Threads /\ thread \in Nat /\ server.gen \in Nat /\ server.devs \subseteq Devs
         /\ \A r \in Threads : r \in Nat /\ r >= 1 /\ clnt[r].gen \in Nat
  BY Elements, ThermalAssumption DEF TypeOK, Client, Server, Threads

\* The level that a thread sends, or a request, goes to one client.
LEMMA LevelSentSends ==
  ASSUME TypeOK, PublishInv, NEW r \in Threads, LevelSent(r)
  PROVE  \E e \in Devs, lvl \in Levels : e = reg[r].dev /\ lvl = reg[r].lvl
         /\ Sends(reg[r].c, e, lvl)
<1>1. reg[r].pc = "sending" /\ Requested(reg[r].c, reg[r].dev, reg[r].lvl)
  BY DEF LevelSent
<1>2. reg[r].dev \in Devs /\ reg[r].lvl \in Levels
  BY <1>1, Elements DEF PublishInv, SendingOf, Registration
<1> QED
  BY <1>1, <1>2, RequestedStep

\* ... and so does a request.
LEMMA EndRequestSends ==
  ASSUME TypeOK, NEW d \in Devs, EndRequest(d)
  PROVE  \E lvl \in Levels : lvl = req[d].lvl /\ Sends(req[d].c, d, lvl)
  BY EndRequestEffect, RequestedStep

\* The effects of some actions without those on the clients: of InitClient,
LEMMA InitClientMoves ==
  ASSUME TypeOK, NEW r \in Threads, InitClient(r)
  PROVE  /\ Goes(r, "init", "return") \/ Goes(r, "init", "verify")
         /\ Keeps(r)
         /\ UNCHANGED <<server, handle, thread, supported, prev_req_lvl, mtx, req, main, left>>
  BY InitClientEffect

\* of RegisterErrorCb,
LEMMA RegisterErrorCbMoves ==
  ASSUME TypeOK, NEW r \in Threads, RegisterErrorCb(r)
  PROVE  /\ Goes(r, "reg_cb", "join") \/ Goes(r, "reg_cb", "set")
         /\ reg'[r].todo = reg[r].todo /\ reg'[r].dev = reg[r].dev
         /\ reg'[r].lvl = reg[r].lvl /\ reg'[r].c = reg[r].c
         /\ UNCHANGED <<server, handle, thread, supported, prev_req_lvl, mtx, req, main, left>>
  BY RegisterErrorCbEffect

\* of ReleaseOld,
LEMMA ReleaseOldMoves ==
  ASSUME TypeOK, NEW r \in Threads, ReleaseOld(r)
  PROVE  /\ Goes(r, "release", "notifier")
         /\ reg'[r].todo = reg[r].todo /\ reg'[r].dev = reg[r].dev
         /\ reg'[r].lvl = reg[r].lvl /\ reg'[r].join = reg[r].join
         /\ handle' = NULL /\ mtx' = Nobody
         /\ UNCHANGED <<server, thread, supported, prev_req_lvl, req, main, left>>
  BY ReleaseOldEffect

\* of ReleaseHandle,
LEMMA ReleaseHandleMoves ==
  ASSUME TypeOK, ReleaseHandle
  PROVE  /\ main.pc = "release" /\ main'.pc = "closed" /\ handle' = NULL
         /\ main' \in Ending
         /\ UNCHANGED <<server, thread, supported, prev_req_lvl, mtx, reg, req, left>>
  BY ReleaseHandleEffect

\* and of ServerGone.
LEMMA ServerGoneMoves ==
  ASSUME TypeOK, NEW c \in Threads, ServerGone(c)
  PROVE  UNCHANGED <<server, handle, thread, supported, prev_req_lvl, mtx, reg, req, main, left>>
  BY ServerGoneEffect

\* As many servers have been there as threads were started, if one is there.
LEMMA ServersBefore ==
  ASSUME TypeOK, ChainInv, ClientInv, server.up, NEW r \in Threads, r <= thread
  PROVE  server.gen >= r
<1>1. CASE r = 1
  BY <1>1, Numbers DEF ChainInv
<1>2. CASE r # 1
  <2>1. r - 1 \in Threads /\ r - 1 < thread
    BY <1>2, Numbers, ThermalAssumption DEF Threads
  <2>2. clnt[r - 1].gen >= r - 1 /\ server.gen # clnt[r - 1].gen /\ clnt[r - 1].gen <= server.gen
    BY <2>1 DEF ChainInv, ClientInv, ClientOf, Gone, Current
  <2> QED
    BY <2>1, <2>2, Numbers
<1> QED
  BY <1>1, <1>2

\* The client that answers is that of the last thread.
LEMMA Answering ==
  ASSUME TypeOK, ChainInv, ClientInv, NEW s \in Threads, Answers(s)
  PROVE  s = thread /\ ~Gone(s) /\ reg[s].pc \notin Before
<1>1. clnt[s].open /\ ~Gone(s)
  BY DEF Answers, Connected, Gone
<1>2. reg[s].pc \notin Before
  BY <1>1 DEF ClientInv, ClientOf, NoClient
<1> QED
  BY <1>1, <1>2, Numbers DEF ChainInv, Before

\* The other clients stay as they are when one is made.
LEMMA InitClientKeeps ==
  ASSUME TypeOK, NEW r \in Threads, InitClient(r), NEW s \in Threads, s # r
  PROVE  clnt'[s] = clnt[s]
  BY InitClientEffect DEF OnlyClient

\* When the old client is released the clients stay as they are but for being closed,
LEMMA ReleaseOldCloses ==
  ASSUME TypeOK, NEW r \in Threads, ReleaseOld(r)
  PROVE  OnlyCloses
  BY ReleaseOldEffect DEF OnlyCloses, Closes, OnlyClient, SameServer

\* when a client is dropped,
LEMMA DropCloses ==
  ASSUME TypeOK, NEW r \in Threads, Drop(r)
  PROVE  OnlyCloses
  BY DropEffect DEF OnlyCloses, Closes, OnlyClient, SameServer

\* and when the last one is released.
LEMMA ReleaseHandleCloses ==
  ASSUME TypeOK, ReleaseHandle
  PROVE  OnlyCloses
  BY ReleaseHandleEffect DEF OnlyCloses, Closes, OnlyClient, SameServer

-----------------------------------------------------------------------------
(* The parts of the invariant after a step. *)

\* Everything keeps its type.
LEMMA NextType ==
  ASSUME TypeOK, ChainInv, CallbackInv, PublishInv, [Next]_vars
  PROVE  TypeOK'
<1>1. ASSUME ServerUp PROVE TypeOK'
  BY <1>1, ServerUpEffect, Names DEF TypeOK
<1>2. ASSUME ServerDown PROVE TypeOK'
  BY <1>2, ServerDownEffect, Names DEF TypeOK
<1>3. ASSUME NEW r \in Threads, Start(r) PROVE TypeOK'
  BY <1>3, StartEffect, Names DEF Goes, TypeOK
<1>4. ASSUME NEW r \in Threads, ReleaseOld(r) PROVE TypeOK'
  <2>1. clnt' \in [Threads -> Client]
    BY <1>4, ReleaseOldEffect DEF TypeOK, OnlyClient, Closes
  <2>3. (\A s \in Threads : mtx = s <=> reg[s].pc \in {"release", "send", "sending"})'
    BY <1>4, ReleaseOldMoves, Names DEF Goes, TypeOK
  <2> QED
    BY <1>4, ReleaseOldMoves, <2>1, <2>3, Names DEF Goes, TypeOK
<1>5. ASSUME NEW r \in Threads, InitNotifier(r) PROVE TypeOK'
  BY <1>5, InitNotifierEffect, Names DEF Goes, TypeOK
<1>6. ASSUME NEW r \in Threads, ClearSignal(r) PROVE TypeOK'
  BY <1>6, ClearSignalEffect, Names DEF Goes, TypeOK
<1>7. ASSUME NEW r \in Threads, Lookup(r) PROVE TypeOK'
  BY <1>7, LookupEffect, Names DEF Goes, TypeOK
<1>8. ASSUME NEW r \in Threads, WaitForServer(r) PROVE TypeOK'
  BY <1>8, WaitForServerEffect, Names DEF Goes, TypeOK
<1>9. ASSUME NEW r \in Threads, InitClient(r) PROVE TypeOK'
  <2>1. clnt' \in [Threads -> Client]
    BY <1>9, InitClientEffect DEF TypeOK, OnlyClient
  <2>3. (\A s \in Threads : mtx = s <=> reg[s].pc \in {"release", "send", "sending"})'
    BY <1>9, InitClientMoves, Names DEF Goes, TypeOK
  <2> QED
    BY <1>9, InitClientMoves, <2>1, <2>3, Names DEF Goes, TypeOK
<1>10. ASSUME NEW r \in Threads, VerifyDevices(r) PROVE TypeOK'
  BY <1>10, VerifyDevicesEffect, Names, Numbers DEF Goes, TypeOK
<1>11. ASSUME NEW r \in Threads, Drop(r) PROVE TypeOK'
  <2>1. clnt' \in [Threads -> Client]
    BY <1>11, DropEffect DEF TypeOK, OnlyClient, Closes
  <2>3. (\A s \in Threads : mtx = s <=> reg[s].pc \in {"release", "send", "sending"})'
    BY <1>11, DropEffect, Names DEF Goes, TypeOK
  <2> QED
    BY <1>11, DropEffect, <2>1, <2>3, Names DEF Goes, TypeOK
<1>12. ASSUME NEW r \in Threads, RegisterErrorCb(r) PROVE TypeOK'
  <2>1. clnt' \in [Threads -> Client]
    BY <1>12, RegisterErrorCbEffect DEF TypeOK, OnlyClient
  <2>3. (\A s \in Threads : mtx = s <=> reg[s].pc \in {"release", "send", "sending"})'
    BY <1>12, RegisterErrorCbMoves, Names DEF Goes, TypeOK
  <2> QED
    BY <1>12, RegisterErrorCbMoves, <2>1, <2>3, Names DEF Goes, TypeOK
<1>13. ASSUME NEW r \in Threads, OwnJoin(r) PROVE TypeOK'
  BY <1>13, OwnJoinEffect, Names DEF Goes, TypeOK
<1>14. ASSUME NEW r \in Threads, OwnCreate(r) PROVE TypeOK'
  BY <1>14, OwnCreateEffect, Names DEF Starts, TypeOK
<1>15. ASSUME NEW r \in Threads, SetHandle(r) PROVE TypeOK'
  BY <1>15, SetHandleEffect, Names DEF Goes, TypeOK
<1>16. ASSUME NEW r \in Threads, LockToSend(r) PROVE TypeOK'
  BY <1>16, LockToSendEffect, Names DEF Goes, TypeOK
<1>17. ASSUME NEW r \in Threads, NEW d \in Devs, SendLevel(r, d) PROVE TypeOK'
  BY <1>17, SendLevelEffect, Names DEF Goes, TypeOK
<1>18. ASSUME NEW r \in Threads, LevelSent(r) PROVE TypeOK'
  <2>2. server' \in Server
    BY <1>18, LevelSentSends, Elements DEF Sends
  <2>3. (\A s \in Threads : mtx = s <=> reg[s].pc \in {"release", "send", "sending"})'
    BY <1>18, LevelSentEffect, Names DEF Goes, TypeOK
  <2> QED
    BY <1>18, LevelSentEffect, <2>2, <2>3, Names DEF Goes, TypeOK
<1>19. ASSUME NEW r \in Threads, UnlockSend(r) PROVE TypeOK'
  BY <1>19, UnlockSendEffect, Names DEF Goes, TypeOK
<1>20. ASSUME NEW r \in Threads, Return(r) PROVE TypeOK'
  BY <1>20, ReturnEffect, Names DEF Goes, TypeOK
<1>21. ASSUME NEW r \in Threads, SystemFails(r) PROVE TypeOK'
  BY <1>21, SystemFailsEffect, Names DEF Goes, TypeOK
<1>22. ASSUME NEW c \in Threads, ServerGone(c) PROVE TypeOK'
  <2>1. clnt' \in [Threads -> Client]
    BY <1>22, ServerGoneEffect DEF TypeOK, OnlyClient
  <2>3. (\A s \in Threads : mtx = s <=> reg[s].pc \in {"release", "send", "sending"})'
    BY <1>22, ServerGoneMoves, Names DEF TypeOK
  <2> QED
    BY <1>22, ServerGoneMoves, <2>1, <2>3, Names DEF TypeOK
<1>23. ASSUME NEW c \in Threads, ErrorJoin(c) PROVE TypeOK'
  BY <1>23, ErrorJoinEffect, Names DEF OnlyClient, SameServer, TypeOK
<1>24. ASSUME NEW c \in Threads, ErrorCreate(c) PROVE TypeOK'
  BY <1>24, ErrorCreateEffect, Names DEF Starts, OnlyClient, SameServer, TypeOK
<1>25. ASSUME NEW d \in Devs, LockRequest(d) PROVE TypeOK'
  <2>1. mtx' \in Devs \cup Threads \cup {Nobody} /\ prev_req_lvl' \in [Devs -> Levels]
    BY <1>25, LockRequestEffect DEF TypeOK, Requester
  <2>2. (\A r \in Threads : mtx = r <=> reg[r].pc \in {"release", "send", "sending"})'
    BY <1>25, LockRequestEffect, Names DEF TypeOK
  <2>3. (\A e \in Devs : mtx = e <=> req[e].pc = "sending")'
    BY <1>25, LockRequestEffect, Names DEF TypeOK
  <2> QED
    BY <1>25, <2>1, <2>2, <2>3, LockRequestEffect DEF TypeOK
<1>26. ASSUME NEW d \in Devs, EndRequest(d) PROVE TypeOK'
  <2>2. server' \in Server
    BY <1>26, EndRequestSends, Elements DEF Sends
  <2>3. (\A s \in Threads : mtx = s <=> reg[s].pc \in {"release", "send", "sending"})'
    BY <1>26, EndRequestEffect, Names DEF TypeOK
  <2> QED
    BY <1>26, EndRequestEffect, <2>2, <2>3, Names DEF TypeOK
<1>27. ASSUME NEW d \in Devs, NEW lvl \in Levels, Request(d, lvl) PROVE TypeOK'
  BY <1>27, RequestEffect, Names DEF TypeOK
<1>28. ASSUME Close PROVE TypeOK'
  BY <1>28, CloseEffect, Names DEF TypeOK
<1>29. ASSUME JoinThread PROVE TypeOK'
  BY <1>29, JoinThreadEffect, Names DEF TypeOK
<1>30. ASSUME ReleaseHandle PROVE TypeOK'
  <2>1. clnt' \in [Threads -> Client]
    BY <1>30, ReleaseHandleEffect DEF TypeOK, OnlyClient, Closes
  <2>3. (\A s \in Threads : mtx = s <=> reg[s].pc \in {"release", "send", "sending"})'
    BY <1>30, ReleaseHandleMoves, Names DEF TypeOK
  <2> QED
    BY <1>30, ReleaseHandleMoves, <2>1, <2>3, Names DEF TypeOK
<1>31. ASSUME UNCHANGED vars PROVE TypeOK'
  BY <1>31, Names DEF vars, info, TypeOK
<1> QED
  BY <1>1, <1>2, <1>3, <1>4, <1>5, <1>6, <1>7, <1>8, <1>9, <1>10, <1>11, <1>12, <1>13, <1>14,
     <1>15, <1>16, <1>17, <1>18, <1>19, <1>20, <1>21, <1>22, <1>23, <1>24, <1>25, <1>26, <1>27,
     <1>28, <1>29, <1>30, <1>31 DEF Next, RegStep, ReaderStep, RequestStep

\* A server does not come back.
LEMMA GoneStays ==
  ASSUME TypeOK, ChainInv, ClientInv, CallbackInv, PublishInv, NEW s \in Threads, Gone(s),
         [Next]_vars
  PROVE  Gone(s)'
<1>1. ASSUME ServerUp PROVE Gone(s)'
  BY <1>1, ServerUpEffect, Numbers DEF ClientInv, ClientOf, Gone, Current
<1>2. ASSUME ServerDown PROVE Gone(s)'
  BY <1>2, ServerDownEffect DEF Gone, Current
<1>3. ASSUME NEW r \in Threads, Start(r) PROVE Gone(s)'
  BY <1>3, StartEffect DEF Goes, Gone, Current
<1>4. ASSUME NEW r \in Threads, ReleaseOld(r) PROVE Gone(s)'
  BY <1>4, ReleaseOldEffect, ReleaseOldCloses DEF Goes, OnlyCloses, Gone, Current
<1>5. ASSUME NEW r \in Threads, InitNotifier(r) PROVE Gone(s)'
  BY <1>5, InitNotifierEffect DEF Goes, Gone, Current
<1>6. ASSUME NEW r \in Threads, ClearSignal(r) PROVE Gone(s)'
  BY <1>6, ClearSignalEffect DEF Goes, Gone, Current
<1>7. ASSUME NEW r \in Threads, Lookup(r) PROVE Gone(s)'
  BY <1>7, LookupEffect DEF Goes, Gone, Current
<1>8. ASSUME NEW r \in Threads, WaitForServer(r) PROVE Gone(s)'
  BY <1>8, WaitForServerEffect DEF Goes, Gone, Current
<1>9. ASSUME NEW r \in Threads, InitClient(r) PROVE Gone(s)'
  <2>1. CASE s = r
    <3>0. reg[s].pc = "init"
      BY <1>9, <2>1, InitClientMoves DEF Goes
    <3>1. clnt[s].gen = 0
      BY <3>0 DEF ClientInv, ClientOf, Before, NoClient
    <3> QED
      BY <3>1, Numbers DEF Gone
  <2>2. CASE s # r
    BY <1>9, <2>2, InitClientKeeps, InitClientMoves DEF Gone, Current
  <2> QED
    BY <2>1, <2>2
<1>10. ASSUME NEW r \in Threads, VerifyDevices(r) PROVE Gone(s)'
  BY <1>10, VerifyDevicesEffect DEF Goes, Gone, Current
<1>11. ASSUME NEW r \in Threads, Drop(r) PROVE Gone(s)'
  BY <1>11, DropEffect, DropCloses DEF Goes, OnlyCloses, Gone, Current
<1>12. ASSUME NEW r \in Threads, RegisterErrorCb(r) PROVE Gone(s)'
  BY <1>12, RegisterErrorCbEffect DEF Goes, OnlyClient, SameServer, Gone, Current
<1>13. ASSUME NEW r \in Threads, OwnJoin(r) PROVE Gone(s)'
  BY <1>13, OwnJoinEffect DEF Goes, Gone, Current
<1>14. ASSUME NEW r \in Threads, OwnCreate(r) PROVE Gone(s)'
  BY <1>14, OwnCreateEffect DEF Starts, Gone, Current
<1>15. ASSUME NEW r \in Threads, SetHandle(r) PROVE Gone(s)'
  BY <1>15, SetHandleEffect DEF Goes, Gone, Current
<1>16. ASSUME NEW r \in Threads, LockToSend(r) PROVE Gone(s)'
  BY <1>16, LockToSendEffect DEF Goes, Gone, Current
<1>17. ASSUME NEW r \in Threads, NEW d \in Devs, SendLevel(r, d) PROVE Gone(s)'
  BY <1>17, SendLevelEffect DEF Goes, Gone, Current
<1>18. ASSUME NEW r \in Threads, LevelSent(r) PROVE Gone(s)'
  BY <1>18, LevelSentEffect, LevelSentSends DEF Goes, Sends, Gone, Current
<1>19. ASSUME NEW r \in Threads, UnlockSend(r) PROVE Gone(s)'
  BY <1>19, UnlockSendEffect DEF Goes, Gone, Current
<1>20. ASSUME NEW r \in Threads, Return(r) PROVE Gone(s)'
  BY <1>20, ReturnEffect DEF Goes, Gone, Current
<1>21. ASSUME NEW r \in Threads, SystemFails(r) PROVE Gone(s)'
  BY <1>21, SystemFailsEffect DEF Goes, Gone, Current
<1>22. ASSUME NEW c \in Threads, ServerGone(c) PROVE Gone(s)'
  BY <1>22, ServerGoneEffect DEF OnlyClient, SameServer, Gone, Current
<1>23. ASSUME NEW c \in Threads, ErrorJoin(c) PROVE Gone(s)'
  BY <1>23, ErrorJoinEffect DEF OnlyClient, SameServer, Gone, Current
<1>24. ASSUME NEW c \in Threads, ErrorCreate(c) PROVE Gone(s)'
  BY <1>24, ErrorCreateEffect DEF Starts, OnlyClient, SameServer, Gone, Current
<1>25. ASSUME NEW d \in Devs, LockRequest(d) PROVE Gone(s)'
  BY <1>25, LockRequestEffect DEF Gone, Current
<1>26. ASSUME NEW d \in Devs, EndRequest(d) PROVE Gone(s)'
  BY <1>26, EndRequestEffect, EndRequestSends DEF Sends, Gone, Current
<1>27. ASSUME NEW d \in Devs, NEW lvl \in Levels, Request(d, lvl) PROVE Gone(s)'
  BY <1>27, RequestEffect DEF Gone, Current
<1>28. ASSUME Close PROVE Gone(s)'
  BY <1>28, CloseEffect DEF Gone, Current
<1>29. ASSUME JoinThread PROVE Gone(s)'
  BY <1>29, JoinThreadEffect DEF Gone, Current
<1>30. ASSUME ReleaseHandle PROVE Gone(s)'
  BY <1>30, ReleaseHandleEffect, ReleaseHandleCloses DEF OnlyCloses, Gone, Current
<1>31. ASSUME UNCHANGED vars PROVE Gone(s)'
  BY <1>31, Numbers DEF vars, info, Gone, Current
<1> QED
  BY <1>1, <1>2, <1>3, <1>4, <1>5, <1>6, <1>7, <1>8, <1>9, <1>10, <1>11, <1>12, <1>13, <1>14,
     <1>15, <1>16, <1>17, <1>18, <1>19, <1>20, <1>21, <1>22, <1>23, <1>24, <1>25, <1>26, <1>27,
     <1>28, <1>29, <1>30, <1>31 DEF Next, RegStep, ReaderStep, RequestStep

\* Threads are started in order.
LEMMA NextChain ==
  ASSUME TypeOK, ChainInv, ClientInv, CallbackInv, PublishInv, [Next]_vars
  PROVE  ChainInv'
<1>0. \A s \in Threads : Gone(s) => Gone(s)'
  BY GoneStays
<1>1. ASSUME ServerUp PROVE ChainInv'
  BY <1>1, ServerUpEffect, <1>0, Numbers DEF ChainInv, After
<1>2. ASSUME ServerDown PROVE ChainInv'
  BY <1>2, ServerDownEffect, <1>0, Numbers DEF ChainInv, After
<1>3. ASSUME NEW r \in Threads, Start(r) PROVE ChainInv'
  BY <1>3, StartEffect, <1>0, Numbers DEF Goes, ChainInv, After
<1>4. ASSUME NEW r \in Threads, ReleaseOld(r) PROVE ChainInv'
  BY <1>4, ReleaseOldMoves, <1>0, Numbers DEF Goes, ChainInv, After
<1>5. ASSUME NEW r \in Threads, InitNotifier(r) PROVE ChainInv'
  BY <1>5, InitNotifierEffect, <1>0, Numbers DEF Goes, ChainInv, After
<1>6. ASSUME NEW r \in Threads, ClearSignal(r) PROVE ChainInv'
  BY <1>6, ClearSignalEffect, <1>0, Numbers DEF Goes, ChainInv, After
<1>7. ASSUME NEW r \in Threads, Lookup(r) PROVE ChainInv'
  BY <1>7, LookupEffect, <1>0, Numbers DEF Goes, ChainInv, After
<1>8. ASSUME NEW r \in Threads, WaitForServer(r) PROVE ChainInv'
  BY <1>8, WaitForServerEffect, <1>0, Numbers DEF Goes, ChainInv, After
<1>9. ASSUME NEW r \in Threads, InitClient(r) PROVE ChainInv'
  BY <1>9, InitClientMoves, <1>0, Numbers DEF Goes, ChainInv, After
<1>10. ASSUME NEW r \in Threads, VerifyDevices(r) PROVE ChainInv'
  BY <1>10, VerifyDevicesEffect, <1>0, Numbers DEF Goes, ChainInv, After
<1>11. ASSUME NEW r \in Threads, Drop(r) PROVE ChainInv'
  BY <1>11, DropEffect, <1>0, Numbers DEF Goes, ChainInv, After
<1>12. ASSUME NEW r \in Threads, RegisterErrorCb(r) PROVE ChainInv'
  BY <1>12, RegisterErrorCbMoves, <1>0, Numbers DEF Goes, ChainInv, After
<1>13. ASSUME NEW r \in Threads, OwnJoin(r) PROVE ChainInv'
  BY <1>13, OwnJoinEffect, <1>0, Numbers DEF Goes, ChainInv, After
<1>14. ASSUME NEW r \in Threads, OwnCreate(r) PROVE ChainInv'
  BY <1>14, OwnCreateEffect, <1>0, Numbers DEF Starts, CallbackInv, CallbackOf, ChainInv, After
<1>15. ASSUME NEW r \in Threads, SetHandle(r) PROVE ChainInv'
  BY <1>15, SetHandleEffect, <1>0, Numbers DEF Goes, ChainInv, After
<1>16. ASSUME NEW r \in Threads, LockToSend(r) PROVE ChainInv'
  BY <1>16, LockToSendEffect, <1>0, Numbers DEF Goes, ChainInv, After
<1>17. ASSUME NEW r \in Threads, NEW d \in Devs, SendLevel(r, d) PROVE ChainInv'
  BY <1>17, SendLevelEffect, <1>0, Numbers DEF Goes, ChainInv, After
<1>18. ASSUME NEW r \in Threads, LevelSent(r) PROVE ChainInv'
  BY <1>18, LevelSentEffect, <1>0, Numbers, LevelSentSends DEF Goes, Sends, ChainInv, After
<1>19. ASSUME NEW r \in Threads, UnlockSend(r) PROVE ChainInv'
  BY <1>19, UnlockSendEffect, <1>0, Numbers DEF Goes, ChainInv, After
<1>20. ASSUME NEW r \in Threads, Return(r) PROVE ChainInv'
  BY <1>20, ReturnEffect, <1>0, Numbers DEF Goes, ChainInv, After
<1>21. ASSUME NEW r \in Threads, SystemFails(r) PROVE ChainInv'
  BY <1>21, SystemFailsEffect, <1>0, Numbers DEF Goes, ChainInv, After
<1>22. ASSUME NEW c \in Threads, ServerGone(c) PROVE ChainInv'
  BY <1>22, ServerGoneMoves, <1>0, Numbers DEF ChainInv, After
<1>23. ASSUME NEW c \in Threads, ErrorJoin(c) PROVE ChainInv'
  BY <1>23, ErrorJoinEffect, <1>0, Numbers DEF ChainInv, After
<1>24. ASSUME NEW c \in Threads, ErrorCreate(c) PROVE ChainInv'
  BY <1>24, ErrorCreateEffect, <1>0, Numbers DEF Starts, CallbackInv, CallbackOf, ChainInv, After
<1>25. ASSUME NEW d \in Devs, LockRequest(d) PROVE ChainInv'
  BY <1>25, LockRequestEffect, <1>0, Numbers DEF ChainInv, After
<1>26. ASSUME NEW d \in Devs, EndRequest(d) PROVE ChainInv'
  BY <1>26, EndRequestEffect, <1>0, Numbers, EndRequestSends DEF Sends, ChainInv, After
<1>27. ASSUME NEW d \in Devs, NEW lvl \in Levels, Request(d, lvl) PROVE ChainInv'
  BY <1>27, RequestEffect, <1>0, Numbers DEF ChainInv, After
<1>28. ASSUME Close PROVE ChainInv'
  BY <1>28, CloseEffect, <1>0, Numbers DEF ChainInv, After
<1>29. ASSUME JoinThread PROVE ChainInv'
  BY <1>29, JoinThreadEffect, <1>0, Numbers DEF ChainInv, After
<1>30. ASSUME ReleaseHandle PROVE ChainInv'
  BY <1>30, ReleaseHandleMoves, <1>0, Numbers DEF ChainInv, After
<1>31. ASSUME UNCHANGED vars PROVE ChainInv'
  BY <1>31, <1>0, Numbers DEF vars, info, ChainInv, After
<1> QED
  BY <1>1, <1>2, <1>3, <1>4, <1>5, <1>6, <1>7, <1>8, <1>9, <1>10, <1>11, <1>12, <1>13, <1>14,
     <1>15, <1>16, <1>17, <1>18, <1>19, <1>20, <1>21, <1>22, <1>23, <1>24, <1>25, <1>26, <1>27,
     <1>28, <1>29, <1>30, <1>31 DEF Next, RegStep, ReaderStep, RequestStep

\* A client is made for a server that has been there.
LEMMA NextClient ==
  ASSUME TypeOK, ChainInv, ClientInv, CallbackInv, PublishInv, NEW s \in Threads, [Next]_vars
  PROVE  ClientOf(s)'
<1>0. ClientOf(s)
  BY DEF ClientInv
<1>1. ASSUME ServerUp PROVE ClientOf(s)'
  BY <1>1, ServerUpEffect, <1>0, Numbers DEF ClientOf, Before, After
<1>2. ASSUME ServerDown PROVE ClientOf(s)'
  BY <1>2, ServerDownEffect, <1>0 DEF ClientOf, Before, After
<1>3. ASSUME NEW r \in Threads, Start(r) PROVE ClientOf(s)'
  BY <1>3, StartEffect, <1>0 DEF Goes, ClientOf, Before, After
<1>4. ASSUME NEW r \in Threads, ReleaseOld(r) PROVE ClientOf(s)'
  BY <1>4, ReleaseOldMoves, <1>0, ReleaseOldCloses DEF Goes, OnlyCloses, NoClient, ClientOf,
     Before, After
<1>5. ASSUME NEW r \in Threads, InitNotifier(r) PROVE ClientOf(s)'
  BY <1>5, InitNotifierEffect, <1>0 DEF Goes, ClientOf, Before, After
<1>6. ASSUME NEW r \in Threads, ClearSignal(r) PROVE ClientOf(s)'
  BY <1>6, ClearSignalEffect, <1>0 DEF Goes, ClientOf, Before, After
<1>7. ASSUME NEW r \in Threads, Lookup(r) PROVE ClientOf(s)'
  BY <1>7, LookupEffect, <1>0 DEF Goes, ClientOf, Before, After
<1>8. ASSUME NEW r \in Threads, WaitForServer(r) PROVE ClientOf(s)'
  BY <1>8, WaitForServerEffect, <1>0 DEF Goes, ClientOf, Before, After
<1>9. ASSUME NEW r \in Threads, InitClient(r) PROVE ClientOf(s)'
  <2>1. CASE s = r
    <3>1. r <= thread /\ reg[r].pc = "init"
      BY <1>9, InitClientMoves DEF Goes, ChainInv
    <3>2. clnt[r] = NoClient
      BY <2>1, <3>1, <1>0 DEF ClientOf, Before
    <3>3. CASE UNCHANGED clnt
      BY <1>9, <2>1, <3>2, <3>3, <1>0, InitClientMoves DEF ClientOf, NoClient
    <3>4. CASE server.up /\ clnt'[r].gen = server.gen /\ clnt'[r].err_cb = clnt[r].err_cb
               /\ reg'[r].pc = "verify"
      <4>1. server.gen >= r /\ server.gen \in Nat
        BY <3>1, <3>4, ServersBefore, Numbers
      <4> QED
        BY <1>9, <2>1, <3>2, <3>4, <4>1, InitClientMoves DEF ClientOf, NoClient, Before
    <3> QED
      BY <1>9, <3>3, <3>4, InitClientEffect DEF Goes
  <2>2. CASE s # r
    <3>1. clnt'[s] = clnt[s] /\ reg'[s] = reg[s]
      BY <1>9, <2>2, InitClientEffect DEF Goes, OnlyClient
    <3> QED
      BY <1>9, <3>1, <1>0, InitClientMoves DEF ClientOf
  <2> QED
    BY <2>1, <2>2
<1>10. ASSUME NEW r \in Threads, VerifyDevices(r) PROVE ClientOf(s)'
  BY <1>10, VerifyDevicesEffect, <1>0 DEF Goes, ClientOf, Before, After
<1>11. ASSUME NEW r \in Threads, Drop(r) PROVE ClientOf(s)'
  BY <1>11, DropEffect, <1>0, DropCloses DEF Goes, OnlyCloses, NoClient, ClientOf, Before, After
<1>12. ASSUME NEW r \in Threads, RegisterErrorCb(r) PROVE ClientOf(s)'
  <2>1. CASE s = r
    <3>1. reg[r].pc = "reg_cb" /\ reg'[r].pc \in {"join", "set"}
      BY <1>12, RegisterErrorCbMoves DEF Goes
    <3>2. clnt'[r].gen = clnt[r].gen /\ clnt'[r].valid = clnt[r].valid
      BY <1>12, RegisterErrorCbEffect DEF SameServer
    <3> QED
      BY <1>12, <2>1, <3>1, <3>2, <1>0, RegisterErrorCbMoves DEF ClientOf, Before, After
  <2>2. CASE s # r
    <3>1. clnt'[s] = clnt[s] /\ reg'[s] = reg[s]
      BY <1>12, <2>2, RegisterErrorCbEffect DEF Goes, OnlyClient
    <3> QED
      BY <1>12, <3>1, <1>0, RegisterErrorCbMoves DEF ClientOf
  <2> QED
    BY <2>1, <2>2
<1>13. ASSUME NEW r \in Threads, OwnJoin(r) PROVE ClientOf(s)'
  BY <1>13, OwnJoinEffect, <1>0 DEF Goes, ClientOf, Before, After
<1>14. ASSUME NEW r \in Threads, OwnCreate(r) PROVE ClientOf(s)'
  BY <1>14, OwnCreateEffect, <1>0 DEF Starts, ClientOf, Before, After
<1>15. ASSUME NEW r \in Threads, SetHandle(r) PROVE ClientOf(s)'
  BY <1>15, SetHandleEffect, <1>0 DEF Goes, ClientOf, Before, After
<1>16. ASSUME NEW r \in Threads, LockToSend(r) PROVE ClientOf(s)'
  BY <1>16, LockToSendEffect, <1>0 DEF Goes, ClientOf, Before, After
<1>17. ASSUME NEW r \in Threads, NEW d \in Devs, SendLevel(r, d) PROVE ClientOf(s)'
  BY <1>17, SendLevelEffect, <1>0 DEF Goes, ClientOf, Before, After
<1>18. ASSUME NEW r \in Threads, LevelSent(r) PROVE ClientOf(s)'
  BY <1>18, LevelSentEffect, <1>0, LevelSentSends DEF Goes, Sends, ClientOf, Before, After
<1>19. ASSUME NEW r \in Threads, UnlockSend(r) PROVE ClientOf(s)'
  BY <1>19, UnlockSendEffect, <1>0 DEF Goes, ClientOf, Before, After
<1>20. ASSUME NEW r \in Threads, Return(r) PROVE ClientOf(s)'
  BY <1>20, ReturnEffect, <1>0 DEF Goes, ClientOf, Before, After
<1>21. ASSUME NEW r \in Threads, SystemFails(r) PROVE ClientOf(s)'
  BY <1>21, SystemFailsEffect, <1>0 DEF Goes, ClientOf, Before, After
<1>22. ASSUME NEW c \in Threads, ServerGone(c) PROVE ClientOf(s)'
  <2>1. CASE s = c
    <3>1. clnt'[c].gen = clnt[c].gen /\ clnt'[c].valid = FALSE /\ clnt'[c].err_cb = clnt[c].err_cb
          /\ clnt[c].open
      BY <1>22, ServerGoneEffect DEF SameServer
    <3> QED
      BY <1>22, <2>1, <3>1, <1>0, ServerGoneMoves DEF ClientOf, NoClient
  <2>2. CASE s # c
    <3>1. clnt'[s] = clnt[s]
      BY <1>22, <2>2, ServerGoneEffect DEF OnlyClient
    <3> QED
      BY <1>22, <3>1, <1>0, ServerGoneMoves DEF ClientOf
  <2> QED
    BY <2>1, <2>2
<1>23. ASSUME NEW c \in Threads, ErrorJoin(c) PROVE ClientOf(s)'
  <2>1. CASE s = c
    BY <1>23, <2>1, <1>0, ErrorJoinEffect DEF SameServer, ClientOf, NoClient
  <2>2. CASE s # c
    <3>1. clnt'[s] = clnt[s]
      BY <1>23, <2>2, ErrorJoinEffect DEF OnlyClient
    <3> QED
      BY <1>23, <3>1, <1>0, ErrorJoinEffect DEF ClientOf
  <2> QED
    BY <2>1, <2>2
<1>24. ASSUME NEW c \in Threads, ErrorCreate(c) PROVE ClientOf(s)'
  <2>1. clnt'[s].gen = clnt[s].gen /\ clnt'[s].valid = clnt[s].valid
        /\ clnt'[s].err_cb = clnt[s].err_cb
    BY <1>24, ErrorCreateEffect DEF OnlyClient, SameServer
  <2>2. clnt[s] = NoClient => clnt'[s] = clnt[s]
    BY <1>24, ErrorCreateEffect DEF OnlyClient, NoClient
  <2>3. \/ reg'[s] = reg[s]
        \/ reg[s].pc = "none" /\ reg'[s].pc = "start"
    BY <1>24, ErrorCreateEffect DEF Starts
  <2> QED
    BY <1>24, <1>0, <2>1, <2>2, <2>3, ErrorCreateEffect DEF ClientOf, Before, After
<1>25. ASSUME NEW d \in Devs, LockRequest(d) PROVE ClientOf(s)'
  BY <1>25, LockRequestEffect, <1>0 DEF ClientOf, Before, After
<1>26. ASSUME NEW d \in Devs, EndRequest(d) PROVE ClientOf(s)'
  BY <1>26, EndRequestEffect, <1>0, EndRequestSends DEF Sends, ClientOf, Before, After
<1>27. ASSUME NEW d \in Devs, NEW lvl \in Levels, Request(d, lvl) PROVE ClientOf(s)'
  BY <1>27, RequestEffect, <1>0 DEF ClientOf, Before, After
<1>28. ASSUME Close PROVE ClientOf(s)'
  BY <1>28, CloseEffect, <1>0 DEF ClientOf, Before, After
<1>29. ASSUME JoinThread PROVE ClientOf(s)'
  BY <1>29, JoinThreadEffect, <1>0 DEF ClientOf, Before, After
<1>30. ASSUME ReleaseHandle PROVE ClientOf(s)'
  BY <1>30, ReleaseHandleMoves, <1>0, ReleaseHandleCloses DEF OnlyCloses, NoClient, ClientOf,
     Before, After
<1>31. ASSUME UNCHANGED vars PROVE ClientOf(s)'
  BY <1>31, <1>0 DEF vars, info, ClientOf, Before, After
<1> QED
  BY <1>1, <1>2, <1>3, <1>4, <1>5, <1>6, <1>7, <1>8, <1>9, <1>10, <1>11, <1>12, <1>13, <1>14,
     <1>15, <1>16, <1>17, <1>18, <1>19, <1>20, <1>21, <1>22, <1>23, <1>24, <1>25, <1>26, <1>27,
     <1>28, <1>29, <1>30, <1>31 DEF Next, RegStep, ReaderStep, RequestStep

\* The error callback belongs to the last thread.
LEMMA NextCallback ==
  ASSUME TypeOK, ChainInv, ClientInv, CallbackInv, PublishInv, NEW s \in Threads, [Next]_vars
  PROVE  CallbackOf(s)'
<1>0. CallbackOf(s)
  BY DEF CallbackInv
<1>a. Gone(s) => Gone(s)'
  BY GoneStays
<1>1. ASSUME ServerUp PROVE CallbackOf(s)'
  BY <1>1, ServerUpEffect, <1>0, <1>a DEF Keeps, CallbackOf
<1>2. ASSUME ServerDown PROVE CallbackOf(s)'
  BY <1>2, ServerDownEffect, <1>0, <1>a DEF Keeps, CallbackOf
<1>3. ASSUME NEW r \in Threads, Start(r) PROVE CallbackOf(s)'
  BY <1>3, StartEffect, <1>0, <1>a DEF Goes, Keeps, CallbackOf
<1>4. ASSUME NEW r \in Threads, ReleaseOld(r) PROVE CallbackOf(s)'
  BY <1>4, ReleaseOldMoves, <1>0, <1>a, ReleaseOldCloses DEF Goes, OnlyCloses, CallbackOf
<1>5. ASSUME NEW r \in Threads, InitNotifier(r) PROVE CallbackOf(s)'
  BY <1>5, InitNotifierEffect, <1>0, <1>a DEF Goes, Keeps, CallbackOf
<1>6. ASSUME NEW r \in Threads, ClearSignal(r) PROVE CallbackOf(s)'
  BY <1>6, ClearSignalEffect, <1>0, <1>a DEF Goes, Keeps, CallbackOf
<1>7. ASSUME NEW r \in Threads, Lookup(r) PROVE CallbackOf(s)'
  BY <1>7, LookupEffect, <1>0, <1>a DEF Goes, Keeps, CallbackOf
<1>8. ASSUME NEW r \in Threads, WaitForServer(r) PROVE CallbackOf(s)'
  BY <1>8, WaitForServerEffect, <1>0, <1>a DEF Goes, Keeps, CallbackOf
<1>9. ASSUME NEW r \in Threads, InitClient(r) PROVE CallbackOf(s)'
  <2>1. CASE s = r
    <3>1. reg[r].pc = "init" /\ reg'[r].pc \in {"verify", "return"}
      BY <1>9, InitClientMoves DEF Goes
    <3>2. clnt'[r].reader = clnt[r].reader /\ clnt'[r].err_pending = clnt[r].err_pending
      BY <1>9, InitClientEffect
    <3>3. clnt[r] = NoClient
      BY <2>1, <3>1 DEF ClientInv, ClientOf, Before
    <3> QED
      BY <1>9, <2>1, <3>1, <3>2, <3>3, InitClientMoves DEF CallbackOf, NoClient
  <2>2. CASE s # r
    <3>1. clnt'[s] = clnt[s] /\ reg'[s] = reg[s]
      BY <1>9, <2>2, InitClientEffect DEF Goes, OnlyClient
    <3> QED
      BY <1>9, <3>1, <1>0, <1>a, InitClientMoves DEF CallbackOf
  <2> QED
    BY <2>1, <2>2
<1>10. ASSUME NEW r \in Threads, VerifyDevices(r) PROVE CallbackOf(s)'
  BY <1>10, VerifyDevicesEffect, <1>0, <1>a DEF Goes, Keeps, CallbackOf
<1>11. ASSUME NEW r \in Threads, Drop(r) PROVE CallbackOf(s)'
  BY <1>11, DropEffect, <1>0, <1>a, DropCloses DEF Goes, Keeps, OnlyCloses, CallbackOf
<1>12. ASSUME NEW r \in Threads, RegisterErrorCb(r) PROVE CallbackOf(s)'
  <2>1. CASE s = r
    <3>1. reg[r].pc = "reg_cb" /\ r = thread
      BY <1>12, RegisterErrorCbMoves, Numbers DEF Goes, ChainInv, After
    <3>2. clnt[r].reader = "poll"
      BY <2>1, <3>1, <1>0 DEF CallbackOf, ClientInv, ClientOf, After
    <3>3. /\ clnt'[r].reader = "poll" /\ clnt'[r].err_cb
          /\ clnt'[r].err_pending = clnt[r].err_pending
          /\ \/ clnt[r].err_pending /\ reg'[r].pc = "join" /\ reg'[r].join = thread
             \/ ~clnt[r].err_pending /\ reg'[r].pc = "set"
      BY <1>12, <3>2, RegisterErrorCbEffect DEF Goes
    <3> QED
      BY <1>12, <2>1, <3>1, <3>3, <1>0, <1>a, RegisterErrorCbMoves DEF CallbackOf
  <2>2. CASE s # r
    <3>1. clnt'[s] = clnt[s] /\ reg'[s] = reg[s]
      BY <1>12, <2>2, RegisterErrorCbEffect DEF Goes, OnlyClient
    <3> QED
      BY <1>12, <3>1, <1>0, <1>a, RegisterErrorCbMoves DEF CallbackOf
  <2> QED
    BY <2>1, <2>2
<1>13. ASSUME NEW r \in Threads, OwnJoin(r) PROVE CallbackOf(s)'
  BY <1>13, OwnJoinEffect, <1>0, <1>a DEF Goes, CallbackOf
<1>14. ASSUME NEW r \in Threads, OwnCreate(r) PROVE CallbackOf(s)'
  <2>1. reg[r].pc = "create" /\ r = thread /\ clnt[r].err_pending
    BY <1>14, OwnCreateEffect DEF CallbackInv, CallbackOf
  <2>2. clnt[s].reader = "poll"
    BY <2>1, <1>0 DEF CallbackOf
  <2>3. reg'[s].pc \notin {"join", "create"}
    <3>1. CASE s = thread + 1
      BY <1>14, <3>1, OwnCreateEffect DEF Starts
    <3>2. CASE s = r
      BY <1>14, <3>2, OwnCreateEffect
    <3>3. CASE s # thread + 1 /\ s # r
      BY <1>14, <3>3, <2>1, <1>0, OwnCreateEffect DEF CallbackOf
    <3> QED
      BY <3>1, <3>2, <3>3
  <2> QED
    BY <1>14, <2>2, <2>3, <1>0, <1>a, OwnCreateEffect DEF CallbackOf
<1>15. ASSUME NEW r \in Threads, SetHandle(r) PROVE CallbackOf(s)'
  BY <1>15, SetHandleEffect, <1>0, <1>a DEF Goes, Keeps, CallbackOf
<1>16. ASSUME NEW r \in Threads, LockToSend(r) PROVE CallbackOf(s)'
  BY <1>16, LockToSendEffect, <1>0, <1>a DEF Goes, CallbackOf
<1>17. ASSUME NEW r \in Threads, NEW d \in Devs, SendLevel(r, d) PROVE CallbackOf(s)'
  BY <1>17, SendLevelEffect, <1>0, <1>a DEF Goes, CallbackOf
<1>18. ASSUME NEW r \in Threads, LevelSent(r) PROVE CallbackOf(s)'
  BY <1>18, LevelSentEffect, <1>0, <1>a, LevelSentSends DEF Goes, Sends, CallbackOf
<1>19. ASSUME NEW r \in Threads, UnlockSend(r) PROVE CallbackOf(s)'
  BY <1>19, UnlockSendEffect, <1>0, <1>a DEF Goes, Keeps, CallbackOf
<1>20. ASSUME NEW r \in Threads, Return(r) PROVE CallbackOf(s)'
  BY <1>20, ReturnEffect, <1>0, <1>a DEF Goes, Keeps, CallbackOf
<1>21. ASSUME NEW r \in Threads, SystemFails(r) PROVE CallbackOf(s)'
  BY <1>21, SystemFailsEffect, <1>0, <1>a DEF Goes, Keeps, CallbackOf
<1>22. ASSUME NEW c \in Threads, ServerGone(c) PROVE CallbackOf(s)'
  <2>1. CASE s = c
    <3>1. ~Gone(c)
      BY <1>22, ServerGoneEffect DEF Gone
    <3>2. Gone(c)'
      <4>1. clnt[c].valid /\ ~Current(c)
        BY <1>22, ServerGoneEffect
      <4>2. clnt'[c].valid = FALSE /\ clnt'[c].gen = clnt[c].gen /\ server' = server
        BY <1>22, ServerGoneEffect DEF SameServer
      <4>3. clnt[c].gen >= c
        BY <4>1 DEF ClientInv, ClientOf
      <4> QED
        BY <4>1, <4>2, <4>3 DEF Gone, Current
    <3>3. reg[c].pc \notin {"join", "create"} /\ clnt[c].err_pending = FALSE
      BY <2>1, <3>1, <1>0, Elements DEF CallbackOf, Client
    <3>4. CASE clnt[c].err_cb
      <4>1. c = thread
        BY <3>1, <3>4, Numbers DEF ClientInv, ClientOf, ChainInv, After
      <4>2. clnt'[c].err_cb /\ clnt'[c].err_pending = FALSE /\ clnt'[c].reader = "join"
            /\ clnt'[c].join = thread
        BY <1>22, <3>4, ServerGoneEffect
      <4> QED
        BY <1>22, <2>1, <3>2, <3>3, <4>1, <4>2, ServerGoneMoves DEF CallbackOf
    <3>5. CASE ~clnt[c].err_cb
      <4>1. clnt'[c].reader = "poll"
        BY <1>22, <3>5, ServerGoneEffect
      <4> QED
        BY <1>22, <2>1, <3>2, <3>3, <4>1, ServerGoneMoves DEF CallbackOf
    <3> QED
      BY <3>4, <3>5
  <2>2. CASE s # c
    <3>1. clnt'[s] = clnt[s]
      BY <1>22, <2>2, ServerGoneEffect DEF OnlyClient
    <3> QED
      BY <1>22, <3>1, <1>0, <1>a, ServerGoneMoves DEF CallbackOf
  <2> QED
    BY <2>1, <2>2
<1>23. ASSUME NEW c \in Threads, ErrorJoin(c) PROVE CallbackOf(s)'
  <2>1. CASE s = c
    <3>1. clnt[c].reader = "join" /\ Joined(clnt[c].join, NULL)
      BY <1>23, ErrorJoinEffect
    <3>2. clnt[c].join = c /\ reg[c].pc = "done"
      BY <2>1, <3>1, <1>0, Names DEF CallbackOf, Joined
    <3>3. clnt'[c].reader = "create" /\ clnt'[c].err_cb = clnt[c].err_cb 
          /\ clnt'[c].err_pending = clnt[c].err_pending
      BY <1>23, ErrorJoinEffect
    <3> QED
      BY <1>23, <2>1, <3>1, <3>2, <3>3, <1>0, <1>a, ErrorJoinEffect DEF CallbackOf
  <2>2. CASE s # c
    <3>1. clnt'[s] = clnt[s]
      BY <1>23, <2>2, ErrorJoinEffect DEF OnlyClient
    <3> QED
      BY <1>23, <3>1, <1>0, <1>a, ErrorJoinEffect DEF CallbackOf
  <2> QED
    BY <2>1, <2>2
<1>24. ASSUME NEW c \in Threads, ErrorCreate(c) PROVE CallbackOf(s)'
  <2>1. c = thread /\ clnt[c].err_pending = FALSE
    BY <1>24, ErrorCreateEffect, Elements DEF CallbackInv, CallbackOf, Client
  <2>2. clnt'[s].reader = "poll" /\ clnt'[s].err_pending = clnt[s].err_pending
    BY <1>24, <2>1, <1>0, ErrorCreateEffect DEF CallbackOf, OnlyClient
  <2>3. reg'[s].pc \notin {"join", "create"}
    <3>1. CASE s = thread + 1
      BY <1>24, <3>1, ErrorCreateEffect DEF Starts
    <3>2. CASE s # thread + 1
      BY <1>24, <3>2, <2>1, <1>0, ErrorCreateEffect DEF CallbackOf
    <3> QED
      BY <3>1, <3>2
  <2> QED
    BY <1>24, <2>2, <2>3, <1>0, <1>a, ErrorCreateEffect DEF CallbackOf
<1>25. ASSUME NEW d \in Devs, LockRequest(d) PROVE CallbackOf(s)'
  BY <1>25, LockRequestEffect, <1>0, <1>a DEF CallbackOf
<1>26. ASSUME NEW d \in Devs, EndRequest(d) PROVE CallbackOf(s)'
  BY <1>26, EndRequestEffect, <1>0, <1>a, EndRequestSends DEF Sends, CallbackOf
<1>27. ASSUME NEW d \in Devs, NEW lvl \in Levels, Request(d, lvl) PROVE CallbackOf(s)'
  BY <1>27, RequestEffect, <1>0, <1>a DEF CallbackOf
<1>28. ASSUME Close PROVE CallbackOf(s)'
  BY <1>28, CloseEffect, <1>0, <1>a DEF CallbackOf
<1>29. ASSUME JoinThread PROVE CallbackOf(s)'
  BY <1>29, JoinThreadEffect, <1>0, <1>a DEF CallbackOf
<1>30. ASSUME ReleaseHandle PROVE CallbackOf(s)'
  BY <1>30, ReleaseHandleMoves, <1>0, <1>a, ReleaseHandleCloses DEF OnlyCloses, CallbackOf
<1>31. ASSUME UNCHANGED vars PROVE CallbackOf(s)'
  BY <1>31, <1>0, <1>a DEF vars, info, CallbackOf
<1> QED
  BY <1>1, <1>2, <1>3, <1>4, <1>5, <1>6, <1>7, <1>8, <1>9, <1>10, <1>11, <1>12, <1>13, <1>14,
     <1>15, <1>16, <1>17, <1>18, <1>19, <1>20, <1>21, <1>22, <1>23, <1>24, <1>25, <1>26, <1>27,
     <1>28, <1>29, <1>30, <1>31 DEF Next, RegStep, ReaderStep, RequestStep

\* The error callback stays pending.
LEMMA TwoThreadsStays ==
  ASSUME TypeOK, ChainInv, ClientInv, CallbackInv, PublishInv, NEW s \in Threads, clnt[s].err_cb,
         clnt[s].err_pending, [Next]_vars
  PROVE  (clnt[s].err_cb /\ clnt[s].err_pending)'
<1>1. ASSUME ServerUp PROVE (clnt[s].err_cb /\ clnt[s].err_pending)'
  BY <1>1, ServerUpEffect
<1>2. ASSUME ServerDown PROVE (clnt[s].err_cb /\ clnt[s].err_pending)'
  BY <1>2, ServerDownEffect
<1>3. ASSUME NEW r \in Threads, Start(r) PROVE (clnt[s].err_cb /\ clnt[s].err_pending)'
  BY <1>3, StartEffect DEF Goes
<1>4. ASSUME NEW r \in Threads, ReleaseOld(r) PROVE (clnt[s].err_cb /\ clnt[s].err_pending)'
  BY <1>4, ReleaseOldEffect, ReleaseOldCloses DEF Goes, OnlyCloses
<1>5. ASSUME NEW r \in Threads, InitNotifier(r) PROVE (clnt[s].err_cb /\ clnt[s].err_pending)'
  BY <1>5, InitNotifierEffect DEF Goes
<1>6. ASSUME NEW r \in Threads, ClearSignal(r) PROVE (clnt[s].err_cb /\ clnt[s].err_pending)'
  BY <1>6, ClearSignalEffect DEF Goes
<1>7. ASSUME NEW r \in Threads, Lookup(r) PROVE (clnt[s].err_cb /\ clnt[s].err_pending)'
  BY <1>7, LookupEffect DEF Goes
<1>8. ASSUME NEW r \in Threads, WaitForServer(r) PROVE (clnt[s].err_cb /\ clnt[s].err_pending)'
  BY <1>8, WaitForServerEffect DEF Goes
<1>9. ASSUME NEW r \in Threads, InitClient(r) PROVE (clnt[s].err_cb /\ clnt[s].err_pending)'
  BY <1>9, InitClientEffect, InitClientEffect DEF Goes, OnlyClient
<1>10. ASSUME NEW r \in Threads, VerifyDevices(r) PROVE (clnt[s].err_cb /\ clnt[s].err_pending)'
  BY <1>10, VerifyDevicesEffect DEF Goes
<1>11. ASSUME NEW r \in Threads, Drop(r) PROVE (clnt[s].err_cb /\ clnt[s].err_pending)'
  BY <1>11, DropEffect, DropCloses DEF Goes, OnlyCloses
<1>12. ASSUME NEW r \in Threads, RegisterErrorCb(r) PROVE (clnt[s].err_cb /\ clnt[s].err_pending)'
  BY <1>12, RegisterErrorCbEffect, RegisterErrorCbEffect DEF Goes, OnlyClient, SameServer
<1>13. ASSUME NEW r \in Threads, OwnJoin(r) PROVE (clnt[s].err_cb /\ clnt[s].err_pending)'
  BY <1>13, OwnJoinEffect DEF Goes
<1>14. ASSUME NEW r \in Threads, OwnCreate(r) PROVE (clnt[s].err_cb /\ clnt[s].err_pending)'
  BY <1>14, OwnCreateEffect DEF Starts
<1>15. ASSUME NEW r \in Threads, SetHandle(r) PROVE (clnt[s].err_cb /\ clnt[s].err_pending)'
  BY <1>15, SetHandleEffect DEF Goes
<1>16. ASSUME NEW r \in Threads, LockToSend(r) PROVE (clnt[s].err_cb /\ clnt[s].err_pending)'
  BY <1>16, LockToSendEffect DEF Goes
<1>17. ASSUME NEW r \in Threads, NEW d \in Devs, SendLevel(r, d)
      PROVE  (clnt[s].err_cb /\ clnt[s].err_pending)'
  BY <1>17, SendLevelEffect DEF Goes
<1>18. ASSUME NEW r \in Threads, LevelSent(r) PROVE (clnt[s].err_cb /\ clnt[s].err_pending)'
  BY <1>18, LevelSentEffect, LevelSentSends DEF Goes, Sends
<1>19. ASSUME NEW r \in Threads, UnlockSend(r) PROVE (clnt[s].err_cb /\ clnt[s].err_pending)'
  BY <1>19, UnlockSendEffect DEF Goes
<1>20. ASSUME NEW r \in Threads, Return(r) PROVE (clnt[s].err_cb /\ clnt[s].err_pending)'
  BY <1>20, ReturnEffect DEF Goes
<1>21. ASSUME NEW r \in Threads, SystemFails(r) PROVE (clnt[s].err_cb /\ clnt[s].err_pending)'
  BY <1>21, SystemFailsEffect DEF Goes
<1>22. ASSUME NEW c \in Threads, ServerGone(c) PROVE (clnt[s].err_cb /\ clnt[s].err_pending)'
  <2>1. Gone(s)
    BY DEF CallbackInv, CallbackOf
  <2>2. s # c
    BY <1>22, <2>1, ServerGoneEffect DEF Gone
  <2> QED
    BY <1>22, <2>2, ServerGoneEffect DEF OnlyClient
<1>23. ASSUME NEW c \in Threads, ErrorJoin(c) PROVE (clnt[s].err_cb /\ clnt[s].err_pending)'
  BY <1>23, ErrorJoinEffect DEF OnlyClient, SameServer
<1>24. ASSUME NEW c \in Threads, ErrorCreate(c) PROVE (clnt[s].err_cb /\ clnt[s].err_pending)'
  BY <1>24, ErrorCreateEffect DEF Starts, OnlyClient, SameServer
<1>25. ASSUME NEW d \in Devs, LockRequest(d) PROVE (clnt[s].err_cb /\ clnt[s].err_pending)'
  BY <1>25, LockRequestEffect
<1>26. ASSUME NEW d \in Devs, EndRequest(d) PROVE (clnt[s].err_cb /\ clnt[s].err_pending)'
  BY <1>26, EndRequestEffect, EndRequestSends DEF Sends
<1>27. ASSUME NEW d \in Devs, NEW lvl \in Levels, Request(d, lvl)
      PROVE  (clnt[s].err_cb /\ clnt[s].err_pending)'
  BY <1>27, RequestEffect
<1>28. ASSUME Close PROVE (clnt[s].err_cb /\ clnt[s].err_pending)'
  BY <1>28, CloseEffect
<1>29. ASSUME JoinThread PROVE (clnt[s].err_cb /\ clnt[s].err_pending)'
  BY <1>29, JoinThreadEffect
<1>30. ASSUME ReleaseHandle PROVE (clnt[s].err_cb /\ clnt[s].err_pending)'
  BY <1>30, ReleaseHandleEffect, ReleaseHandleCloses DEF OnlyCloses
<1>31. ASSUME UNCHANGED vars PROVE (clnt[s].err_cb /\ clnt[s].err_pending)'
  BY <1>31 DEF vars, info
<1> QED
  BY <1>1, <1>2, <1>3, <1>4, <1>5, <1>6, <1>7, <1>8, <1>9, <1>10, <1>11, <1>12, <1>13, <1>14,
     <1>15, <1>16, <1>17, <1>18, <1>19, <1>20, <1>21, <1>22, <1>23, <1>24, <1>25, <1>26, <1>27,
     <1>28, <1>29, <1>30, <1>31 DEF Next, RegStep, ReaderStep, RequestStep

\* Threads take turns.
LEMMA NextTurn ==
  ASSUME TypeOK, ChainInv, ClientInv, CallbackInv, PublishInv, TurnInv, [Next]_vars
  PROVE  TurnInv'
<1>0. TwoThreads => TwoThreads'
  BY TwoThreadsStays DEF TwoThreads
<1>1. ASSUME ServerUp PROVE TurnInv'
  BY <1>1, ServerUpEffect, <1>0, Numbers DEF TurnInv
<1>2. ASSUME ServerDown PROVE TurnInv'
  BY <1>2, ServerDownEffect, <1>0, Numbers DEF TurnInv
<1>3. ASSUME NEW r \in Threads, Start(r) PROVE TurnInv'
  BY <1>3, StartEffect, <1>0, Numbers DEF Goes, TurnInv
<1>4. ASSUME NEW r \in Threads, ReleaseOld(r) PROVE TurnInv'
  BY <1>4, ReleaseOldMoves, <1>0, Numbers DEF Goes, TurnInv
<1>5. ASSUME NEW r \in Threads, InitNotifier(r) PROVE TurnInv'
  BY <1>5, InitNotifierEffect, <1>0, Numbers DEF Goes, TurnInv
<1>6. ASSUME NEW r \in Threads, ClearSignal(r) PROVE TurnInv'
  BY <1>6, ClearSignalEffect, <1>0, Numbers DEF Goes, TurnInv
<1>7. ASSUME NEW r \in Threads, Lookup(r) PROVE TurnInv'
  BY <1>7, LookupEffect, <1>0, Numbers DEF Goes, TurnInv
<1>8. ASSUME NEW r \in Threads, WaitForServer(r) PROVE TurnInv'
  BY <1>8, WaitForServerEffect, <1>0, Numbers DEF Goes, TurnInv
<1>9. ASSUME NEW r \in Threads, InitClient(r) PROVE TurnInv'
  BY <1>9, InitClientMoves, <1>0, Numbers DEF Goes, TurnInv
<1>10. ASSUME NEW r \in Threads, VerifyDevices(r) PROVE TurnInv'
  BY <1>10, VerifyDevicesEffect, <1>0, Numbers DEF Goes, TurnInv
<1>11. ASSUME NEW r \in Threads, Drop(r) PROVE TurnInv'
  BY <1>11, DropEffect, <1>0, Numbers DEF Goes, TurnInv
<1>12. ASSUME NEW r \in Threads, RegisterErrorCb(r) PROVE TurnInv'
  BY <1>12, RegisterErrorCbMoves, <1>0, Numbers DEF Goes, TurnInv
<1>13. ASSUME NEW r \in Threads, OwnJoin(r) PROVE TurnInv'
  BY <1>13, OwnJoinEffect, <1>0, Numbers DEF Goes, TurnInv
<1>14. ASSUME NEW r \in Threads, OwnCreate(r) PROVE TurnInv'
  BY <1>14, OwnCreateEffect, <1>0, Numbers DEF Starts, CallbackInv, CallbackOf, TwoThreads,
     TurnInv
<1>15. ASSUME NEW r \in Threads, SetHandle(r) PROVE TurnInv'
  BY <1>15, SetHandleEffect, <1>0, Numbers DEF Goes, TurnInv
<1>16. ASSUME NEW r \in Threads, LockToSend(r) PROVE TurnInv'
  BY <1>16, LockToSendEffect, <1>0, Numbers DEF Goes, TurnInv
<1>17. ASSUME NEW r \in Threads, NEW d \in Devs, SendLevel(r, d) PROVE TurnInv'
  BY <1>17, SendLevelEffect, <1>0, Numbers DEF Goes, TurnInv
<1>18. ASSUME NEW r \in Threads, LevelSent(r) PROVE TurnInv'
  BY <1>18, LevelSentEffect, <1>0, Numbers, LevelSentSends DEF Goes, Sends, TurnInv
<1>19. ASSUME NEW r \in Threads, UnlockSend(r) PROVE TurnInv'
  BY <1>19, UnlockSendEffect, <1>0, Numbers DEF Goes, TurnInv
<1>20. ASSUME NEW r \in Threads, Return(r) PROVE TurnInv'
  BY <1>20, ReturnEffect, <1>0, Numbers DEF Goes, TurnInv
<1>21. ASSUME NEW r \in Threads, SystemFails(r) PROVE TurnInv'
  BY <1>21, SystemFailsEffect, <1>0, Numbers DEF Goes, TurnInv
<1>22. ASSUME NEW c \in Threads, ServerGone(c) PROVE TurnInv'
  BY <1>22, ServerGoneMoves, <1>0, Numbers DEF TurnInv
<1>23. ASSUME NEW c \in Threads, ErrorJoin(c) PROVE TurnInv'
  BY <1>23, ErrorJoinEffect, <1>0, Numbers DEF TurnInv
<1>24. ASSUME NEW c \in Threads, ErrorCreate(c) PROVE TurnInv'
  BY <1>24, ErrorCreateEffect, <1>0, Numbers DEF Starts, CallbackInv, CallbackOf, TurnInv
<1>25. ASSUME NEW d \in Devs, LockRequest(d) PROVE TurnInv'
  BY <1>25, LockRequestEffect, <1>0, Numbers DEF TurnInv
<1>26. ASSUME NEW d \in Devs, EndRequest(d) PROVE TurnInv'
  BY <1>26, EndRequestEffect, <1>0, Numbers, EndRequestSends DEF Sends, TurnInv
<1>27. ASSUME NEW d \in Devs, NEW lvl \in Levels, Request(d, lvl) PROVE TurnInv'
  BY <1>27, RequestEffect, <1>0, Numbers DEF TurnInv
<1>28. ASSUME Close PROVE TurnInv'
  BY <1>28, CloseEffect, <1>0, Numbers DEF TurnInv
<1>29. ASSUME JoinThread PROVE TurnInv'
  BY <1>29, JoinThreadEffect, <1>0, Numbers DEF TurnInv
<1>30. ASSUME ReleaseHandle PROVE TurnInv'
  BY <1>30, ReleaseHandleMoves, <1>0, Numbers DEF TurnInv
<1>31. ASSUME UNCHANGED vars PROVE TurnInv'
  BY <1>31, <1>0, Numbers DEF vars, info, TurnInv
<1> QED
  BY <1>1, <1>2, <1>3, <1>4, <1>5, <1>6, <1>7, <1>8, <1>9, <1>10, <1>11, <1>12, <1>13, <1>14,
     <1>15, <1>16, <1>17, <1>18, <1>19, <1>20, <1>21, <1>22, <1>23, <1>24, <1>25, <1>26, <1>27,
     <1>28, <1>29, <1>30, <1>31 DEF Next, RegStep, ReaderStep, RequestStep

\* The end of the thermal engine is not taken back.
LEMMA RunsOn ==
  ASSUME TypeOK, ChainInv, CallbackInv, main'.pc = "run", [Next]_vars
  PROVE  main.pc = "run"
<1>1. ASSUME ServerUp PROVE main.pc = "run"
  BY <1>1, ServerUpEffect
<1>2. ASSUME ServerDown PROVE main.pc = "run"
  BY <1>2, ServerDownEffect
<1>3. ASSUME NEW r \in Threads, Start(r) PROVE main.pc = "run"
  BY <1>3, StartEffect DEF Goes
<1>4. ASSUME NEW r \in Threads, ReleaseOld(r) PROVE main.pc = "run"
  BY <1>4, ReleaseOldMoves DEF Goes
<1>5. ASSUME NEW r \in Threads, InitNotifier(r) PROVE main.pc = "run"
  BY <1>5, InitNotifierEffect DEF Goes
<1>6. ASSUME NEW r \in Threads, ClearSignal(r) PROVE main.pc = "run"
  BY <1>6, ClearSignalEffect DEF Goes
<1>7. ASSUME NEW r \in Threads, Lookup(r) PROVE main.pc = "run"
  BY <1>7, LookupEffect DEF Goes
<1>8. ASSUME NEW r \in Threads, WaitForServer(r) PROVE main.pc = "run"
  BY <1>8, WaitForServerEffect DEF Goes
<1>9. ASSUME NEW r \in Threads, InitClient(r) PROVE main.pc = "run"
  BY <1>9, InitClientMoves DEF Goes
<1>10. ASSUME NEW r \in Threads, VerifyDevices(r) PROVE main.pc = "run"
  BY <1>10, VerifyDevicesEffect DEF Goes
<1>11. ASSUME NEW r \in Threads, Drop(r) PROVE main.pc = "run"
  BY <1>11, DropEffect DEF Goes
<1>12. ASSUME NEW r \in Threads, RegisterErrorCb(r) PROVE main.pc = "run"
  BY <1>12, RegisterErrorCbMoves DEF Goes
<1>13. ASSUME NEW r \in Threads, OwnJoin(r) PROVE main.pc = "run"
  BY <1>13, OwnJoinEffect DEF Goes
<1>14. ASSUME NEW r \in Threads, OwnCreate(r) PROVE main.pc = "run"
  BY <1>14, OwnCreateEffect DEF Starts
<1>15. ASSUME NEW r \in Threads, SetHandle(r) PROVE main.pc = "run"
  BY <1>15, SetHandleEffect DEF Goes
<1>16. ASSUME NEW r \in Threads, LockToSend(r) PROVE main.pc = "run"
  BY <1>16, LockToSendEffect DEF Goes
<1>17. ASSUME NEW r \in Threads, NEW d \in Devs, SendLevel(r, d) PROVE main.pc = "run"
  BY <1>17, SendLevelEffect DEF Goes
<1>18. ASSUME NEW r \in Threads, LevelSent(r) PROVE main.pc = "run"
  BY <1>18, LevelSentEffect, LevelSentSends DEF Goes, Sends
<1>19. ASSUME NEW r \in Threads, UnlockSend(r) PROVE main.pc = "run"
  BY <1>19, UnlockSendEffect DEF Goes
<1>20. ASSUME NEW r \in Threads, Return(r) PROVE main.pc = "run"
  BY <1>20, ReturnEffect DEF Goes
<1>21. ASSUME NEW r \in Threads, SystemFails(r) PROVE main.pc = "run"
  BY <1>21, SystemFailsEffect DEF Goes
<1>22. ASSUME NEW c \in Threads, ServerGone(c) PROVE main.pc = "run"
  BY <1>22, ServerGoneMoves
<1>23. ASSUME NEW c \in Threads, ErrorJoin(c) PROVE main.pc = "run"
  BY <1>23, ErrorJoinEffect
<1>24. ASSUME NEW c \in Threads, ErrorCreate(c) PROVE main.pc = "run"
  BY <1>24, ErrorCreateEffect DEF Starts
<1>25. ASSUME NEW d \in Devs, LockRequest(d) PROVE main.pc = "run"
  BY <1>25, LockRequestEffect
<1>26. ASSUME NEW d \in Devs, EndRequest(d) PROVE main.pc = "run"
  BY <1>26, EndRequestEffect, EndRequestSends DEF Sends
<1>27. ASSUME NEW d \in Devs, NEW lvl \in Levels, Request(d, lvl) PROVE main.pc = "run"
  BY <1>27, RequestEffect
<1>28. ASSUME Close PROVE main.pc = "run"
  BY <1>28, CloseEffect
<1>29. ASSUME JoinThread PROVE main.pc = "run"
  BY <1>29, JoinThreadEffect
<1>30. ASSUME ReleaseHandle PROVE main.pc = "run"
  BY <1>30, ReleaseHandleMoves
<1>31. ASSUME UNCHANGED vars PROVE main.pc = "run"
  BY <1>31 DEF vars, info
<1> QED
  BY <1>1, <1>2, <1>3, <1>4, <1>5, <1>6, <1>7, <1>8, <1>9, <1>10, <1>11, <1>12, <1>13, <1>14,
     <1>15, <1>16, <1>17, <1>18, <1>19, <1>20, <1>21, <1>22, <1>23, <1>24, <1>25, <1>26, <1>27,
     <1>28, <1>29, <1>30, <1>31 DEF Next, RegStep, ReaderStep, RequestStep

\* The old client is released.
LEMMA NextHandle ==
  ASSUME TypeOK, ChainInv, ClientInv, CallbackInv, PublishInv, TurnInv, HandleInv, [Next]_vars
  PROVE  HandleInv'
<1> SUFFICES ASSUME ~TwoThreads', main'.pc = "run" PROVE HandleKept'
  BY DEF HandleInv
<1>a. ~TwoThreads /\ main.pc = "run"
  BY TwoThreadsStays, RunsOn DEF TwoThreads
<1>b. HandleKept
  BY <1>a DEF HandleInv
<1>c. \A r \in Threads : reg[r].pc \notin {"none", "done"} => r = thread
  BY <1>a, Numbers DEF TurnInv, ChainInv
<1>d. thread \in Threads
  BY Numbers
<1>1. ASSUME ServerUp PROVE HandleKept'
  BY <1>1, ServerUpEffect, <1>b, <1>c, <1>d DEF Keeps, HandleKept
<1>2. ASSUME ServerDown PROVE HandleKept'
  BY <1>2, ServerDownEffect, <1>b, <1>c, <1>d DEF Keeps, HandleKept
<1>3. ASSUME NEW r \in Threads, Start(r) PROVE HandleKept'
  BY <1>3, StartEffect, <1>b, <1>c, <1>d DEF Goes, Keeps, HandleKept
<1>4. ASSUME NEW r \in Threads, ReleaseOld(r) PROVE HandleKept'
  <2>0. reg[r].c = handle
    BY <1>4, ReleaseOldMoves, <1>b DEF Goes, HandleKept
  <2>1. ASSUME NEW c \in Threads, clnt'[c].open PROVE clnt[c].open /\ c # handle
    <3>1. clnt[c].open
      BY <1>4, <2>1, ReleaseOldCloses DEF OnlyCloses
    <3>2. CASE handle \in Threads
      <4>1. Closes(handle)
        BY <1>4, <2>0, <3>2, ReleaseOldEffect, Names
      <4> QED
        BY <2>1, <3>1, <4>1 DEF Closes
    <3> QED
      BY <3>1, <3>2
  <2> QED
    BY <1>4, ReleaseOldMoves, <2>1, <1>b, <1>c, <1>d, Names DEF Goes, HandleKept
<1>5. ASSUME NEW r \in Threads, InitNotifier(r) PROVE HandleKept'
  BY <1>5, InitNotifierEffect, <1>b, <1>c, <1>d DEF Goes, Keeps, HandleKept
<1>6. ASSUME NEW r \in Threads, ClearSignal(r) PROVE HandleKept'
  BY <1>6, ClearSignalEffect, <1>b, <1>c, <1>d DEF Goes, Keeps, HandleKept
<1>7. ASSUME NEW r \in Threads, Lookup(r) PROVE HandleKept'
  BY <1>7, LookupEffect, <1>b, <1>c, <1>d DEF Goes, Keeps, HandleKept
<1>8. ASSUME NEW r \in Threads, WaitForServer(r) PROVE HandleKept'
  BY <1>8, WaitForServerEffect, <1>b, <1>c, <1>d DEF Goes, Keeps, HandleKept
<1>9. ASSUME NEW r \in Threads, InitClient(r) PROVE HandleKept'
  <2>1. \A c \in Threads : clnt'[c].open => clnt[c].open \/ (c = r /\ reg'[r].pc = "verify")
    BY <1>9, InitClientEffect DEF OnlyClient, Goes
  <2> QED
    BY <1>9, InitClientMoves, <2>1, <1>b, <1>c, <1>d DEF Goes, Keeps, HandleKept
<1>10. ASSUME NEW r \in Threads, VerifyDevices(r) PROVE HandleKept'
  BY <1>10, VerifyDevicesEffect, <1>b, <1>c, <1>d DEF Goes, Keeps, HandleKept
<1>11. ASSUME NEW r \in Threads, Drop(r) PROVE HandleKept'
  <2>1. \A c \in Threads : clnt'[c].open => clnt[c].open /\ c # r
    BY <1>11, DropEffect DEF Closes, OnlyClient
  <2> QED
    BY <1>11, DropEffect, <2>1, <1>b, <1>c, <1>d DEF Goes, Keeps, HandleKept
<1>12. ASSUME NEW r \in Threads, RegisterErrorCb(r) PROVE HandleKept'
  <2>1. \A c \in Threads : clnt'[c].open = clnt[c].open
    BY <1>12, RegisterErrorCbEffect DEF OnlyClient
  <2>2. reg'[r].pc = "set"
    BY <1>12, RegisterErrorCbEffect DEF Goes, TwoThreads
  <2> QED
    BY <1>12, RegisterErrorCbMoves, <2>1, <2>2, <1>b, <1>c, <1>d DEF Goes, HandleKept
<1>13. ASSUME NEW r \in Threads, OwnJoin(r) PROVE HandleKept'
  BY <1>13, OwnJoinEffect, <1>b, <1>c, <1>d DEF Goes, HandleKept
<1>14. ASSUME NEW r \in Threads, OwnCreate(r) PROVE HandleKept'
  BY <1>14, OwnCreateEffect, <1>b, <1>c, <1>d DEF Keeps, Starts, HandleKept
<1>15. ASSUME NEW r \in Threads, SetHandle(r) PROVE HandleKept'
  <2>1. reg[r].pc = "set" /\ r = thread /\ (handle = NULL \/ handle = r)
    BY <1>15, <1>b, <1>c, SetHandleEffect DEF Goes, HandleKept
  <2>2. ASSUME NEW c \in Threads, clnt'[c].open
        PROVE  c = r \/ reg'[c].pc \in {"verify", "drop", "reg_cb", "set"}
    BY <1>15, <2>1, <2>2, <1>b, SetHandleEffect, Names DEF Goes, HandleKept
  <2>3. ASSUME NEW s \in Threads PROVE reg'[s].pc # "release"
    BY <1>15, <2>1, <1>c, SetHandleEffect DEF Goes
  <2> QED
    BY <1>15, <2>1, <2>2, <2>3, SetHandleEffect DEF HandleKept
<1>16. ASSUME NEW r \in Threads, LockToSend(r) PROVE HandleKept'
  BY <1>16, LockToSendEffect, <1>b, <1>c, <1>d DEF Goes, HandleKept
<1>17. ASSUME NEW r \in Threads, NEW d \in Devs, SendLevel(r, d) PROVE HandleKept'
  BY <1>17, SendLevelEffect, <1>b, <1>c, <1>d DEF Goes, HandleKept
<1>18. ASSUME NEW r \in Threads, LevelSent(r) PROVE HandleKept'
  BY <1>18, LevelSentEffect, <1>b, <1>c, <1>d, LevelSentSends DEF Goes, Sends, HandleKept
<1>19. ASSUME NEW r \in Threads, UnlockSend(r) PROVE HandleKept'
  BY <1>19, UnlockSendEffect, <1>b, <1>c, <1>d DEF Goes, Keeps, HandleKept
<1>20. ASSUME NEW r \in Threads, Return(r) PROVE HandleKept'
  BY <1>20, ReturnEffect, <1>b, <1>c, <1>d DEF Goes, Keeps, HandleKept
<1>21. ASSUME NEW r \in Threads, SystemFails(r) PROVE HandleKept'
  BY <1>21, SystemFailsEffect, <1>b, <1>c, <1>d DEF Goes, Keeps, HandleKept
<1>22. ASSUME NEW c \in Threads, ServerGone(c) PROVE HandleKept'
  <2>1. \A c0 \in Threads : clnt'[c0].open = clnt[c0].open
    BY <1>22, ServerGoneEffect DEF OnlyClient
  <2> QED
    BY <1>22, ServerGoneMoves, <2>1, <1>b, <1>c, <1>d DEF HandleKept
<1>23. ASSUME NEW c \in Threads, ErrorJoin(c) PROVE HandleKept'
  BY <1>23, ErrorJoinEffect, <1>b, <1>c, <1>d DEF OnlyClient, SameServer, HandleKept
<1>24. ASSUME NEW c \in Threads, ErrorCreate(c) PROVE HandleKept'
  BY <1>24, ErrorCreateEffect, <1>b, <1>c, <1>d DEF Starts, Keeps, OnlyClient, SameServer,
     HandleKept
<1>25. ASSUME NEW d \in Devs, LockRequest(d) PROVE HandleKept'
  BY <1>25, LockRequestEffect, <1>b, <1>c, <1>d DEF HandleKept
<1>26. ASSUME NEW d \in Devs, EndRequest(d) PROVE HandleKept'
  BY <1>26, EndRequestEffect, <1>b, <1>c, <1>d, EndRequestSends DEF Sends, HandleKept
<1>27. ASSUME NEW d \in Devs, NEW lvl \in Levels, Request(d, lvl) PROVE HandleKept'
  BY <1>27, RequestEffect, <1>b, <1>c, <1>d DEF HandleKept
<1>28. ASSUME Close PROVE HandleKept'
  BY <1>28, CloseEffect, <1>b, <1>c, <1>d DEF HandleKept
<1>29. ASSUME JoinThread PROVE HandleKept'
  BY <1>29, JoinThreadEffect, <1>b, <1>c, <1>d DEF HandleKept
<1>30. ASSUME ReleaseHandle PROVE HandleKept'
  BY <1>30, ReleaseHandleMoves, <1>b, <1>c, <1>d, ReleaseHandleCloses DEF OnlyCloses, HandleKept
<1>31. ASSUME UNCHANGED vars PROVE HandleKept'
  BY <1>31, <1>b, <1>c, <1>d DEF vars, info, HandleKept
<1> QED
  BY <1>1, <1>2, <1>3, <1>4, <1>5, <1>6, <1>7, <1>8, <1>9, <1>10, <1>11, <1>12, <1>13, <1>14,
     <1>15, <1>16, <1>17, <1>18, <1>19, <1>20, <1>21, <1>22, <1>23, <1>24, <1>25, <1>26, <1>27,
     <1>28, <1>29, <1>30, <1>31 DEF Next, RegStep, ReaderStep, RequestStep

\* A handle is published by its own thread.
LEMMA NextPublished ==
  ASSUME TypeOK, ChainInv, ClientInv, CallbackInv, PublishInv, [Next]_vars
  PROVE  PublishedInv'
<1>1. ASSUME ServerUp PROVE PublishedInv'
  BY <1>1, ServerUpEffect, Names DEF PublishedInv, PublishInv, Publishing, TypeOK
<1>2. ASSUME ServerDown PROVE PublishedInv'
  BY <1>2, ServerDownEffect, Names DEF PublishedInv, PublishInv, Publishing, TypeOK
<1>3. ASSUME NEW r \in Threads, Start(r) PROVE PublishedInv'
  BY <1>3, StartEffect, Names DEF Goes, PublishedInv, PublishInv, Publishing, TypeOK
<1>4. ASSUME NEW r \in Threads, ReleaseOld(r) PROVE PublishedInv'
  BY <1>4, ReleaseOldMoves, Names DEF Goes, PublishedInv, PublishInv, Publishing, TypeOK
<1>5. ASSUME NEW r \in Threads, InitNotifier(r) PROVE PublishedInv'
  BY <1>5, InitNotifierEffect, Names DEF Goes, PublishedInv, PublishInv, Publishing, TypeOK
<1>6. ASSUME NEW r \in Threads, ClearSignal(r) PROVE PublishedInv'
  BY <1>6, ClearSignalEffect, Names DEF Goes, PublishedInv, PublishInv, Publishing, TypeOK
<1>7. ASSUME NEW r \in Threads, Lookup(r) PROVE PublishedInv'
  BY <1>7, LookupEffect, Names DEF Goes, PublishedInv, PublishInv, Publishing, TypeOK
<1>8. ASSUME NEW r \in Threads, WaitForServer(r) PROVE PublishedInv'
  BY <1>8, WaitForServerEffect, Names DEF Goes, PublishedInv, PublishInv, Publishing, TypeOK
<1>9. ASSUME NEW r \in Threads, InitClient(r) PROVE PublishedInv'
  BY <1>9, InitClientMoves, Names DEF Goes, PublishedInv, PublishInv, Publishing, TypeOK
<1>10. ASSUME NEW r \in Threads, VerifyDevices(r) PROVE PublishedInv'
  BY <1>10, VerifyDevicesEffect, Names DEF Goes, PublishedInv, PublishInv, Publishing, TypeOK
<1>11. ASSUME NEW r \in Threads, Drop(r) PROVE PublishedInv'
  BY <1>11, DropEffect, Names DEF Goes, PublishedInv, PublishInv, Publishing, TypeOK
<1>12. ASSUME NEW r \in Threads, RegisterErrorCb(r) PROVE PublishedInv'
  BY <1>12, RegisterErrorCbMoves, Names DEF Goes, PublishedInv, PublishInv, Publishing, TypeOK
<1>13. ASSUME NEW r \in Threads, OwnJoin(r) PROVE PublishedInv'
  BY <1>13, OwnJoinEffect, Names DEF Goes, PublishedInv, PublishInv, Publishing, TypeOK
<1>14. ASSUME NEW r \in Threads, OwnCreate(r) PROVE PublishedInv'
  BY <1>14, OwnCreateEffect, Names DEF Starts, PublishedInv, PublishInv, Publishing, TypeOK
<1>15. ASSUME NEW r \in Threads, SetHandle(r) PROVE PublishedInv'
  BY <1>15, SetHandleEffect, Names DEF Goes, PublishedInv, PublishInv, Publishing, TypeOK
<1>16. ASSUME NEW r \in Threads, LockToSend(r) PROVE PublishedInv'
  BY <1>16, LockToSendEffect, Names DEF Goes, PublishedInv, PublishInv, Publishing, TypeOK
<1>17. ASSUME NEW r \in Threads, NEW d \in Devs, SendLevel(r, d) PROVE PublishedInv'
  BY <1>17, SendLevelEffect, Names DEF Goes, PublishedInv, PublishInv, Publishing, TypeOK
<1>18. ASSUME NEW r \in Threads, LevelSent(r) PROVE PublishedInv'
  BY <1>18, LevelSentEffect, Names, LevelSentSends DEF Goes, Sends, PublishedInv, PublishInv,
     Publishing, TypeOK
<1>19. ASSUME NEW r \in Threads, UnlockSend(r) PROVE PublishedInv'
  BY <1>19, UnlockSendEffect, Names DEF Goes, PublishedInv, PublishInv, Publishing, TypeOK
<1>20. ASSUME NEW r \in Threads, Return(r) PROVE PublishedInv'
  BY <1>20, ReturnEffect, Names DEF Goes, PublishedInv, PublishInv, Publishing, TypeOK
<1>21. ASSUME NEW r \in Threads, SystemFails(r) PROVE PublishedInv'
  BY <1>21, SystemFailsEffect, Names DEF Goes, PublishedInv, PublishInv, Publishing, TypeOK
<1>22. ASSUME NEW c \in Threads, ServerGone(c) PROVE PublishedInv'
  BY <1>22, ServerGoneMoves, Names DEF PublishedInv, PublishInv, Publishing, TypeOK
<1>23. ASSUME NEW c \in Threads, ErrorJoin(c) PROVE PublishedInv'
  BY <1>23, ErrorJoinEffect, Names DEF PublishedInv, PublishInv, Publishing, TypeOK
<1>24. ASSUME NEW c \in Threads, ErrorCreate(c) PROVE PublishedInv'
  BY <1>24, ErrorCreateEffect, Names DEF Starts, PublishedInv, PublishInv, Publishing, TypeOK
<1>25. ASSUME NEW d \in Devs, LockRequest(d) PROVE PublishedInv'
  BY <1>25, LockRequestEffect, Names DEF PublishedInv, PublishInv, Publishing, TypeOK
<1>26. ASSUME NEW d \in Devs, EndRequest(d) PROVE PublishedInv'
  BY <1>26, EndRequestEffect, Names, EndRequestSends DEF Sends, PublishedInv, PublishInv,
     Publishing, TypeOK
<1>27. ASSUME NEW d \in Devs, NEW lvl \in Levels, Request(d, lvl) PROVE PublishedInv'
  BY <1>27, RequestEffect, Names DEF PublishedInv, PublishInv, Publishing, TypeOK
<1>28. ASSUME Close PROVE PublishedInv'
  BY <1>28, CloseEffect, Names DEF PublishedInv, PublishInv, Publishing, TypeOK
<1>29. ASSUME JoinThread PROVE PublishedInv'
  BY <1>29, JoinThreadEffect, Names DEF PublishedInv, PublishInv, Publishing, TypeOK
<1>30. ASSUME ReleaseHandle PROVE PublishedInv'
  BY <1>30, ReleaseHandleMoves, Names DEF PublishedInv, PublishInv, Publishing, TypeOK
<1>31. ASSUME UNCHANGED vars PROVE PublishedInv'
  BY <1>31, Names DEF vars, info, PublishedInv, PublishInv, Publishing, TypeOK
<1> QED
  BY <1>1, <1>2, <1>3, <1>4, <1>5, <1>6, <1>7, <1>8, <1>9, <1>10, <1>11, <1>12, <1>13, <1>14,
     <1>15, <1>16, <1>17, <1>18, <1>19, <1>20, <1>21, <1>22, <1>23, <1>24, <1>25, <1>26, <1>27,
     <1>28, <1>29, <1>30, <1>31 DEF Next, RegStep, ReaderStep, RequestStep

\* Requests go to the handle.
LEMMA NextRequest ==
  ASSUME TypeOK, ChainInv, ClientInv, CallbackInv, PublishInv, NEW d0 \in Devs, [Next]_vars
  PROVE  RequestOf(d0)'
<1>0. RequestOf(d0)
  BY DEF PublishInv
<1>h. handle = NULL \/ handle \in Threads
  BY DEF TypeOK
<1>m. req[d0].pc = "sending" => mtx = d0
  BY DEF TypeOK
<1>1. ASSUME ServerUp PROVE RequestOf(d0)'
  BY <1>1, ServerUpEffect, <1>0, <1>h DEF RequestOf
<1>2. ASSUME ServerDown PROVE RequestOf(d0)'
  BY <1>2, ServerDownEffect, <1>0, <1>h DEF RequestOf
<1>3. ASSUME NEW r \in Threads, Start(r) PROVE RequestOf(d0)'
  BY <1>3, StartEffect, <1>0, <1>h DEF Goes, RequestOf
<1>4. ASSUME NEW r \in Threads, ReleaseOld(r) PROVE RequestOf(d0)'
  BY <1>4, ReleaseOldMoves, <1>0, <1>h DEF Goes, RequestOf
<1>5. ASSUME NEW r \in Threads, InitNotifier(r) PROVE RequestOf(d0)'
  BY <1>5, InitNotifierEffect, <1>0, <1>h DEF Goes, RequestOf
<1>6. ASSUME NEW r \in Threads, ClearSignal(r) PROVE RequestOf(d0)'
  BY <1>6, ClearSignalEffect, <1>0, <1>h DEF Goes, RequestOf
<1>7. ASSUME NEW r \in Threads, Lookup(r) PROVE RequestOf(d0)'
  BY <1>7, LookupEffect, <1>0, <1>h DEF Goes, RequestOf
<1>8. ASSUME NEW r \in Threads, WaitForServer(r) PROVE RequestOf(d0)'
  BY <1>8, WaitForServerEffect, <1>0, <1>h DEF Goes, RequestOf
<1>9. ASSUME NEW r \in Threads, InitClient(r) PROVE RequestOf(d0)'
  BY <1>9, InitClientMoves, <1>0, <1>h DEF Goes, RequestOf
<1>10. ASSUME NEW r \in Threads, VerifyDevices(r) PROVE RequestOf(d0)'
  BY <1>10, VerifyDevicesEffect, <1>0, <1>h DEF Goes, RequestOf
<1>11. ASSUME NEW r \in Threads, Drop(r) PROVE RequestOf(d0)'
  BY <1>11, DropEffect, <1>0, <1>h DEF Goes, RequestOf
<1>12. ASSUME NEW r \in Threads, RegisterErrorCb(r) PROVE RequestOf(d0)'
  BY <1>12, RegisterErrorCbMoves, <1>0, <1>h DEF Goes, RequestOf
<1>13. ASSUME NEW r \in Threads, OwnJoin(r) PROVE RequestOf(d0)'
  BY <1>13, OwnJoinEffect, <1>0, <1>h DEF Goes, RequestOf
<1>14. ASSUME NEW r \in Threads, OwnCreate(r) PROVE RequestOf(d0)'
  BY <1>14, OwnCreateEffect, <1>0, <1>h DEF Starts, RequestOf
<1>15. ASSUME NEW r \in Threads, SetHandle(r) PROVE RequestOf(d0)'
  BY <1>15, SetHandleEffect, <1>0, <1>h DEF Goes, RequestOf
<1>16. ASSUME NEW r \in Threads, LockToSend(r) PROVE RequestOf(d0)'
  BY <1>16, LockToSendEffect, <1>0, <1>h, <1>m, Names DEF Goes, RequestOf
<1>17. ASSUME NEW r \in Threads, NEW d \in Devs, SendLevel(r, d) PROVE RequestOf(d0)'
  BY <1>17, SendLevelEffect, <1>0, <1>h DEF Goes, RequestOf
<1>18. ASSUME NEW r \in Threads, LevelSent(r) PROVE RequestOf(d0)'
  BY <1>18, LevelSentEffect, <1>0, <1>h, LevelSentSends DEF Goes, Sends, RequestOf
<1>19. ASSUME NEW r \in Threads, UnlockSend(r) PROVE RequestOf(d0)'
  BY <1>19, UnlockSendEffect, <1>0, <1>h DEF Goes, RequestOf
<1>20. ASSUME NEW r \in Threads, Return(r) PROVE RequestOf(d0)'
  BY <1>20, ReturnEffect, <1>0, <1>h DEF Goes, RequestOf
<1>21. ASSUME NEW r \in Threads, SystemFails(r) PROVE RequestOf(d0)'
  BY <1>21, SystemFailsEffect, <1>0, <1>h DEF Goes, RequestOf
<1>22. ASSUME NEW c \in Threads, ServerGone(c) PROVE RequestOf(d0)'
  BY <1>22, ServerGoneMoves, <1>0, <1>h DEF RequestOf
<1>23. ASSUME NEW c \in Threads, ErrorJoin(c) PROVE RequestOf(d0)'
  BY <1>23, ErrorJoinEffect, <1>0, <1>h DEF RequestOf
<1>24. ASSUME NEW c \in Threads, ErrorCreate(c) PROVE RequestOf(d0)'
  BY <1>24, ErrorCreateEffect, <1>0, <1>h DEF Starts, RequestOf
<1>25. ASSUME NEW d \in Devs, LockRequest(d) PROVE RequestOf(d0)'
  BY <1>25, LockRequestEffect, <1>0, <1>h DEF RequestOf
<1>26. ASSUME NEW d \in Devs, EndRequest(d) PROVE RequestOf(d0)'
  BY <1>26, EndRequestEffect, <1>0, <1>h, EndRequestSends DEF Sends, RequestOf
<1>27. ASSUME NEW d \in Devs, NEW lvl \in Levels, Request(d, lvl) PROVE RequestOf(d0)'
  BY <1>27, RequestEffect, <1>0, <1>h DEF RequestOf
<1>28. ASSUME Close PROVE RequestOf(d0)'
  BY <1>28, CloseEffect, <1>0, <1>h DEF RequestOf
<1>29. ASSUME JoinThread PROVE RequestOf(d0)'
  BY <1>29, JoinThreadEffect, <1>0, <1>h DEF RequestOf
<1>30. ASSUME ReleaseHandle PROVE RequestOf(d0)'
  BY <1>30, ReleaseHandleMoves, <1>0, <1>h DEF RequestOf
<1>31. ASSUME UNCHANGED vars PROVE RequestOf(d0)'
  BY <1>31, <1>0, <1>h DEF vars, info, RequestOf
<1> QED
  BY <1>1, <1>2, <1>3, <1>4, <1>5, <1>6, <1>7, <1>8, <1>9, <1>10, <1>11, <1>12, <1>13, <1>14,
     <1>15, <1>16, <1>17, <1>18, <1>19, <1>20, <1>21, <1>22, <1>23, <1>24, <1>25, <1>26, <1>27,
     <1>28, <1>29, <1>30, <1>31 DEF Next, RegStep, ReaderStep, RequestStep

\* A thread sends the level requested last.
LEMMA NextSending ==
  ASSUME TypeOK, ChainInv, ClientInv, CallbackInv, PublishInv, NEW s \in Threads, [Next]_vars
  PROVE  SendingOf(s)'
<1>0. SendingOf(s)
  BY DEF PublishInv
<1>m. reg[s].pc = "sending" => mtx = s
  BY DEF TypeOK
<1>1. ASSUME ServerUp PROVE SendingOf(s)'
  BY <1>1, ServerUpEffect, <1>0 DEF Keeps, SendingOf
<1>2. ASSUME ServerDown PROVE SendingOf(s)'
  BY <1>2, ServerDownEffect, <1>0 DEF Keeps, SendingOf
<1>3. ASSUME NEW r \in Threads, Start(r) PROVE SendingOf(s)'
  BY <1>3, StartEffect, <1>0 DEF Goes, Keeps, SendingOf
<1>4. ASSUME NEW r \in Threads, ReleaseOld(r) PROVE SendingOf(s)'
  BY <1>4, ReleaseOldMoves, <1>0, Names DEF Goes, SendingOf
<1>5. ASSUME NEW r \in Threads, InitNotifier(r) PROVE SendingOf(s)'
  BY <1>5, InitNotifierEffect, <1>0 DEF Goes, Keeps, SendingOf
<1>6. ASSUME NEW r \in Threads, ClearSignal(r) PROVE SendingOf(s)'
  BY <1>6, ClearSignalEffect, <1>0 DEF Goes, Keeps, SendingOf
<1>7. ASSUME NEW r \in Threads, Lookup(r) PROVE SendingOf(s)'
  BY <1>7, LookupEffect, <1>0 DEF Goes, Keeps, SendingOf
<1>8. ASSUME NEW r \in Threads, WaitForServer(r) PROVE SendingOf(s)'
  BY <1>8, WaitForServerEffect, <1>0 DEF Goes, Keeps, SendingOf
<1>9. ASSUME NEW r \in Threads, InitClient(r) PROVE SendingOf(s)'
  BY <1>9, InitClientMoves, <1>0 DEF Goes, Keeps, SendingOf
<1>10. ASSUME NEW r \in Threads, VerifyDevices(r) PROVE SendingOf(s)'
  BY <1>10, VerifyDevicesEffect, <1>0 DEF Goes, Keeps, SendingOf
<1>11. ASSUME NEW r \in Threads, Drop(r) PROVE SendingOf(s)'
  BY <1>11, DropEffect, <1>0 DEF Goes, Keeps, SendingOf
<1>12. ASSUME NEW r \in Threads, RegisterErrorCb(r) PROVE SendingOf(s)'
  BY <1>12, RegisterErrorCbMoves, <1>0 DEF Goes, SendingOf
<1>13. ASSUME NEW r \in Threads, OwnJoin(r) PROVE SendingOf(s)'
  BY <1>13, OwnJoinEffect, <1>0 DEF Goes, SendingOf
<1>14. ASSUME NEW r \in Threads, OwnCreate(r) PROVE SendingOf(s)'
  BY <1>14, OwnCreateEffect, <1>0 DEF Keeps, Starts, SendingOf
<1>15. ASSUME NEW r \in Threads, SetHandle(r) PROVE SendingOf(s)'
  BY <1>15, SetHandleEffect, <1>0 DEF Goes, Keeps, SendingOf
<1>16. ASSUME NEW r \in Threads, LockToSend(r) PROVE SendingOf(s)'
  BY <1>16, LockToSendEffect, <1>0 DEF Goes, SendingOf
<1>17. ASSUME NEW r \in Threads, NEW d \in Devs, SendLevel(r, d) PROVE SendingOf(s)'
  BY <1>17, SendLevelEffect, <1>0 DEF Goes, SendingOf
<1>18. ASSUME NEW r \in Threads, LevelSent(r) PROVE SendingOf(s)'
  BY <1>18, LevelSentEffect, <1>0, LevelSentSends DEF Goes, Sends, SendingOf
<1>19. ASSUME NEW r \in Threads, UnlockSend(r) PROVE SendingOf(s)'
  BY <1>19, UnlockSendEffect, <1>0 DEF Goes, Keeps, SendingOf
<1>20. ASSUME NEW r \in Threads, Return(r) PROVE SendingOf(s)'
  BY <1>20, ReturnEffect, <1>0 DEF Goes, Keeps, SendingOf
<1>21. ASSUME NEW r \in Threads, SystemFails(r) PROVE SendingOf(s)'
  BY <1>21, SystemFailsEffect, <1>0 DEF Goes, Keeps, SendingOf
<1>22. ASSUME NEW c \in Threads, ServerGone(c) PROVE SendingOf(s)'
  BY <1>22, ServerGoneMoves, <1>0 DEF SendingOf
<1>23. ASSUME NEW c \in Threads, ErrorJoin(c) PROVE SendingOf(s)'
  BY <1>23, ErrorJoinEffect, <1>0 DEF SendingOf
<1>24. ASSUME NEW c \in Threads, ErrorCreate(c) PROVE SendingOf(s)'
  BY <1>24, ErrorCreateEffect, <1>0 DEF Starts, Keeps, SendingOf
<1>25. ASSUME NEW d \in Devs, LockRequest(d) PROVE SendingOf(s)'
  <2>1. reg[s].pc # "sending" \/ UNCHANGED prev_req_lvl
    BY <1>25, <1>m, LockRequestEffect, Names
  <2> QED
    BY <1>25, <2>1, <1>0, LockRequestEffect DEF SendingOf
<1>26. ASSUME NEW d \in Devs, EndRequest(d) PROVE SendingOf(s)'
  <2>1. reg[s].pc # "sending"
    BY <1>26, <1>m, EndRequestEffect, Names DEF TypeOK
  <2> QED
    BY <1>26, <2>1, <1>0, EndRequestEffect DEF SendingOf
<1>27. ASSUME NEW d \in Devs, NEW lvl \in Levels, Request(d, lvl) PROVE SendingOf(s)'
  BY <1>27, RequestEffect, <1>0 DEF SendingOf
<1>28. ASSUME Close PROVE SendingOf(s)'
  BY <1>28, CloseEffect, <1>0 DEF SendingOf
<1>29. ASSUME JoinThread PROVE SendingOf(s)'
  BY <1>29, JoinThreadEffect, <1>0 DEF SendingOf
<1>30. ASSUME ReleaseHandle PROVE SendingOf(s)'
  BY <1>30, ReleaseHandleMoves, <1>0, Names DEF SendingOf
<1>31. ASSUME UNCHANGED vars PROVE SendingOf(s)'
  BY <1>31, <1>0 DEF vars, info, SendingOf
<1> QED
  BY <1>1, <1>2, <1>3, <1>4, <1>5, <1>6, <1>7, <1>8, <1>9, <1>10, <1>11, <1>12, <1>13, <1>14,
     <1>15, <1>16, <1>17, <1>18, <1>19, <1>20, <1>21, <1>22, <1>23, <1>24, <1>25, <1>26, <1>27,
     <1>28, <1>29, <1>30, <1>31 DEF Next, RegStep, ReaderStep, RequestStep

\* A client that answers did before, for the same server, unless it was made.
LEMMA AnswersFrom ==
  ASSUME TypeOK, ChainInv, ClientInv, CallbackInv, PublishInv, NEW s \in Threads, Answers(s)',
         reg'[s].pc # "verify", [Next]_vars
  PROVE  (Answers(s) /\ server'.devs = server.devs)
<1>1. ASSUME ServerUp PROVE (Answers(s) /\ server'.devs = server.devs)
  BY <1>1, ServerUpEffect, Numbers DEF ClientInv, ClientOf, Answers, Connected, Current
<1>2. ASSUME ServerDown PROVE (Answers(s) /\ server'.devs = server.devs)
  BY <1>2, ServerDownEffect DEF Answers, Connected, Current
<1>3. ASSUME NEW r \in Threads, Start(r) PROVE (Answers(s) /\ server'.devs = server.devs)
  BY <1>3, StartEffect DEF Goes, Answers, Connected, Current
<1>4. ASSUME NEW r \in Threads, ReleaseOld(r) PROVE (Answers(s) /\ server'.devs = server.devs)
  BY <1>4, ReleaseOldMoves, ReleaseOldCloses DEF Goes, OnlyCloses, Answers, Connected, Current
<1>5. ASSUME NEW r \in Threads, InitNotifier(r) PROVE (Answers(s) /\ server'.devs = server.devs)
  BY <1>5, InitNotifierEffect DEF Goes, Answers, Connected, Current
<1>6. ASSUME NEW r \in Threads, ClearSignal(r) PROVE (Answers(s) /\ server'.devs = server.devs)
  BY <1>6, ClearSignalEffect DEF Goes, Answers, Connected, Current
<1>7. ASSUME NEW r \in Threads, Lookup(r) PROVE (Answers(s) /\ server'.devs = server.devs)
  BY <1>7, LookupEffect DEF Goes, Answers, Connected, Current
<1>8. ASSUME NEW r \in Threads, WaitForServer(r) PROVE (Answers(s) /\ server'.devs = server.devs)
  BY <1>8, WaitForServerEffect DEF Goes, Answers, Connected, Current
<1>9. ASSUME NEW r \in Threads, InitClient(r) PROVE (Answers(s) /\ server'.devs = server.devs)
  BY <1>9, InitClientEffect DEF Goes, OnlyClient, Answers, Connected, Current
<1>10. ASSUME NEW r \in Threads, VerifyDevices(r) PROVE (Answers(s) /\ server'.devs = server.devs)
  BY <1>10, VerifyDevicesEffect DEF Goes, Answers, Connected, Current
<1>11. ASSUME NEW r \in Threads, Drop(r) PROVE (Answers(s) /\ server'.devs = server.devs)
  BY <1>11, DropEffect, DropCloses DEF Goes, OnlyCloses, Answers, Connected, Current
<1>12. ASSUME NEW r \in Threads, RegisterErrorCb(r)
      PROVE  (Answers(s) /\ server'.devs = server.devs)
  <2>1. clnt'[s].gen = clnt[s].gen /\ clnt'[s].open = clnt[s].open /\ clnt'[s].valid = clnt[s].valid
    BY <1>12, RegisterErrorCbEffect DEF OnlyClient, SameServer
  <2> QED
    BY <1>12, <2>1, RegisterErrorCbMoves DEF Answers, Connected, Current
<1>13. ASSUME NEW r \in Threads, OwnJoin(r) PROVE (Answers(s) /\ server'.devs = server.devs)
  BY <1>13, OwnJoinEffect DEF Goes, Answers, Connected, Current
<1>14. ASSUME NEW r \in Threads, OwnCreate(r) PROVE (Answers(s) /\ server'.devs = server.devs)
  BY <1>14, OwnCreateEffect DEF Starts, Answers, Connected, Current
<1>15. ASSUME NEW r \in Threads, SetHandle(r) PROVE (Answers(s) /\ server'.devs = server.devs)
  BY <1>15, SetHandleEffect DEF Goes, Answers, Connected, Current
<1>16. ASSUME NEW r \in Threads, LockToSend(r) PROVE (Answers(s) /\ server'.devs = server.devs)
  BY <1>16, LockToSendEffect DEF Goes, Answers, Connected, Current
<1>17. ASSUME NEW r \in Threads, NEW d \in Devs, SendLevel(r, d)
      PROVE  (Answers(s) /\ server'.devs = server.devs)
  BY <1>17, SendLevelEffect DEF Goes, Answers, Connected, Current
<1>18. ASSUME NEW r \in Threads, LevelSent(r) PROVE (Answers(s) /\ server'.devs = server.devs)
  BY <1>18, LevelSentEffect, LevelSentSends DEF Goes, Sends, Answers, Connected, Current
<1>19. ASSUME NEW r \in Threads, UnlockSend(r) PROVE (Answers(s) /\ server'.devs = server.devs)
  BY <1>19, UnlockSendEffect DEF Goes, Answers, Connected, Current
<1>20. ASSUME NEW r \in Threads, Return(r) PROVE (Answers(s) /\ server'.devs = server.devs)
  BY <1>20, ReturnEffect DEF Goes, Answers, Connected, Current
<1>21. ASSUME NEW r \in Threads, SystemFails(r) PROVE (Answers(s) /\ server'.devs = server.devs)
  BY <1>21, SystemFailsEffect DEF Goes, Answers, Connected, Current
<1>22. ASSUME NEW c \in Threads, ServerGone(c) PROVE (Answers(s) /\ server'.devs = server.devs)
  BY <1>22, ServerGoneEffect DEF OnlyClient, SameServer, Answers, Connected, Current
<1>23. ASSUME NEW c \in Threads, ErrorJoin(c) PROVE (Answers(s) /\ server'.devs = server.devs)
  BY <1>23, ErrorJoinEffect DEF OnlyClient, SameServer, Answers, Connected, Current
<1>24. ASSUME NEW c \in Threads, ErrorCreate(c) PROVE (Answers(s) /\ server'.devs = server.devs)
  BY <1>24, ErrorCreateEffect DEF Starts, OnlyClient, SameServer, Answers, Connected, Current
<1>25. ASSUME NEW d \in Devs, LockRequest(d) PROVE (Answers(s) /\ server'.devs = server.devs)
  BY <1>25, LockRequestEffect DEF Answers, Connected, Current
<1>26. ASSUME NEW d \in Devs, EndRequest(d) PROVE (Answers(s) /\ server'.devs = server.devs)
  BY <1>26, EndRequestEffect, EndRequestSends DEF Sends, Answers, Connected, Current
<1>27. ASSUME NEW d \in Devs, NEW lvl \in Levels, Request(d, lvl)
      PROVE  (Answers(s) /\ server'.devs = server.devs)
  BY <1>27, RequestEffect DEF Answers, Connected, Current
<1>28. ASSUME Close PROVE (Answers(s) /\ server'.devs = server.devs)
  BY <1>28, CloseEffect DEF Answers, Connected, Current
<1>29. ASSUME JoinThread PROVE (Answers(s) /\ server'.devs = server.devs)
  BY <1>29, JoinThreadEffect DEF Answers, Connected, Current
<1>30. ASSUME ReleaseHandle PROVE (Answers(s) /\ server'.devs = server.devs)
  BY <1>30, ReleaseHandleMoves, ReleaseHandleCloses DEF OnlyCloses, Answers, Connected, Current
<1>31. ASSUME UNCHANGED vars PROVE (Answers(s) /\ server'.devs = server.devs)
  BY <1>31 DEF vars, info, Answers, Connected, Current
<1> QED
  BY <1>1, <1>2, <1>3, <1>4, <1>5, <1>6, <1>7, <1>8, <1>9, <1>10, <1>11, <1>12, <1>13, <1>14,
     <1>15, <1>16, <1>17, <1>18, <1>19, <1>20, <1>21, <1>22, <1>23, <1>24, <1>25, <1>26, <1>27,
     <1>28, <1>29, <1>30, <1>31 DEF Next, RegStep, ReaderStep, RequestStep

\* The devices of a server that answers are known.
LEMMA NextSupported ==
  ASSUME TypeOK, ChainInv, ClientInv, CallbackInv, PublishInv, SupportedInv, NEW s \in Threads,
         [Next]_vars
  PROVE  SupportedOf(s)'
<1> SUFFICES ASSUME Answers(s)', reg'[s].pc \in After \cup {"reg_cb"}
               PROVE  (server.devs \subseteq supported)'
  BY DEF SupportedOf
<1>0. Answers(s) /\ server'.devs = server.devs
  BY AnswersFrom DEF After
<1>a. s = thread /\ ~Gone(s) /\ reg[s].pc \notin Before
  BY <1>0, Answering
<1>b. reg[s].pc \in After \cup {"reg_cb"} => server.devs \subseteq supported
  BY <1>0 DEF SupportedInv, SupportedOf
<1>c. reg[s].pc \notin {"init", "notifier"}
  BY <1>a DEF Before
<1>d. reg[s].pc \notin {"join", "create"} /\ clnt[s].reader = "poll" /\ s = thread
  BY <1>a DEF CallbackInv, CallbackOf
<1>1. ASSUME ServerUp PROVE (server.devs \subseteq supported)'
  BY <1>1, ServerUpEffect, <1>0, <1>b, <1>c, <1>d DEF After
<1>2. ASSUME ServerDown PROVE (server.devs \subseteq supported)'
  BY <1>2, ServerDownEffect, <1>0, <1>b, <1>c, <1>d DEF After
<1>3. ASSUME NEW r \in Threads, Start(r) PROVE (server.devs \subseteq supported)'
  BY <1>3, StartEffect, <1>0, <1>b, <1>c, <1>d DEF Goes, After
<1>4. ASSUME NEW r \in Threads, ReleaseOld(r) PROVE (server.devs \subseteq supported)'
  BY <1>4, ReleaseOldMoves, <1>0, <1>b, <1>c, <1>d DEF Goes, After
<1>5. ASSUME NEW r \in Threads, InitNotifier(r) PROVE (server.devs \subseteq supported)'
  BY <1>5, InitNotifierEffect, <1>0, <1>b, <1>c, <1>d DEF Goes, After
<1>6. ASSUME NEW r \in Threads, ClearSignal(r) PROVE (server.devs \subseteq supported)'
  BY <1>6, ClearSignalEffect, <1>0, <1>b, <1>c, <1>d DEF Goes, After
<1>7. ASSUME NEW r \in Threads, Lookup(r) PROVE (server.devs \subseteq supported)'
  BY <1>7, LookupEffect, <1>0, <1>b, <1>c, <1>d DEF Goes, After
<1>8. ASSUME NEW r \in Threads, WaitForServer(r) PROVE (server.devs \subseteq supported)'
  BY <1>8, WaitForServerEffect, <1>0, <1>b, <1>c, <1>d DEF Goes, After
<1>9. ASSUME NEW r \in Threads, InitClient(r) PROVE (server.devs \subseteq supported)'
  BY <1>9, InitClientMoves, <1>0, <1>b, <1>c, <1>d DEF Goes, After
<1>10. ASSUME NEW r \in Threads, VerifyDevices(r) PROVE (server.devs \subseteq supported)'
  BY <1>10, VerifyDevicesEffect, <1>0, <1>b, <1>c, <1>d DEF Goes, After
<1>11. ASSUME NEW r \in Threads, Drop(r) PROVE (server.devs \subseteq supported)'
  BY <1>11, DropEffect, <1>0, <1>b, <1>c, <1>d DEF Goes, Closes, Answers, Connected, After
<1>12. ASSUME NEW r \in Threads, RegisterErrorCb(r) PROVE (server.devs \subseteq supported)'
  BY <1>12, RegisterErrorCbMoves, <1>0, <1>b, <1>c, <1>d DEF Goes, After
<1>13. ASSUME NEW r \in Threads, OwnJoin(r) PROVE (server.devs \subseteq supported)'
  BY <1>13, OwnJoinEffect, <1>0, <1>b, <1>c, <1>d DEF Goes, CallbackInv, CallbackOf, After
<1>14. ASSUME NEW r \in Threads, OwnCreate(r) PROVE (server.devs \subseteq supported)'
  BY <1>14, OwnCreateEffect, <1>0, <1>b, <1>c, <1>d DEF Starts, After
<1>15. ASSUME NEW r \in Threads, SetHandle(r) PROVE (server.devs \subseteq supported)'
  BY <1>15, SetHandleEffect, <1>0, <1>b, <1>c, <1>d DEF Goes, After
<1>16. ASSUME NEW r \in Threads, LockToSend(r) PROVE (server.devs \subseteq supported)'
  BY <1>16, LockToSendEffect, <1>0, <1>b, <1>c, <1>d DEF Goes, After
<1>17. ASSUME NEW r \in Threads, NEW d \in Devs, SendLevel(r, d)
      PROVE  (server.devs \subseteq supported)'
  BY <1>17, SendLevelEffect, <1>0, <1>b, <1>c, <1>d DEF Goes, After
<1>18. ASSUME NEW r \in Threads, LevelSent(r) PROVE (server.devs \subseteq supported)'
  BY <1>18, LevelSentEffect, <1>0, <1>b, <1>c, <1>d, LevelSentSends DEF Goes, Sends, After
<1>19. ASSUME NEW r \in Threads, UnlockSend(r) PROVE (server.devs \subseteq supported)'
  BY <1>19, UnlockSendEffect, <1>0, <1>b, <1>c, <1>d DEF Goes, After
<1>20. ASSUME NEW r \in Threads, Return(r) PROVE (server.devs \subseteq supported)'
  BY <1>20, ReturnEffect, <1>0, <1>b, <1>c, <1>d DEF Goes, After
<1>21. ASSUME NEW r \in Threads, SystemFails(r) PROVE (server.devs \subseteq supported)'
  BY <1>21, SystemFailsEffect, <1>0, <1>b, <1>c, <1>d DEF Goes, After
<1>22. ASSUME NEW c \in Threads, ServerGone(c) PROVE (server.devs \subseteq supported)'
  BY <1>22, ServerGoneMoves, <1>0, <1>b, <1>c, <1>d DEF After
<1>23. ASSUME NEW c \in Threads, ErrorJoin(c) PROVE (server.devs \subseteq supported)'
  BY <1>23, ErrorJoinEffect, <1>0, <1>b, <1>c, <1>d DEF CallbackInv, CallbackOf, After
<1>24. ASSUME NEW c \in Threads, ErrorCreate(c) PROVE (server.devs \subseteq supported)'
  BY <1>24, ErrorCreateEffect, <1>0, <1>b, <1>c, <1>d DEF Starts, CallbackInv, CallbackOf, After
<1>25. ASSUME NEW d \in Devs, LockRequest(d) PROVE (server.devs \subseteq supported)'
  BY <1>25, LockRequestEffect, <1>0, <1>b, <1>c, <1>d DEF After
<1>26. ASSUME NEW d \in Devs, EndRequest(d) PROVE (server.devs \subseteq supported)'
  BY <1>26, EndRequestEffect, <1>0, <1>b, <1>c, <1>d, EndRequestSends DEF Sends, After
<1>27. ASSUME NEW d \in Devs, NEW lvl \in Levels, Request(d, lvl)
      PROVE  (server.devs \subseteq supported)'
  BY <1>27, RequestEffect, <1>0, <1>b, <1>c, <1>d DEF After
<1>28. ASSUME Close PROVE (server.devs \subseteq supported)'
  BY <1>28, CloseEffect, <1>0, <1>b, <1>c, <1>d DEF After
<1>29. ASSUME JoinThread PROVE (server.devs \subseteq supported)'
  BY <1>29, JoinThreadEffect, <1>0, <1>b, <1>c, <1>d DEF After
<1>30. ASSUME ReleaseHandle PROVE (server.devs \subseteq supported)'
  BY <1>30, ReleaseHandleMoves, <1>0, <1>b, <1>c, <1>d DEF After
<1>31. ASSUME UNCHANGED vars PROVE (server.devs \subseteq supported)'
  BY <1>31, <1>0, <1>b, <1>c, <1>d DEF vars, info, After
<1> QED
  BY <1>1, <1>2, <1>3, <1>4, <1>5, <1>6, <1>7, <1>8, <1>9, <1>10, <1>11, <1>12, <1>13, <1>14,
     <1>15, <1>16, <1>17, <1>18, <1>19, <1>20, <1>21, <1>22, <1>23, <1>24, <1>25, <1>26, <1>27,
     <1>28, <1>29, <1>30, <1>31 DEF Next, RegStep, ReaderStep, RequestStep

\* The service has the levels, or they have still to be sent.
LEMMA NextLevel ==
  ASSUME TypeOK, ChainInv, ClientInv, CallbackInv, PublishInv, SupportedInv, LevelInv, [Next]_vars
  PROVE  LevelInv'
<1> SUFFICES ASSUME handle' # NULL, Answers(handle)', NEW d0 \in server'.devs
               PROVE  LevelOf(handle, d0)'
  BY DEF LevelInv
<1>a. PICK h \in Threads : h = handle'
  BY NextType DEF TypeOK
<1>b. reg'[h].pc \in Publishing
  BY <1>a, NextPublished DEF PublishedInv
<1>c. Answers(h) /\ server'.devs = server.devs /\ server.up /\ server'.up
  BY <1>a, <1>b, AnswersFrom DEF Publishing, Answers, Current
<1>d. d0 \in Devs
  BY <1>c, Numbers
<1>e. handle = h => LevelOf(h, d0)
  BY <1>a, <1>c, Names DEF LevelInv
<1>f. reg[h].pc = "send" => d0 \in supported /\ reg[h].dev # d0
  BY <1>c, <1>d, Names DEF SupportedInv, SupportedOf, After, PublishInv, SendingOf
<1> SUFFICES LevelOf(h, d0)'
  BY <1>a DEF LevelOf, ToSend
<1>1. ASSUME ServerUp PROVE LevelOf(h, d0)'
  BY <1>1, ServerUpEffect, <1>a, <1>b, <1>c, <1>e DEF LevelOf, ToSend
<1>2. ASSUME ServerDown PROVE LevelOf(h, d0)'
  BY <1>2, ServerDownEffect, <1>a, <1>b, <1>c, <1>e DEF LevelOf, ToSend
<1>3. ASSUME NEW r \in Threads, Start(r) PROVE LevelOf(h, d0)'
  BY <1>3, StartEffect, <1>a, <1>b, <1>c, <1>e DEF Goes, LevelOf, ToSend
<1>4. ASSUME NEW r \in Threads, ReleaseOld(r) PROVE LevelOf(h, d0)'
  BY <1>4, ReleaseOldMoves, <1>a, <1>b, <1>c, <1>e DEF Goes, LevelOf, ToSend
<1>5. ASSUME NEW r \in Threads, InitNotifier(r) PROVE LevelOf(h, d0)'
  BY <1>5, InitNotifierEffect, <1>a, <1>b, <1>c, <1>e DEF Goes, LevelOf, ToSend
<1>6. ASSUME NEW r \in Threads, ClearSignal(r) PROVE LevelOf(h, d0)'
  BY <1>6, ClearSignalEffect, <1>a, <1>b, <1>c, <1>e DEF Goes, LevelOf, ToSend
<1>7. ASSUME NEW r \in Threads, Lookup(r) PROVE LevelOf(h, d0)'
  BY <1>7, LookupEffect, <1>a, <1>b, <1>c, <1>e DEF Goes, LevelOf, ToSend
<1>8. ASSUME NEW r \in Threads, WaitForServer(r) PROVE LevelOf(h, d0)'
  BY <1>8, WaitForServerEffect, <1>a, <1>b, <1>c, <1>e DEF Goes, LevelOf, ToSend
<1>9. ASSUME NEW r \in Threads, InitClient(r) PROVE LevelOf(h, d0)'
  BY <1>9, InitClientMoves, <1>a, <1>b, <1>c, <1>e DEF Goes, LevelOf, ToSend
<1>10. ASSUME NEW r \in Threads, VerifyDevices(r) PROVE LevelOf(h, d0)'
  BY <1>10, VerifyDevicesEffect, <1>a, <1>b, <1>c, <1>e DEF Goes, LevelOf, ToSend
<1>11. ASSUME NEW r \in Threads, Drop(r) PROVE LevelOf(h, d0)'
  BY <1>11, DropEffect, <1>a, <1>b, <1>c, <1>e DEF Goes, LevelOf, ToSend
<1>12. ASSUME NEW r \in Threads, RegisterErrorCb(r) PROVE LevelOf(h, d0)'
  BY <1>12, RegisterErrorCbMoves, <1>a, <1>b, <1>c, <1>e DEF Goes, LevelOf, ToSend
<1>13. ASSUME NEW r \in Threads, OwnJoin(r) PROVE LevelOf(h, d0)'
  BY <1>13, OwnJoinEffect, <1>a, <1>b, <1>c, <1>e DEF Goes, LevelOf, ToSend
<1>14. ASSUME NEW r \in Threads, OwnCreate(r) PROVE LevelOf(h, d0)'
  BY <1>14, OwnCreateEffect, <1>a, <1>b, <1>c, <1>e DEF Starts, LevelOf, ToSend
<1>15. ASSUME NEW r \in Threads, SetHandle(r) PROVE LevelOf(h, d0)'
  BY <1>15, SetHandleEffect, <1>a, <1>b, <1>c, <1>e DEF Goes, LevelOf, ToSend
<1>16. ASSUME NEW r \in Threads, LockToSend(r) PROVE LevelOf(h, d0)'
  BY <1>16, LockToSendEffect, <1>a, <1>b, <1>c, <1>e, <1>d DEF Goes, LevelOf, ToSend
<1>17. ASSUME NEW r \in Threads, NEW d \in Devs, SendLevel(r, d) PROVE LevelOf(h, d0)'
  BY <1>17, SendLevelEffect, <1>a, <1>b, <1>c, <1>e, <1>f DEF Goes, LevelOf, ToSend
<1>18. ASSUME NEW r \in Threads, LevelSent(r) PROVE LevelOf(h, d0)'
  <2>1. PICK e \in Devs, lvl \in Levels : e = reg[r].dev /\ lvl = reg[r].lvl
        /\ Sends(reg[r].c, e, lvl)
    BY <1>18, LevelSentSends
  <2>2. reg[r].pc = "sending" /\ lvl = prev_req_lvl[e] /\ (handle = r => reg[r].c = r)
    BY <1>18, <2>1, LevelSentEffect DEF Goes, PublishInv, SendingOf
  <2>3. server'.level[d0] = server.level[d0] \/ server'.level[d0] = prev_req_lvl[d0]
    BY <2>1, <2>2, <1>c, <1>d DEF Sends
  <2>4. handle = h
    BY <1>18, <1>a, LevelSentEffect
  <2>5. CASE r = h
    <3>1. ~CallFails(h)
      BY <1>c DEF Answers, CallFails
    <3>2. d0 = e => server'.level[d0] = prev_req_lvl[d0]
      BY <2>1, <2>2, <2>4, <2>5, <3>1, <1>c DEF Sends
    <3> QED
      BY <1>18, <2>1, <2>2, <2>3, <2>4, <2>5, <3>2, <1>e, LevelSentEffect DEF Goes, LevelOf, ToSend
  <2>6. CASE r # h
    BY <1>18, <2>3, <2>4, <2>6, <1>e, LevelSentEffect DEF Goes, LevelOf, ToSend
  <2> QED
    BY <2>5, <2>6
<1>19. ASSUME NEW r \in Threads, UnlockSend(r) PROVE LevelOf(h, d0)'
  BY <1>19, UnlockSendEffect, <1>a, <1>b, <1>c, <1>e, <1>f DEF Goes, LevelOf, ToSend
<1>20. ASSUME NEW r \in Threads, Return(r) PROVE LevelOf(h, d0)'
  BY <1>20, ReturnEffect, <1>a, <1>b, <1>c, <1>e DEF Goes, LevelOf, ToSend
<1>21. ASSUME NEW r \in Threads, SystemFails(r) PROVE LevelOf(h, d0)'
  BY <1>21, SystemFailsEffect, <1>a, <1>b, <1>c, <1>e DEF Goes, LevelOf, ToSend
<1>22. ASSUME NEW c \in Threads, ServerGone(c) PROVE LevelOf(h, d0)'
  BY <1>22, ServerGoneMoves, <1>a, <1>b, <1>c, <1>e DEF LevelOf, ToSend
<1>23. ASSUME NEW c \in Threads, ErrorJoin(c) PROVE LevelOf(h, d0)'
  BY <1>23, ErrorJoinEffect, <1>a, <1>b, <1>c, <1>e DEF LevelOf, ToSend
<1>24. ASSUME NEW c \in Threads, ErrorCreate(c) PROVE LevelOf(h, d0)'
  BY <1>24, ErrorCreateEffect, <1>a, <1>b, <1>c, <1>e DEF Starts, LevelOf, ToSend
<1>25. ASSUME NEW d \in Devs, LockRequest(d) PROVE LevelOf(h, d0)'
  BY <1>25, LockRequestEffect, <1>a, <1>b, <1>c, <1>e, Names DEF LevelOf, ToSend
<1>26. ASSUME NEW d \in Devs, EndRequest(d) PROVE LevelOf(h, d0)'
  <2>1. PICK lvl \in Levels : lvl = req[d].lvl /\ Sends(req[d].c, d, lvl)
    BY <1>26, EndRequestSends
  <2>2. handle = h /\ req[d].pc = "sending" /\ reg' = reg
    BY <1>26, <1>a, EndRequestEffect
  <2>3. prev_req_lvl'[d] = lvl /\ \A e \in Devs : e # d => prev_req_lvl'[e] = prev_req_lvl[e]
    BY <1>26, <2>1, EndRequestEffect DEF TypeOK
  <2>4. CASE reg[h].pc = "lock"
    BY <2>2, <2>4 DEF LevelOf, ToSend
  <2>5. CASE req[d].c = h
    <3>1. ~CallFails(h)
      BY <1>c DEF Answers, CallFails
    <3>2. d0 = d => server'.level[d0] = lvl
      BY <2>1, <2>5, <3>1, <1>c DEF Sends
    <3>3. d0 # d => server'.level[d0] = server.level[d0]
      BY <2>1, <2>5, <3>1, <1>d DEF Sends
    <3> QED
      BY <2>2, <2>3, <3>2, <3>3, <1>d, <1>e DEF LevelOf, ToSend
  <2> QED
    BY <2>2, <2>4, <2>5, <1>a, Names DEF PublishInv, RequestOf
<1>27. ASSUME NEW d \in Devs, NEW lvl \in Levels, Request(d, lvl) PROVE LevelOf(h, d0)'
  BY <1>27, RequestEffect, <1>a, <1>b, <1>c, <1>e DEF LevelOf, ToSend
<1>28. ASSUME Close PROVE LevelOf(h, d0)'
  BY <1>28, CloseEffect, <1>a, <1>b, <1>c, <1>e DEF LevelOf, ToSend
<1>29. ASSUME JoinThread PROVE LevelOf(h, d0)'
  BY <1>29, JoinThreadEffect, <1>a, <1>b, <1>c, <1>e DEF LevelOf, ToSend
<1>30. ASSUME ReleaseHandle PROVE LevelOf(h, d0)'
  BY <1>30, ReleaseHandleMoves, <1>a, <1>b, <1>c, <1>e DEF LevelOf, ToSend
<1>31. ASSUME UNCHANGED vars PROVE LevelOf(h, d0)'
  BY <1>31, <1>a, <1>b, <1>c, <1>e DEF vars, info, LevelOf, ToSend
<1> QED
  BY <1>1, <1>2, <1>3, <1>4, <1>5, <1>6, <1>7, <1>8, <1>9, <1>10, <1>11, <1>12, <1>13, <1>14,
     <1>15, <1>16, <1>17, <1>18, <1>19, <1>20, <1>21, <1>22, <1>23, <1>24, <1>25, <1>26, <1>27,
     <1>28, <1>29, <1>30, <1>31 DEF Next, RegStep, ReaderStep, RequestStep

-----------------------------------------------------------------------------
(* The invariant. *)

\* The invariant holds at first,
LEMMA InitInv ==
  ASSUME Init
  PROVE  Inv
<1>1. /\ server = [gen |-> 0, up |-> FALSE, devs |-> {}, level |-> [d \in Devs |-> 0]]
      /\ \A c \in Threads : clnt[c] = NoClient
      /\ handle = NULL /\ thread = 1 /\ supported = {} /\ mtx = Nobody
      /\ \A r \in Threads : reg[r].pc = (IF r = 1 THEN "start" ELSE "none") /\ reg[r].dev = Nobody
      /\ \A d \in Devs : req[d] = Idle
      /\ main.pc = "run"
  BY DEF Init, NoClient
<1>2. TypeOK
  <2>1. server \in Server
    BY <1>1, ThermalAssumption DEF Server
  <2>2. clnt \in [Threads -> Client]
    BY ThermalAssumption DEF Init, Client
  <2>3. reg \in [Threads -> Registration]
    BY ThermalAssumption DEF Init, Registration, RegPcs
  <2>4. req \in [Devs -> Requester]
    BY ThermalAssumption DEF Init, Idle, Requester
  <2>5. /\ prev_req_lvl \in [Devs -> Levels]
        /\ main \in Ending
        /\ left \in [requests: 0..MaxRequests, fails: 0..MaxFails]
    BY ThermalAssumption DEF Init, Ending
  <2>6. ASSUME NEW r \in Threads
        PROVE  mtx # r /\ reg[r].pc \notin {"release", "send", "sending"}
    BY <1>1, Names
  <2>7. ASSUME NEW d \in Devs PROVE mtx # d /\ req[d].pc # "sending"
    BY <1>1, Names DEF Idle
  <2> QED
    BY <1>1, <2>1, <2>2, <2>3, <2>4, <2>5, <2>6, <2>7, Names DEF TypeOK
<1>3. ChainInv
  BY <1>1, <1>2, Numbers DEF ChainInv
<1>4. ClientInv
  <2>1. NoClient.gen = 0 /\ NoClient.valid = FALSE /\ NoClient.err_cb = FALSE
    BY DEF NoClient
  <2> QED
    BY <1>1, <2>1 DEF ClientInv, ClientOf
<1>5. CallbackInv
  BY <1>1 DEF CallbackInv, CallbackOf, NoClient
<1>6. TurnInv
  BY <1>1, <1>2, Numbers DEF TurnInv
<1>7. HandleInv
  BY <1>1 DEF HandleInv, HandleKept, NoClient
<1>8. PublishInv
  BY <1>1 DEF PublishInv, PublishedInv, RequestOf, SendingOf, Idle
<1>9. SupportedInv
  BY <1>1 DEF SupportedInv, SupportedOf, Answers, Connected, NoClient
<1>10. LevelInv
  BY <1>1 DEF LevelInv
<1> QED
  BY <1>2, <1>3, <1>4, <1>5, <1>6, <1>7, <1>8, <1>9, <1>10 DEF Inv

\* and after each step.
LEMMA NextInv ==
  ASSUME Inv, [Next]_vars
  PROVE  Inv'
<1>1. TypeOK /\ ChainInv /\ ClientInv /\ CallbackInv /\ PublishInv
      /\ TurnInv /\ HandleInv /\ SupportedInv /\ LevelInv
  BY DEF Inv
<1>2. TypeOK' /\ ChainInv'
  BY <1>1, NextType, NextChain
<1>3. ClientInv'
  BY <1>1, NextClient DEF ClientInv
<1>4. CallbackInv'
  BY <1>1, NextCallback DEF CallbackInv
<1>5. TurnInv' /\ HandleInv'
  BY <1>1, NextTurn, NextHandle
<1>6. PublishInv'
  BY <1>1, NextPublished, NextRequest, NextSending DEF PublishInv
<1>7. SupportedInv'
  BY <1>1, NextSupported DEF SupportedInv
<1>8. LevelInv'
  BY <1>1, NextLevel
<1> QED
  BY <1>2, <1>3, <1>4, <1>5, <1>6, <1>7, <1>8 DEF Inv

-----------------------------------------------------------------------------
(* The properties. *)

\* What the service has been told follows from what has still to be sent.
LEMMA InvInStep ==
  ASSUME Inv
  PROVE  RequestsInStep
<1> SUFFICES ASSUME Answers(handle), reg[handle].pc \in {"return", "done"} PROVE InStep
  BY DEF RequestsInStep
<1>1. handle # NULL
  BY Names DEF Answers, Connected
<1>2. \A d \in server.devs : LevelOf(handle, d)
  BY <1>1 DEF Inv, LevelInv
<1> QED
  BY <1>2 DEF InStep, LevelOf, ToSend

\* Whoever is at work is the last thread, or the reader thread of its client.
LEMMA InvTurns ==
  ASSUME Inv
  PROVE  OneAtATime
<1> TypeOK /\ ChainInv /\ CallbackInv /\ TurnInv
  BY DEF Inv
<1> DEFINE W == {r \in Threads : reg[r].pc \notin {"none", "done"}}
                \cup {c \in Threads : clnt[c].reader = "create"}
<1> SUFFICES ASSUME ~TwoThreads PROVE Cardinality(W) <= 1
  BY DEF OneAtATime
<1>1. \A r \in Threads : reg[r].pc \notin {"none", "done"} => r = thread
  BY Numbers DEF ChainInv, TurnInv
<1>2. \A c \in Threads : clnt[c].reader = "create" => c = thread
  BY DEF CallbackInv, CallbackOf
<1>3. W \subseteq {thread}
  BY <1>1, <1>2
<1> HIDE DEF W
<1>4. IsFiniteSet({thread}) /\ Cardinality({thread}) = 1
  BY FS_Singleton
<1>5. Cardinality(W) \in Nat /\ Cardinality(W) <= Cardinality({thread})
  BY <1>3, <1>4, FS_Subset, FS_CardinalityType
<1> QED
  BY <1>4, <1>5

\* The inductive invariant of ThermalQmiInv holds.
THEOREM Invariant == Spec => []Inv
<1>1. Init => Inv
  BY InitInv
<1>2. Inv /\ [Next]_vars => Inv'
  BY NextInv
<1> QED
  BY <1>1, <1>2, PTL DEF Spec

\* The state of devices-qmi.c keeps its types, and mtx belongs to the one thread that is between its
\* lock and its unlock, whatever the interleaving of registrations, requests and callbacks.
THEOREM TypeCorrect == Spec => []TypeOK
<1>1. Inv => TypeOK
  BY DEF Inv
<1> QED
  BY <1>1, Invariant, PTL

\* A request that comes while modem registration is under way is not lost, nor undone by an older
\* level: when the registration is complete and mtx free, the service has the levels requested last.
THEOREM LevelsInStep == Spec => []RequestsInStep
<1>1. Inv => RequestsInStep
  BY InvInStep
<1> QED
  BY <1>1, Invariant, PTL

\* What qmi_register and qmi_clnt_error_cb change without mtx is changed by one thread at a time,
\* unless the server went before the error callback was registered.
THEOREM TurnsAreTaken == Spec => []OneAtATime
<1>1. Inv => OneAtATime
  BY InvTurns
<1> QED
  BY <1>1, Invariant, PTL

\* Each client that is not the handle is on its way to be, or to its release: none is leaked however
\* often the service goes and comes.
THEOREM ClientsReleased == Spec => []NothingLeaked
<1>1. Inv => NothingLeaked
  BY DEF Inv, HandleInv, HandleKept, NothingLeaked
<1> QED
  BY <1>1, Invariant, PTL
=============================================================================
