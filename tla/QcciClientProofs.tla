--------------------------- MODULE QcciClientProofs ---------------------------
(***************************************************************************)
(* Theorems about QcciClient.  QcciClientSteps shows that the references   *)
(* and the transports stay in order; here follow the release of clients,    *)
(* the news of a server's exit and its report, and from them that the       *)
(* invariant of QcciClientInv holds in every reachable state, with the      *)
(* properties of QcciClient that follow from it.                            *)
(***************************************************************************)
EXTENDS QcciClientSteps

-----------------------------------------------------------------------------
(* What a step of a thread writes into a client struct. *)

\* What the client knows of its server is the same.
SameServer(c) ==
  /\ clnt'[c].server_addr = clnt[c].server_addr /\ clnt'[c].addr_valid = clnt[c].addr_valid
  /\ clnt'[c].ext_signal = clnt[c].ext_signal /\ clnt'[c].err_pending = clnt[c].err_pending
\* What is to be done when it is released is the same.
SameRelease(c) ==
  /\ clnt'[c].release_cb = clnt[c].release_cb /\ clnt'[c].waiter = clnt[c].waiter
\* It is neither made nor freed.
SameLife(c) ==
  clnt'[c].alive = clnt[c].alive /\ hist'.released[c] = hist.released[c]

\* Nothing but a reference ...
Plain(t, c) ==
  /\ SameLife(c) /\ SameServer(c) /\ SameRelease(c) /\ clnt'[c].err_cb = clnt[c].err_cb
  /\ ~Freeing(t, c)
  /\ th[t].c = c => th[t].pc \notin {"shut", "reg"}
\* ... a new client ...
Newborn(t, c) ==
  /\ c = next_clid /\ th'[t].c = c /\ c \in table'
  /\ clnt'[c].alive /\ clnt'[c].release_cb = "none" /\ clnt'[c].err_cb = NULL
  /\ ~clnt'[c].err_pending /\ hist'.released[c] = hist.released[c]
  /\ \/ /\ th[t].pc = "alloc" /\ th'[t].pc = "open" /\ th'[t].s = th[t].s
        /\ clnt'[c].ext_signal = NoThread /\ clnt'[c].addr_valid /\ clnt'[c].server_addr = th[t].s
     \/ /\ th'[t].pc = "n_open" /\ th'[t].call = "notifier"
        /\ clnt'[c].ext_signal = t /\ ~clnt'[c].addr_valid /\ clnt'[c].server_addr = NoServer
\* ... the release callback ...
Shuts(t, c) ==
  /\ c = th[t].c /\ th[t].pc = "shut" /\ th'[t].pc = "close" /\ KeepsHandles(t)
  /\ SameLife(c) /\ SameServer(c) /\ clnt'[c].err_cb = clnt[c].err_cb
  /\ \/ th[t].release = "sync" /\ clnt'[c].release_cb = "internal" /\ clnt'[c].waiter = t
     \/ th[t].release # "sync" /\ clnt'[c].release_cb = "app"
\* ... the error callback ...
Registers(t, c) ==
  /\ c = th[t].c /\ th[t].pc = "reg" /\ th'[t].c = c
  /\ SameLife(c) /\ SameServer(c) /\ SameRelease(c) /\ clnt'[c].err_cb = th[t].cb
  /\ clnt[c].err_pending => th'[t].pc = "reg_cb"
\* ... or its end.
Removed(t, c) ==
  /\ Freeing(t, c) /\ clnt'[c] = NewClient
  /\ \/ clnt[c].release_cb = "none" /\ hist'.released[c] = hist.released[c]
     \/ clnt[c].release_cb # "none" /\ hist'.released[c] = hist.released[c] + 1

\* What a step of thread t may write into the struct of client c.
FieldKind(t, c) ==
  Plain(t, c) \/ Newborn(t, c) \/ Shuts(t, c) \/ Registers(t, c) \/ Removed(t, c)

\* That is all a step of a thread writes.
LEMMA FieldStep ==
  ASSUME Inv, NEW t \in Threads, ThreadStep(t), NEW c \in Handles
  PROVE  FieldKind(t, c)
<1> TypeOK
  BY DEF Inv
<1>1. ASSUME NEW h \in Handles, Call(t, h) PROVE FieldKind(t, c)
  BY <1>1, CallEffect DEF FieldKind, Plain, SameLife, SameServer, SameRelease, Freeing, Gains,
     Loses, KeepsClient, OnlyClient
<1>2. ASSUME NEW h \in Handles, RegisterErrorCb(t, h) PROVE FieldKind(t, c)
  BY <1>2, RegisterErrorCbEffect DEF FieldKind, Plain, SameLife, SameServer, SameRelease,
     Freeing, Gains, Loses, KeepsClient, OnlyClient
<1>3. ASSUME NEW s \in Servers, InitClient(t, s) PROVE FieldKind(t, c)
  BY <1>3, InitClientEffect DEF FieldKind, Plain, SameLife, SameServer, SameRelease, Freeing,
     Gains, Loses, KeepsClient, OnlyClient
<1>4. CASE InitInstance(t)
  BY <1>4, InitInstanceEffect DEF FieldKind, Plain, SameLife, SameServer, SameRelease, Freeing,
     Gains, Loses, KeepsClient, OnlyClient
<1>5. ASSUME NEW h \in Handles, NEW k \in {"sync", "async"}, Release(t, h, k)
      PROVE  FieldKind(t, c)
  BY <1>5, ReleaseEffect DEF FieldKind, Plain, SameLife, SameServer, SameRelease, Freeing, Gains,
     Loses, KeepsClient, OnlyClient
<1>6. CASE EndCall(t)
  BY <1>6, EndCallEffect DEF FieldKind, Plain, SameLife, SameServer, SameRelease, Freeing, Gains,
     Loses, KeepsClient, OnlyClient
<1>7. CASE SetErrorCb(t)
  <2>1. /\ th[t].pc = "reg" /\ OnlyClient(th[t].c) /\ hist'.released = hist.released
        /\ clnt'[th[t].c].err_cb = th[t].cb
        /\ clnt'[th[t].c].alive = clnt[th[t].c].alive
        /\ SameServer(th[t].c) /\ SameRelease(th[t].c)
        /\ th'[t].c = th[t].c /\ (clnt[th[t].c].err_pending => th'[t].pc = "reg_cb")
    BY <1>7, SetErrorCbEffect DEF TypeOK, History, SameServer, SameRelease, Goes, KeepsHandles
  <2>2. CASE c = th[t].c
    BY <2>1, <2>2 DEF FieldKind, Registers, SameLife
  <2>3. CASE c # th[t].c
    BY <2>1, <2>3 DEF OnlyClient, FieldKind, Plain, SameLife, SameServer, SameRelease, Freeing
  <2> QED
    BY <2>2, <2>3
<1>8. CASE PendingErrorCb(t)
  <2>1. th[t].pc = "reg_cb" /\ clnt' = clnt /\ hist'.released = hist.released
    BY <1>8, PendingErrorCbEffect DEF TypeOK, History
  <2> QED
    BY <2>1 DEF FieldKind, Plain, SameLife, SameServer, SameRelease, Freeing
<1>9. ASSUME NEW d \in Handles, AllocClient(t, d) PROVE FieldKind(t, c)
  <2>1. /\ d = next_clid /\ th'[t].c = d /\ OnlyClient(d) /\ hist' = hist /\ d \in table'
        /\ clnt'[d].alive /\ clnt'[d].release_cb = "none" /\ clnt'[d].err_cb = NULL
        /\ ~clnt'[d].err_pending
    BY <1>9, AllocClientEffect
  <2>2. /\ th[t].pc = "alloc" /\ th'[t].pc = "open" /\ th'[t].s = th[t].s
        /\ clnt'[d].ext_signal = NoThread /\ clnt'[d].addr_valid /\ clnt'[d].server_addr = th[t].s
    BY <1>9, AllocClientEffect
  <2>3. CASE c = d
    BY <2>1, <2>2, <2>3 DEF FieldKind, Newborn
  <2>4. CASE c # d
    BY <2>1, <2>2, <2>4 DEF OnlyClient, FieldKind, Plain, SameLife, SameServer, SameRelease, Freeing
  <2> QED
    BY <2>3, <2>4
<1>10. ASSUME NEW d \in Handles, AllocNotifier(t, d) PROVE FieldKind(t, c)
  <2>1. /\ d = next_clid /\ th'[t].c = d /\ OnlyClient(d) /\ hist' = hist /\ d \in table'
        /\ clnt'[d].alive /\ clnt'[d].release_cb = "none" /\ clnt'[d].err_cb = NULL
        /\ ~clnt'[d].err_pending
    BY <1>10, AllocNotifierEffect
  <2>2. /\ th[t].pc = "notifier" /\ th'[t].pc = "n_open" /\ th'[t].call = "notifier"
        /\ clnt'[d].ext_signal = t /\ ~clnt'[d].addr_valid /\ clnt'[d].server_addr = NoServer
    BY <1>10, AllocNotifierEffect
  <2>3. CASE c = d
    BY <2>1, <2>2, <2>3 DEF FieldKind, Newborn
  <2>4. CASE c # d
    BY <2>1, <2>2, <2>4 DEF OnlyClient, FieldKind, Plain, SameLife, SameServer, SameRelease, Freeing
  <2> QED
    BY <2>3, <2>4
<1>11. CASE OpenClient(t)
  <2>1. th[t].pc \in {"open", "n_open"} /\ KeepsClient(th[t].c) /\ hist' = hist
    BY <1>11, OpenClientEffect
  <2> QED
    BY <2>1 DEF KeepsClient, OnlyClient, FieldKind, Plain, SameLife, SameServer, SameRelease, Freeing
<1>12. CASE RedoLookup(t)
  BY <1>12, RedoLookupEffect DEF FieldKind, Plain, SameLife, SameServer, SameRelease, Freeing,
     Gains, Loses, KeepsClient, OnlyClient
<1>13. CASE CloseXport(t)
  BY <1>13, CloseXportEffect DEF FieldKind, Plain, SameLife, SameServer, SameRelease, Freeing,
     Gains, Loses, KeepsClient, OnlyClient
<1>14. CASE JoinReader(t)
  <2>1. th[t].pc = "join" /\ Loses(th[t].c) /\ hist' = hist
    BY <1>14, JoinReaderEffect
  <2> QED
    BY <2>1 DEF Loses, KeepsClient, OnlyClient, FieldKind, Plain, SameLife, SameServer, SameRelease, Freeing
<1>15. CASE Put(t)
  BY <1>15, PutEffect DEF FieldKind, Plain, SameLife, SameServer, SameRelease, Freeing, Gains,
     Loses, KeepsClient, OnlyClient
<1>16. CASE Free(t)
  <2>1. /\ th[t].pc = "free" /\ OnlyClient(th[t].c) /\ clnt'[th[t].c] = NewClient
        /\ \A d \in Handles \ {th[t].c} : hist'.released[d] = hist.released[d]
    BY <1>16, FreeEffect
  <2>2. \/ clnt[th[t].c].release_cb = "none"
             /\ hist'.released[th[t].c] = hist.released[th[t].c]
        \/ clnt[th[t].c].release_cb # "none"
             /\ hist'.released[th[t].c] = hist.released[th[t].c] + 1
    BY <1>16, FreeEffect
  <2>3. CASE c = th[t].c
    BY <2>1, <2>2, <2>3 DEF FieldKind, Removed, Freeing
  <2>4. CASE c # th[t].c
    BY <2>1, <2>4 DEF OnlyClient, FieldKind, Plain, SameLife, SameServer, SameRelease, Freeing
  <2> QED
    BY <2>3, <2>4
<1>17. CASE CountServers(t)
  BY <1>17, CountServersEffect DEF FieldKind, Plain, SameLife, SameServer, SameRelease, Freeing,
     Gains, Loses, KeepsClient, OnlyClient
<1>18. CASE ListServers(t)
  BY <1>18, ListServersEffect DEF FieldKind, Plain, SameLife, SameServer, SameRelease, Freeing,
     Gains, Loses, KeepsClient, OnlyClient
<1>19. CASE OpenNotifier(t)
  <2>1. th[t].pc \in {"open", "n_open"} /\ KeepsClient(th[t].c) /\ hist' = hist
    BY <1>19, OpenNotifierEffect
  <2> QED
    BY <2>1 DEF KeepsClient, OnlyClient, FieldKind, Plain, SameLife, SameServer, SameRelease, Freeing
<1>20. CASE NotifierLookup(t)
  BY <1>20, NotifierLookupEffect DEF FieldKind, Plain, SameLife, SameServer, SameRelease,
     Freeing, Gains, Loses, KeepsClient, OnlyClient
<1>21. CASE ClearSignal(t)
  BY <1>21, ClearSignalEffect DEF FieldKind, Plain, SameLife, SameServer, SameRelease, Freeing,
     Gains, Loses, KeepsClient, OnlyClient
<1>22. CASE WaitForServer(t)
  BY <1>22, WaitForServerEffect DEF FieldKind, Plain, SameLife, SameServer, SameRelease, Freeing,
     Gains, Loses, KeepsClient, OnlyClient
<1>23. CASE ReturnInit(t)
  BY <1>23, ReturnInitEffect DEF FieldKind, Plain, SameLife, SameServer, SameRelease, Freeing,
     Gains, Loses, KeepsClient, OnlyClient
<1>24. CASE ReleaseGet(t)
  BY <1>24, ReleaseGetEffect DEF FieldKind, Plain, SameLife, SameServer, SameRelease, Freeing,
     Gains, Loses, KeepsClient, OnlyClient
<1>25. CASE ReleasePut(t)
  BY <1>25, ReleasePutEffect DEF FieldKind, Plain, SameLife, SameServer, SameRelease, Freeing,
     Gains, Loses, KeepsClient, OnlyClient
<1>26. CASE ReleaseAsync(t)
  BY <1>26, ReleaseAsyncEffect DEF FieldKind, Plain, SameLife, SameServer, SameRelease, Freeing,
     Gains, Loses, KeepsClient, OnlyClient
<1>27. CASE Shut(t)
  <2>1. /\ th[t].pc = "shut" /\ OnlyClient(th[t].c) /\ hist' = hist
        /\ th'[t].pc = "close" /\ KeepsHandles(t)
        /\ clnt'[th[t].c].alive = clnt[th[t].c].alive
        /\ clnt'[th[t].c].err_cb = clnt[th[t].c].err_cb /\ SameServer(th[t].c)
    BY <1>27, ShutEffect DEF SameServer, Goes
  <2>2. \/ /\ th[t].release = "sync" /\ clnt'[th[t].c].release_cb = "internal"
           /\ clnt'[th[t].c].waiter = t
        \/ th[t].release # "sync" /\ clnt'[th[t].c].release_cb = "app"
    BY <1>27, ShutEffect
  <2>3. CASE c = th[t].c
    BY <2>1, <2>2, <2>3 DEF FieldKind, Shuts, SameLife
  <2>4. CASE c # th[t].c
    BY <2>1, <2>4 DEF OnlyClient, FieldKind, Plain, SameLife, SameServer, SameRelease, Freeing
  <2> QED
    BY <2>3, <2>4
<1>28. CASE AwaitRelease(t)
  BY <1>28, AwaitReleaseEffect DEF FieldKind, Plain, SameLife, SameServer, SameRelease, Freeing,
     Gains, Loses, KeepsClient, OnlyClient
<1>29. CASE OpenFails(t)
  BY <1>29, OpenFailsEffect DEF FieldKind, Plain, SameLife, SameServer, SameRelease, Freeing,
     Gains, Loses, KeepsClient, OnlyClient
<1>30. CASE TimeOut(t)
  BY <1>30, TimeOutEffect DEF FieldKind, Plain, SameLife, SameServer, SameRelease, Freeing,
     Gains, Loses, KeepsClient, OnlyClient
<1> QED
  BY <1>1, <1>2, <1>3, <1>4, <1>5, <1>6, <1>7, <1>8, <1>9, <1>10, <1>11, <1>12, <1>13, <1>14,
     <1>15, <1>16, <1>17, <1>18, <1>19, <1>20, <1>21, <1>22, <1>23, <1>24, <1>25, <1>26, <1>27,
     <1>28, <1>29, <1>30 DEF ThreadStep, CallStart, CallStep

-----------------------------------------------------------------------------
(* What it does to a reader thread: nothing, or it is started, or has been joined. *)

\* The reader goes on where it was ...
SameReader(c) ==
  /\ xport'[c].pc = xport[c].pc /\ xport'[c].ctl = xport[c].ctl /\ xport'[c].more = xport[c].more
  /\ xport'[c].cb = xport[c].cb /\ xport'[c].died = xport[c].died
\* ... is started ...
Begun(t, c) ==
  /\ Opens(t, c) /\ xport[c].pc = "none" /\ xport'[c].pc = "poll" /\ xport'[c].more = FALSE
\* ... or has ended and been joined.
Joined(t, c) ==
  /\ Closing(t, c) /\ th[t].pc = "join" /\ xport[c].pc = "exited"
  /\ xport'[c].pc = "none" /\ xport'[c].more = FALSE
\* What a step of thread t may do to the reader thread of client c.
ReaderKind(t, c) == SameReader(c) \/ Begun(t, c) \/ Joined(t, c)

\* That is all a step of a thread means for a reader thread.
LEMMA ReaderStepKind ==
  ASSUME Inv, NEW t \in Threads, ThreadStep(t), NEW c \in Handles
  PROVE  ReaderKind(t, c)
<1>1. ASSUME NEW h \in Handles, Call(t, h) PROVE ReaderKind(t, c)
  BY <1>1, CallEffect DEF ReaderKind, SameReader, OnlyXport
<1>2. ASSUME NEW h \in Handles, RegisterErrorCb(t, h) PROVE ReaderKind(t, c)
  BY <1>2, RegisterErrorCbEffect DEF ReaderKind, SameReader, OnlyXport
<1>3. ASSUME NEW s \in Servers, InitClient(t, s) PROVE ReaderKind(t, c)
  BY <1>3, InitClientEffect DEF ReaderKind, SameReader, OnlyXport
<1>4. CASE InitInstance(t)
  BY <1>4, InitInstanceEffect DEF ReaderKind, SameReader, OnlyXport
<1>5. ASSUME NEW h \in Handles, NEW k \in {"sync", "async"}, Release(t, h, k)
      PROVE  ReaderKind(t, c)
  BY <1>5, ReleaseEffect DEF ReaderKind, SameReader, OnlyXport
<1>6. CASE EndCall(t)
  BY <1>6, EndCallEffect DEF ReaderKind, SameReader, OnlyXport
<1>7. CASE SetErrorCb(t)
  BY <1>7, SetErrorCbEffect DEF ReaderKind, SameReader, OnlyXport
<1>8. CASE PendingErrorCb(t)
  BY <1>8, PendingErrorCbEffect DEF ReaderKind, SameReader, OnlyXport
<1>9. ASSUME NEW d \in Handles, AllocClient(t, d) PROVE ReaderKind(t, c)
  BY <1>9, AllocClientEffect DEF ReaderKind, SameReader, OnlyXport
<1>10. ASSUME NEW d \in Handles, AllocNotifier(t, d) PROVE ReaderKind(t, c)
  BY <1>10, AllocNotifierEffect DEF ReaderKind, SameReader, OnlyXport
<1>11. CASE OpenClient(t)
  <2>1. /\ th[t].pc = "open" /\ OnlyXport(th[t].c)
        /\ xport'[th[t].c].pc = "poll" /\ xport'[th[t].c].more = FALSE
    BY <1>11, OpenClientEffect
  <2>2. xport[th[t].c].state = "none"
    BY <2>1, OwnXportOf DEF OwnXport, Opening
  <2>3. CASE c = th[t].c
    BY <2>1, <2>2, <2>3 DEF ReaderKind, Begun, Opens, Inv, XportInv
  <2>4. CASE c # th[t].c
    BY <2>1, <2>4 DEF OnlyXport, ReaderKind, SameReader
  <2> QED
    BY <2>3, <2>4
<1>12. CASE RedoLookup(t)
  BY <1>12, RedoLookupEffect DEF ReaderKind, SameReader, OnlyXport
<1>13. CASE CloseXport(t)
  BY <1>13, CloseXportEffect DEF ReaderKind, SameReader, OnlyXport
<1>14. CASE JoinReader(t)
  <2>1. /\ th[t].pc = "join" /\ xport[th[t].c].pc = "exited" /\ OnlyXport(th[t].c)
        /\ xport'[th[t].c].pc = "none" /\ xport'[th[t].c].more = FALSE
    BY <1>14, JoinReaderEffect
  <2>2. CASE c = th[t].c
    BY <2>1, <2>2 DEF ReaderKind, Joined, Closing
  <2>3. CASE c # th[t].c
    BY <2>1, <2>3 DEF OnlyXport, ReaderKind, SameReader
  <2> QED
    BY <2>2, <2>3
<1>15. CASE Put(t)
  BY <1>15, PutEffect DEF ReaderKind, SameReader, OnlyXport
<1>16. CASE Free(t)
  BY <1>16, FreeEffect DEF ReaderKind, SameReader, OnlyXport
<1>17. CASE CountServers(t)
  BY <1>17, CountServersEffect DEF ReaderKind, SameReader, OnlyXport
<1>18. CASE ListServers(t)
  BY <1>18, ListServersEffect DEF ReaderKind, SameReader, OnlyXport
<1>19. CASE OpenNotifier(t)
  <2>1. /\ th[t].pc = "n_open" /\ OnlyXport(th[t].c)
        /\ xport'[th[t].c].pc = "poll" /\ xport'[th[t].c].more = FALSE
    BY <1>19, OpenNotifierEffect
  <2>2. xport[th[t].c].state = "none"
    BY <2>1, OwnXportOf DEF OwnXport, Opening
  <2>3. CASE c = th[t].c
    BY <2>1, <2>2, <2>3 DEF ReaderKind, Begun, Opens, Inv, XportInv
  <2>4. CASE c # th[t].c
    BY <2>1, <2>4 DEF OnlyXport, ReaderKind, SameReader
  <2> QED
    BY <2>3, <2>4
<1>20. CASE NotifierLookup(t)
  BY <1>20, NotifierLookupEffect DEF ReaderKind, SameReader, OnlyXport
<1>21. CASE ClearSignal(t)
  BY <1>21, ClearSignalEffect DEF ReaderKind, SameReader, OnlyXport
<1>22. CASE WaitForServer(t)
  BY <1>22, WaitForServerEffect DEF ReaderKind, SameReader, OnlyXport
<1>23. CASE ReturnInit(t)
  BY <1>23, ReturnInitEffect DEF ReaderKind, SameReader, OnlyXport
<1>24. CASE ReleaseGet(t)
  BY <1>24, ReleaseGetEffect DEF ReaderKind, SameReader, OnlyXport
<1>25. CASE ReleasePut(t)
  BY <1>25, ReleasePutEffect DEF ReaderKind, SameReader, OnlyXport
<1>26. CASE ReleaseAsync(t)
  BY <1>26, ReleaseAsyncEffect DEF ReaderKind, SameReader, OnlyXport
<1>27. CASE Shut(t)
  BY <1>27, ShutEffect DEF ReaderKind, SameReader, OnlyXport
<1>28. CASE AwaitRelease(t)
  BY <1>28, AwaitReleaseEffect DEF ReaderKind, SameReader, OnlyXport
<1>29. CASE OpenFails(t)
  BY <1>29, OpenFailsEffect DEF ReaderKind, SameReader, OnlyXport
<1>30. CASE TimeOut(t)
  BY <1>30, TimeOutEffect DEF ReaderKind, SameReader, OnlyXport
<1> QED
  BY <1>1, <1>2, <1>3, <1>4, <1>5, <1>6, <1>7, <1>8, <1>9, <1>10, <1>11, <1>12, <1>13, <1>14,
     <1>15, <1>16, <1>17, <1>18, <1>19, <1>20, <1>21, <1>22, <1>23, <1>24, <1>25, <1>26, <1>27,
     <1>28, <1>29, <1>30 DEF ThreadStep, CallStart, CallStep

-----------------------------------------------------------------------------
(* What it does to the history of the error callbacks. *)

\* Nothing ...
Quiet(t) ==
  /\ hist'.reg = hist.reg /\ hist'.heard = hist.heard /\ left'.regs = left.regs
  /\ th[t].pc \notin {"reg", "reg_cb"} /\ th'[t].pc \notin {"reg", "reg_cb"}
\* ... a call to register a callback begins ...
Announces(t) ==
  /\ hist'.reg = hist.reg /\ hist'.heard = hist.heard
  /\ left.regs \in Regs /\ left'.regs = left.regs - 1
  /\ th[t].pc = "idle" /\ th'[t].pc = "reg" /\ th'[t].cb = left.regs
\* ... sets it ...
Sets(t) ==
  /\ hist'.reg = [hist.reg EXCEPT ![th[t].cb] = th[t].c]
  /\ hist'.heard = hist.heard /\ left'.regs = left.regs
  /\ th[t].pc = "reg" /\ th[t].cb \in Regs /\ th[t].c \in Handles
  /\ th'[t].cb = th[t].cb /\ th'[t].c = th[t].c
  /\ \/ clnt[th[t].c].err_pending /\ th'[t].pc = "reg_cb"
     \/ th'[t].pc = "put"
\* ... or runs it.
Runs(t) ==
  /\ hist'.heard = [hist.heard EXCEPT ![th[t].cb] = @ + 1]
  /\ hist'.reg = hist.reg /\ left'.regs = left.regs
  /\ th[t].pc = "reg_cb" /\ th[t].cb \in Regs /\ th'[t].pc = "put"
\* What a step of thread t may do to the registered callbacks.
RegKind(t) == Quiet(t) \/ Announces(t) \/ Sets(t) \/ Runs(t)

\* That is all a step of a thread means for the error callbacks.
LEMMA RegStep ==
  ASSUME Inv, NEW t \in Threads, ThreadStep(t)
  PROVE  RegKind(t)
<1> TypeOK
  BY DEF Inv
<1>1. ASSUME NEW h \in Handles, Call(t, h) PROVE RegKind(t)
  BY <1>1, CallEffect, NewThreadFields DEF RegKind, Quiet, Goes, Frees, Leaves, Enters,
     HandsOver, HandsBack, KeepsHandles
<1>2. ASSUME NEW h \in Handles, RegisterErrorCb(t, h) PROVE RegKind(t)
  <2>1. /\ th[t].pc = "idle" /\ left.regs \in Regs /\ th'[t].pc = "reg" /\ th'[t].cb = left.regs
        /\ hist' = hist
    BY <1>2, RegisterErrorCbEffect DEF Enters
  <2>2. left'.regs = left.regs - 1
    BY <1>2, RegisterErrorCbEffect DEF TypeOK, Budget
  <2> QED
    BY <2>1, <2>2 DEF RegKind, Announces
<1>3. ASSUME NEW s \in Servers, InitClient(t, s) PROVE RegKind(t)
  <2>1. left'.regs = left.regs /\ hist' = hist
    BY <1>3, InitClientEffect DEF TypeOK, Budget
  <2>2. th[t].pc \notin {"reg", "reg_cb"} /\ th'[t].pc \notin {"reg", "reg_cb"}
    BY <1>3, InitClientEffect DEF Enters, Goes
  <2> QED
    BY <2>1, <2>2 DEF RegKind, Quiet
<1>4. CASE InitInstance(t)
  <2>1. left'.regs = left.regs /\ hist' = hist
    BY <1>4, InitInstanceEffect DEF TypeOK, Budget
  <2>2. th[t].pc \notin {"reg", "reg_cb"} /\ th'[t].pc \notin {"reg", "reg_cb"}
    BY <1>4, InitInstanceEffect DEF Enters, Goes
  <2> QED
    BY <2>1, <2>2 DEF RegKind, Quiet
<1>5. ASSUME NEW h \in Handles, NEW k \in {"sync", "async"}, Release(t, h, k) PROVE RegKind(t)
  BY <1>5, ReleaseEffect, NewThreadFields DEF RegKind, Quiet, Goes, Frees, Leaves, Enters,
     HandsOver, HandsBack, KeepsHandles
<1>6. CASE EndCall(t)
  BY <1>6, EndCallEffect, NewThreadFields DEF RegKind, Quiet, Goes, Frees, Leaves, Enters,
     HandsOver, HandsBack, KeepsHandles
<1>7. CASE SetErrorCb(t)
  <2>1. /\ th[t].pc = "reg" /\ th'[t].cb = th[t].cb /\ th'[t].c = th[t].c /\ left' = left
        /\ \/ clnt[th[t].c].err_pending /\ th'[t].pc = "reg_cb"
           \/ th'[t].pc = "put"
    BY <1>7, SetErrorCbEffect DEF Goes, KeepsHandles
  <2>2. th[t].cb \in Regs /\ th[t].c \in Handles
    BY <2>1, Callbacks
  <2>3. /\ hist'.reg = [hist.reg EXCEPT ![th[t].cb] = th[t].c]
        /\ hist'.heard = hist.heard
    BY <1>7, SetErrorCbEffect DEF TypeOK, History
  <2> QED
    BY <2>1, <2>2, <2>3 DEF RegKind, Sets
<1>8. CASE PendingErrorCb(t)
  <2>1. th[t].pc = "reg_cb" /\ th'[t].pc = "put" /\ left' = left
    BY <1>8, PendingErrorCbEffect DEF Goes
  <2>2. th[t].cb \in Regs
    BY <2>1, Callbacks
  <2>3. /\ hist'.heard = [hist.heard EXCEPT ![th[t].cb] = @ + 1]
        /\ hist'.reg = hist.reg
    BY <1>8, PendingErrorCbEffect DEF TypeOK, History
  <2> QED
    BY <2>1, <2>2, <2>3 DEF RegKind, Runs
<1>9. ASSUME NEW d \in Handles, AllocClient(t, d) PROVE RegKind(t)
  <2>1. th[t].pc \notin {"reg", "reg_cb"} /\ th'[t].pc \notin {"reg", "reg_cb"}
    BY <1>9, AllocClientEffect DEF Goes
  <2>2. left'.regs = left.regs /\ hist' = hist
    BY <1>9, AllocClientEffect
  <2> QED
    BY <2>1, <2>2 DEF RegKind, Quiet
<1>10. ASSUME NEW d \in Handles, AllocNotifier(t, d) PROVE RegKind(t)
  <2>1. th[t].pc \notin {"reg", "reg_cb"} /\ th'[t].pc \notin {"reg", "reg_cb"}
    BY <1>10, AllocNotifierEffect DEF Goes
  <2>2. left'.regs = left.regs /\ hist' = hist
    BY <1>10, AllocNotifierEffect
  <2> QED
    BY <2>1, <2>2 DEF RegKind, Quiet
<1>11. CASE OpenClient(t)
  <2>1. th[t].pc \notin {"reg", "reg_cb"} /\ th'[t].pc \notin {"reg", "reg_cb"}
    BY <1>11, OpenClientEffect DEF Goes
  <2>2. left'.regs = left.regs /\ hist' = hist
    BY <1>11, OpenClientEffect
  <2> QED
    BY <2>1, <2>2 DEF RegKind, Quiet
<1>12. CASE RedoLookup(t)
  <2>1. th[t].pc \notin {"reg", "reg_cb"} /\ th'[t].pc \notin {"reg", "reg_cb"}
    BY <1>12, RedoLookupEffect DEF Goes
  <2>2. left'.regs = left.regs /\ hist' = hist
    BY <1>12, RedoLookupEffect
  <2> QED
    BY <2>1, <2>2 DEF RegKind, Quiet
<1>13. CASE CloseXport(t)
  BY <1>13, CloseXportEffect, NewThreadFields DEF RegKind, Quiet, Goes, Frees, Leaves, Enters,
     HandsOver, HandsBack, KeepsHandles
<1>14. CASE JoinReader(t)
  <2>1. th[t].pc \notin {"reg", "reg_cb"} /\ th'[t].pc \notin {"reg", "reg_cb"}
    BY <1>14, JoinReaderEffect DEF Goes
  <2>2. left'.regs = left.regs /\ hist' = hist
    BY <1>14, JoinReaderEffect
  <2> QED
    BY <2>1, <2>2 DEF RegKind, Quiet
<1>15. CASE Put(t)
  <2>1. /\ th[t].pc = "put" /\ UNCHANGED <<left, hist>>
        /\ \/ Frees(t, PutReturns(t))
           \/ Leaves(t)
           \/ Goes(t, PutReturns(t))
    BY <1>15, PutEffect
  <2> QED
    BY <2>1, NewThreadFields DEF RegKind, Quiet, Frees, Leaves, Goes, PutReturns
<1>16. CASE Free(t)
  <2>1. /\ th[t].pc = "free" /\ left' = left /\ hist'.reg = hist.reg /\ hist'.heard = hist.heard
        /\ (Leaves(t) \/ Goes(t, th[t].after))
    BY <1>16, FreeEffect
  <2>2. th[t].after \in {"idle", "returned", "rel_wait", "rel_async"}
    BY <2>1 DEF Inv, ShapeInv, Shape
  <2> QED
    BY <2>1, <2>2, NewThreadFields DEF RegKind, Quiet, Leaves, Goes
<1>17. CASE CountServers(t)
  BY <1>17, CountServersEffect, NewThreadFields DEF RegKind, Quiet, Goes, Frees, Leaves, Enters,
     HandsOver, HandsBack, KeepsHandles
<1>18. CASE ListServers(t)
  BY <1>18, ListServersEffect, NewThreadFields DEF RegKind, Quiet, Goes, Frees, Leaves, Enters,
     HandsOver, HandsBack, KeepsHandles
<1>19. CASE OpenNotifier(t)
  <2>1. th[t].pc \notin {"reg", "reg_cb"} /\ th'[t].pc \notin {"reg", "reg_cb"}
    BY <1>19, OpenNotifierEffect DEF Goes
  <2>2. left'.regs = left.regs /\ hist' = hist
    BY <1>19, OpenNotifierEffect
  <2> QED
    BY <2>1, <2>2 DEF RegKind, Quiet
<1>20. CASE NotifierLookup(t)
  BY <1>20, NotifierLookupEffect, NewThreadFields DEF RegKind, Quiet, Goes, Frees, Leaves,
     Enters, HandsOver, HandsBack, KeepsHandles
<1>21. CASE ClearSignal(t)
  BY <1>21, ClearSignalEffect, NewThreadFields DEF RegKind, Quiet, Goes, Frees, Leaves, Enters,
     HandsOver, HandsBack, KeepsHandles
<1>22. CASE WaitForServer(t)
  BY <1>22, WaitForServerEffect, NewThreadFields DEF RegKind, Quiet, Goes, Frees, Leaves, Enters,
     HandsOver, HandsBack, KeepsHandles
<1>23. CASE ReturnInit(t)
  BY <1>23, ReturnInitEffect, NewThreadFields DEF RegKind, Quiet, Goes, Frees, Leaves, Enters,
     HandsOver, HandsBack, KeepsHandles
<1>24. CASE ReleaseGet(t)
  BY <1>24, ReleaseGetEffect, NewThreadFields DEF RegKind, Quiet, Goes, Frees, Leaves, Enters,
     HandsOver, HandsBack, KeepsHandles
<1>25. CASE ReleasePut(t)
  BY <1>25, ReleasePutEffect, NewThreadFields DEF RegKind, Quiet, Goes, Frees, Leaves, Enters,
     HandsOver, HandsBack, KeepsHandles
<1>26. CASE ReleaseAsync(t)
  BY <1>26, ReleaseAsyncEffect, NewThreadFields DEF RegKind, Quiet, Goes, Frees, Leaves, Enters,
     HandsOver, HandsBack, KeepsHandles
<1>27. CASE Shut(t)
  BY <1>27, ShutEffect, NewThreadFields DEF RegKind, Quiet, Goes, Frees, Leaves, Enters,
     HandsOver, HandsBack, KeepsHandles
<1>28. CASE AwaitRelease(t)
  BY <1>28, AwaitReleaseEffect, NewThreadFields DEF RegKind, Quiet, Goes, Frees, Leaves, Enters,
     HandsOver, HandsBack, KeepsHandles
<1>29. CASE OpenFails(t)
  <2>1. left'.regs = left.regs /\ hist' = hist
    BY <1>29, OpenFailsEffect DEF TypeOK, Budget
  <2>2. th[t].pc \notin {"reg", "reg_cb"} /\ th'[t].pc \notin {"reg", "reg_cb"}
    BY <1>29, OpenFailsEffect DEF Enters, Goes
  <2> QED
    BY <2>1, <2>2 DEF RegKind, Quiet
<1>30. CASE TimeOut(t)
  BY <1>30, TimeOutEffect, NewThreadFields DEF RegKind, Quiet, Goes, Frees, Leaves, Enters,
     HandsOver, HandsBack, KeepsHandles
<1> QED
  BY <1>1, <1>2, <1>3, <1>4, <1>5, <1>6, <1>7, <1>8, <1>9, <1>10, <1>11, <1>12, <1>13, <1>14,
     <1>15, <1>16, <1>17, <1>18, <1>19, <1>20, <1>21, <1>22, <1>23, <1>24, <1>25, <1>26, <1>27,
     <1>28, <1>29, <1>30 DEF ThreadStep, CallStart, CallStep

-----------------------------------------------------------------------------
(* Who still has to release a client. *)

\* A step of t leaves the clients alone that another thread creates, or will return.
LEMMA PrivateUntouched ==
  ASSUME Inv, NEW t \in Threads, ThreadStep(t), NEW u \in Threads \ {t},
         NEW c \in Refs(u), th[u].call # "none" \/ th[u].user # NULL
  PROVE  c \in Handles /\ Untouched(c)
<1>1. c \in Handles /\ c # next_clid /\ c \notin known
  BY NotFresh DEF Handles, Inv, Given, GivenTo
<1>2. c \notin Refs(t)
  BY <1>1, Shared
<1>3. c \notin Refs(t)'
  BY <1>1, <1>2, TakesStep DEF Takes
<1>4. c # th[t].c /\ c # th'[t].c
  BY <1>1, <1>2, <1>3, Nulls DEF Refs
<1> QED
  BY <1>1, <1>4, TouchStep

\* A client outside the table has a thread that works on it.
LEMMA LastOne ==
  ASSUME Inv, NEW c \in Handles, clnt[c].alive, c \notin table
  PROVE  \E u \in Threads : Uses(u, c) \/ Freeing(u, c)
<1>1. RefsOf(c) /\ clnt[c].ref_count \in Nat
  BY RefsOfEvery
<1>2. CASE clnt[c].ref_count = 0
  BY <1>1, <1>2 DEF RefsOf
<1>3. CASE clnt[c].ref_count # 0
  <2>1. CASE TransportHolds(c)
    <3>1. CASE xport[c].state = "open"
      BY <3>1 DEF Inv, XportInv, Closing, Uses, UserPcs
    <3>2. CASE xport[c].state # "open"
      BY <2>1, <3>2, UsersAre DEF TransportHolds
    <3> QED
      BY <3>1, <3>2
  <2>2. CASE ~TransportHolds(c)
    <3>1. Cardinality(Users(c)) # 0
      BY <1>1, <1>3, <2>2, UsersFinite DEF RefsOf, Inv
    <3>2. Users(c) # {}
      BY <3>1, FS_EmptySet
    <3> QED
      BY <3>2, UsersAre
  <2> QED
    BY <2>1, <2>2
<1> QED
  BY <1>2, <1>3

\* A handle that is not in the table and that only t has, outside the client's code, is dead.
LEMMA Dead ==
  ASSUME Inv, NEW t \in Threads, NEW c \in Refs(t), c \notin known, c \notin table,
         ~Uses(t, c), ~Freeing(t, c)
  PROVE  ~clnt[c].alive
<1>1. c \in Handles
  BY NotFresh
<1>2. \A u \in Threads \ {t} : ~Uses(u, c) /\ ~Freeing(u, c)
  BY <1>1, Shared, Nulls DEF Uses, Freeing, Refs
<1> QED
  BY <1>1, <1>2, LastOne

\* A client that ends is not there before its end, and none comes to life but a new one.
LEMMA Lives ==
  ASSUME Inv, NEW t \in Threads, ThreadStep(t), NEW c \in Handles
  PROVE  /\ clnt'[c].alive => clnt[c].alive \/ (c = next_clid /\ th'[t].c = c)
         /\ clnt[c].alive /\ ~clnt'[c].alive => Freeing(t, c)
  BY FieldStep, NewClientFields DEF FieldKind, Plain, Newborn, Shuts, Registers, Removed, SameLife

\* A thread that creates a client and fails has the only reference in the end.
LEMMA OnlyRef ==
  ASSUME Inv, NEW t \in Threads, th[t].pc = "put", th[t].call # "none", th[t].rc # "ok"
  PROVE  clnt[th[t].c].ref_count = 1
<1> DEFINE c == th[t].c
<1>1. c \in Handles /\ clnt[c].alive /\ t \in Users(c) /\ RefsOf(c)
  BY Held, RefsOfEvery DEF UserPcs
<1>2. xport[c].state # "open"
  BY OwnXportOf DEF OwnXport
<1>3. \A u \in Threads \ {t} : th[u].c # c
  BY <1>1, Shared, Nulls DEF Refs
<1>4. Users(c) = {t}
  BY <1>1, <1>3 DEF Users
<1>5. ~TransportHolds(c)
  BY <1>2, <1>4 DEF TransportHolds
<1>6. Cardinality(Users(c)) = 1
  BY <1>4, FS_Singleton
<1> QED
  BY <1>1, <1>5, <1>6 DEF RefsOf

\* A thread drops a handle when the application has it, or its client is gone.
LEMMA DropStep ==
  ASSUME Inv, NEW t \in Threads, ThreadStep(t), NEW c \in Handles, c \in Refs(t), c \notin Refs(t)'
  PROVE  c \in known' \/ ~clnt'[c].alive
<1> Shape(th[t]) /\ GivenTo(t) /\ TypeOK
  BY DEF Inv, ShapeInv, Given
<1>1. ASSUME NEW h \in Handles, Call(t, h) PROVE c \in known' \/ ~clnt'[c].alive
  <2>1. th[t].pc = "idle"
    BY <1>1, CallEffect
  <2> QED
    BY <2>1, NewThreadFields DEF Inv, ShapeInv, Shape, Refs
<1>2. ASSUME NEW h \in Handles, RegisterErrorCb(t, h) PROVE c \in known' \/ ~clnt'[c].alive
  <2>1. th[t].pc = "idle"
    BY <1>2, RegisterErrorCbEffect
  <2> QED
    BY <2>1, NewThreadFields DEF Inv, ShapeInv, Shape, Refs
<1>3. ASSUME NEW s \in Servers, InitClient(t, s) PROVE c \in known' \/ ~clnt'[c].alive
  <2>1. th[t].pc = "idle"
    BY <1>3, InitClientEffect
  <2> QED
    BY <2>1, NewThreadFields DEF Inv, ShapeInv, Shape, Refs
<1>4. CASE InitInstance(t)
  <2>1. th[t].pc = "idle"
    BY <1>4, InitInstanceEffect
  <2> QED
    BY <2>1, NewThreadFields DEF Inv, ShapeInv, Shape, Refs
<1>5. ASSUME NEW h \in Handles, NEW k \in {"sync", "async"}, Release(t, h, k)
      PROVE  c \in known' \/ ~clnt'[c].alive
  <2>1. th[t].pc = "idle"
    BY <1>5, ReleaseEffect
  <2> QED
    BY <2>1, NewThreadFields DEF Inv, ShapeInv, Shape, Refs
<1>6. CASE EndCall(t)
  <2>1. /\ th[t].pc = "call" /\ (Frees(t, "idle") \/ Leaves(t)) /\ known' = known
    BY <1>6, EndCallEffect
  <2>2. CASE Frees(t, "idle")
    BY <2>2 DEF Frees, KeepsHandles, Refs
  <2>3. CASE Leaves(t)
    <3>1. Refs(t) = {th[t].c} \ {NULL} /\ th[t].c \in known
      BY <2>1 DEF CallPcs, Refs, Shape, GivenTo
    <3> QED
      BY <2>1, <3>1
  <2> QED
    BY <2>1, <2>2, <2>3
<1>7. CASE SetErrorCb(t)
  BY <1>7, SetErrorCbEffect DEF Refs, Goes, Frees, KeepsHandles
<1>8. CASE PendingErrorCb(t)
  BY <1>8, PendingErrorCbEffect DEF Refs, Goes, Frees, KeepsHandles
<1>9. ASSUME NEW d \in Handles, AllocClient(t, d) PROVE c \in known' \/ ~clnt'[c].alive
  <2>1. /\ th[t].pc = "alloc" /\ th'[t].c = d /\ th'[t].user = th[t].user
        /\ OnlyClient(d)
    BY <1>9, AllocClientEffect
  <2>2. th'[t].notifier = th[t].notifier
    BY <1>9, <2>1, AllocClientEffect DEF Shape
  <2>3. th[t].call # "none" /\ th[t].rc # "ok" /\ ~Working(t) /\ (th[t].notifier # NULL => th[t].call = "loop")
    BY <2>1, ThreadElements DEF Shape, Creating, InitCalls, Working, UserPcs, Thread
  <2>4. th[t].c # NULL => (th[t].c = th[t].notifier /\ th[t].call = "loop") \/ ~clnt[th[t].c].alive
    BY <2>3 DEF Inv, Owned
  <2>5. c # d
    BY <2>1, Nulls DEF Refs
  <2> QED
    BY <2>1, <2>2, <2>3, <2>4, <2>5, Nulls DEF Refs, OnlyClient, Shape
<1>10. ASSUME NEW d \in Handles, AllocNotifier(t, d) PROVE c \in known' \/ ~clnt'[c].alive
  <2>1. /\ th[t].pc = "notifier" /\ th'[t].c = d /\ th'[t].user = th[t].user
        /\ OnlyClient(d)
    BY <1>10, AllocNotifierEffect
  <2>2. th[t].call = "first"
    BY <1>10, <2>1, AllocNotifierEffect DEF Shape
  <2>3. th[t].call # "none" /\ th[t].rc # "ok" /\ ~Working(t) /\ (th[t].notifier # NULL => th[t].call = "loop")
    BY <2>1, ThreadElements DEF Shape, Creating, InitCalls, Working, UserPcs, Thread
  <2>4. th[t].c # NULL => (th[t].c = th[t].notifier /\ th[t].call = "loop") \/ ~clnt[th[t].c].alive
    BY <2>3 DEF Inv, Owned
  <2>5. c # d
    BY <2>1, Nulls DEF Refs
  <2> QED
    BY <2>1, <2>2, <2>3, <2>4, <2>5, Nulls DEF Refs, OnlyClient, Shape
<1>11. CASE OpenClient(t)
  BY <1>11, OpenClientEffect DEF Refs, Goes, Frees, KeepsHandles
<1>12. CASE RedoLookup(t)
  BY <1>12, RedoLookupEffect DEF Refs, Goes, Frees, KeepsHandles
<1>13. CASE CloseXport(t)
  BY <1>13, CloseXportEffect DEF Refs, Goes, Frees, KeepsHandles
<1>14. CASE JoinReader(t)
  BY <1>14, JoinReaderEffect DEF Refs, Goes, Frees, KeepsHandles
<1>15. CASE Put(t)
  <2>1. /\ th[t].pc = "put" /\ known' = known
        /\ \/ Frees(t, PutReturns(t))
           \/ Leaves(t) /\ PutReturns(t) = "idle"
           \/ Goes(t, PutReturns(t))
    BY <1>15, PutEffect
  <2>2. CASE Frees(t, PutReturns(t)) \/ Goes(t, PutReturns(t))
    BY <2>2 DEF Frees, Goes, KeepsHandles, Refs
  <2>3. CASE Leaves(t) /\ PutReturns(t) = "idle"
    <3>1. th[t].release # "sync" /\ th[t].call = "none"
      BY <2>3, ThreadElements DEF PutReturns, Shape, Thread
    <3>2. Refs(t) = {th[t].c} \ {NULL} /\ th[t].c \in known
      BY <2>1, <3>1 DEF Refs, Shape, GivenTo
    <3> QED
      BY <2>1, <3>2
  <2> QED
    BY <2>1, <2>2, <2>3
<1>16. CASE Free(t)
  <2>1. /\ th[t].pc = "free" /\ known' = known
        /\ \/ Leaves(t) /\ th[t].after = "idle"
           \/ Goes(t, th[t].after)
    BY <1>16, FreeEffect
  <2>2. CASE Goes(t, th[t].after)
    BY <2>2 DEF Goes, KeepsHandles, Refs
  <2>3. CASE Leaves(t) /\ th[t].after = "idle"
    <3>1. th[t].release # "sync" /\ th[t].call = "none"
      BY <2>1, <2>3 DEF Shape
    <3>2. Refs(t) = {th[t].c} \ {NULL} /\ th[t].c \in known
      BY <2>1, <3>1 DEF Refs, Shape, GivenTo
    <3> QED
      BY <2>1, <3>2
  <2> QED
    BY <2>1, <2>2, <2>3
<1>17. CASE CountServers(t)
  BY <1>17, CountServersEffect DEF Refs, Goes, Frees, KeepsHandles
<1>18. CASE ListServers(t)
  BY <1>18, ListServersEffect DEF Refs, Goes, Frees, KeepsHandles
<1>19. CASE OpenNotifier(t)
  BY <1>19, OpenNotifierEffect DEF Refs, Goes, Frees, KeepsHandles
<1>20. CASE NotifierLookup(t)
  <2> QED
    BY <1>20, NotifierLookupEffect DEF Refs
<1>21. CASE ClearSignal(t)
  BY <1>21, ClearSignalEffect DEF Refs, Goes, Frees, KeepsHandles
<1>22. CASE WaitForServer(t)
  BY <1>22, WaitForServerEffect DEF Refs, Goes, Frees, KeepsHandles
<1>23. CASE ReturnInit(t)
  <2>1. /\ th[t].pc = "returned" /\ clnt' = clnt
        /\ \/ Goes(t, "notifier") \/ Goes(t, "wait")
           \/ th[t].rc = "ok" /\ HandsOver(t, th[t].c)
           \/ th[t].rc # "ok" /\ HandsOver(t, NULL)
           \/ th[t].call # "loop" /\ th[t].rc = "ok" /\ Leaves(t) /\ known' = known \cup {th[t].c}
           \/ th[t].call # "loop" /\ th[t].rc # "ok" /\ Leaves(t)
    BY <1>23, ReturnInitEffect DEF Shape, UserPcs
  <2>2. /\ th[t].call # "none" /\ ~Working(t) /\ th[t].user = NULL /\ th[t].c # NULL
        /\ (th[t].notifier # NULL <=> th[t].call \in {"notifier", "loop"})
        /\ (th[t].call = "notifier" => th[t].c = th[t].notifier)
    BY <2>1 DEF Shape, Working, UserPcs
  <2>3. th[t].rc # "ok" => (th[t].c = th[t].notifier /\ th[t].call = "loop") \/ ~clnt[th[t].c].alive
    BY <2>2 DEF Inv, Owned
  <2>4. CASE Goes(t, "notifier") \/ Goes(t, "wait")
    BY <2>4 DEF Goes, KeepsHandles, Refs
  <2>5. CASE th[t].rc = "ok" /\ HandsOver(t, th[t].c)
    BY <2>2, <2>5 DEF HandsOver, Refs
  <2>6. CASE th[t].rc # "ok" /\ HandsOver(t, NULL)
    BY <2>1, <2>2, <2>3, <2>6 DEF HandsOver, Refs
  <2>7. CASE th[t].call # "loop" /\ th[t].rc = "ok" /\ Leaves(t) /\ known' = known \cup {th[t].c}
    BY <2>2, <2>7 DEF Refs, Shape
  <2>8. CASE th[t].call # "loop" /\ th[t].rc # "ok" /\ Leaves(t)
    BY <2>1, <2>2, <2>3, <2>8 DEF Refs
  <2> QED
    BY <2>1, <2>4, <2>5, <2>6, <2>7, <2>8
<1>24. CASE ReleaseGet(t)
  <2>1. th[t].pc = "rel_get" /\ th[t].notifier = NULL
    BY <1>24, ReleaseGetEffect DEF Shape, ReleasePcs
  <2>2. CASE th[t].c \in table
    <3>1. Goes(t, "rel_put")
      BY <1>24, <2>2, ReleaseGetEffect
    <3> QED
      BY <3>1 DEF Goes, KeepsHandles, Refs
  <2>3. CASE th[t].c \notin table
    <3>1. HandsBack(t) /\ clnt' = clnt
      BY <1>24, <2>3, ReleaseGetEffect
    <3>2. c = th[t].c \/ c \in known'
      BY <2>1, <3>1 DEF HandsBack, Refs
    <3>3. ~Uses(t, c) /\ ~Freeing(t, c)
      BY <2>1 DEF Uses, Freeing, UserPcs
    <3>4. known \subseteq known'
      BY <3>1 DEF HandsBack
    <3> QED
      BY <2>3, <3>1, <3>2, <3>3, <3>4, Dead
  <2> QED
    BY <2>2, <2>3
<1>25. CASE ReleasePut(t)
  BY <1>25, ReleasePutEffect DEF Refs, Goes, Frees, KeepsHandles
<1>26. CASE ReleaseAsync(t)
  <2>1. th[t].pc = "rel_async" /\ th[t].notifier = NULL
    BY <1>26, ReleaseAsyncEffect DEF Shape, ReleasePcs
  <2>2. CASE th[t].c \in table
    <3>1. Goes(t, "shut")
      BY <1>26, <2>2, ReleaseAsyncEffect
    <3> QED
      BY <3>1 DEF Goes, KeepsHandles, Refs
  <2>3. CASE th[t].c \notin table
    <3>1. HandsBack(t) /\ clnt' = clnt
      BY <1>26, <2>3, ReleaseAsyncEffect
    <3>2. c = th[t].c \/ c \in known'
      BY <2>1, <3>1 DEF HandsBack, Refs
    <3>3. ~Uses(t, c) /\ ~Freeing(t, c)
      BY <2>1 DEF Uses, Freeing, UserPcs
    <3>4. known \subseteq known'
      BY <3>1 DEF HandsBack
    <3> QED
      BY <2>3, <3>1, <3>2, <3>3, <3>4, Dead
  <2> QED
    BY <2>2, <2>3
<1>27. CASE Shut(t)
  BY <1>27, ShutEffect DEF Refs, Goes, Frees, KeepsHandles
<1>28. CASE AwaitRelease(t)
  <2>1. /\ th[t].pc = "rel_wait" /\ th[t].notifier = NULL /\ th[t].release = "sync"
        /\ HandsBack(t) /\ clnt' = clnt /\ released[t]
    BY <1>28, AwaitReleaseEffect DEF Shape, ReleasePcs
  <2>2. ~clnt[th[t].c].alive
    BY <2>1 DEF Inv, WaiterInv
  <2> QED
    BY <2>1, <2>2 DEF HandsBack, Refs
<1>29. CASE OpenFails(t)
  BY <1>29, OpenFailsEffect DEF Refs, Goes, Frees, KeepsHandles
<1>30. CASE TimeOut(t)
  <2>1. th[t].pc = "wait" /\ HandsOver(t, NULL) /\ clnt' = clnt
    BY <1>30, TimeOutEffect
  <2>2. th[t].call = "loop" /\ th[t].rc # "ok" /\ ~Working(t) /\ th[t].user = NULL
    BY <2>1 DEF Shape, Working, UserPcs
  <2>3. th[t].c # NULL => th[t].c = th[t].notifier \/ ~clnt[th[t].c].alive
    BY <2>2 DEF Inv, Owned
  <2> QED
    BY <2>1, <2>2, <2>3 DEF HandsOver, Refs
<1> QED
  BY <1>1, <1>2, <1>3, <1>4, <1>5, <1>6, <1>7, <1>8, <1>9, <1>10, <1>11, <1>12, <1>13, <1>14,
     <1>15, <1>16, <1>17, <1>18, <1>19, <1>20, <1>21, <1>22, <1>23, <1>24, <1>25, <1>26, <1>27,
     <1>28, <1>29, <1>30 DEF ThreadStep, CallStart, CallStep

\* What is said of a thread that creates a client and does not work on it.
Resting(t) == th[t].call # "none" /\ th[t].c # NULL /\ ~Working(t) /\ th[t].rc # "ok"
\* A thread that returns without success has nothing left that is alive.
OwnsNone(t) ==
  Resting(t) => (th[t].c = th[t].notifier /\ th[t].call = "loop") \/ ~clnt[th[t].c].alive

\* It holds of a thread after its step.
LEMMA OwnsNoneStep ==
  ASSUME Inv, NEW t \in Threads, ThreadStep(t)
  PROVE  OwnsNone(t)'
<1> Shape(th[t]) /\ OwnsNone(t) /\ TypeOK
  BY DEF Inv, ShapeInv, Owned, OwnsNone, Resting
<1>1. ASSUME NEW h \in Handles, Call(t, h) PROVE OwnsNone(t)'
  BY <1>1, CallEffect, NewThreadFields DEF OwnsNone, Resting, Working, UserPcs, Goes, Frees,
     Leaves, Enters, HandsOver, HandsBack, KeepsHandles
<1>2. ASSUME NEW h \in Handles, RegisterErrorCb(t, h) PROVE OwnsNone(t)'
  BY <1>2, RegisterErrorCbEffect, NewThreadFields DEF OwnsNone, Resting, Working, UserPcs, Goes,
     Frees, Leaves, Enters, HandsOver, HandsBack, KeepsHandles
<1>3. ASSUME NEW s \in Servers, InitClient(t, s) PROVE OwnsNone(t)'
  BY <1>3, InitClientEffect, NewThreadFields DEF OwnsNone, Resting, Working, UserPcs, Goes,
     Frees, Leaves, Enters, HandsOver, HandsBack, KeepsHandles
<1>4. CASE InitInstance(t)
  BY <1>4, InitInstanceEffect, NewThreadFields DEF OwnsNone, Resting, Working, UserPcs, Goes,
     Frees, Leaves, Enters, HandsOver, HandsBack, KeepsHandles
<1>5. ASSUME NEW h \in Handles, NEW k \in {"sync", "async"}, Release(t, h, k) PROVE OwnsNone(t)'
  BY <1>5, ReleaseEffect, NewThreadFields DEF OwnsNone, Resting, Working, UserPcs, Goes, Frees,
     Leaves, Enters, HandsOver, HandsBack, KeepsHandles
<1>6. CASE EndCall(t)
  <2>1. th[t].call = "none"
    BY <1>6, EndCallEffect DEF Shape, CallPcs, ReleasePcs
  <2>2. th'[t].call = "none"
    BY <1>6, <2>1, EndCallEffect, NewThreadFields DEF Goes, Frees, Leaves, Enters, HandsOver, HandsBack, KeepsHandles
  <2> QED
    BY <2>2 DEF OwnsNone, Resting, Working, UserPcs
<1>7. CASE SetErrorCb(t)
  <2>1. th[t].call = "none"
    BY <1>7, SetErrorCbEffect DEF Shape, CallPcs, ReleasePcs
  <2>2. th'[t].call = "none"
    BY <1>7, <2>1, SetErrorCbEffect, NewThreadFields DEF Goes, Frees, Leaves, Enters, HandsOver, HandsBack, KeepsHandles
  <2> QED
    BY <2>2 DEF OwnsNone, Resting, Working, UserPcs
<1>8. CASE PendingErrorCb(t)
  <2>1. th[t].call = "none"
    BY <1>8, PendingErrorCbEffect DEF Shape, CallPcs, ReleasePcs
  <2>2. th'[t].call = "none"
    BY <1>8, <2>1, PendingErrorCbEffect, NewThreadFields DEF Goes, Frees, Leaves, Enters, HandsOver, HandsBack, KeepsHandles
  <2> QED
    BY <2>2 DEF OwnsNone, Resting, Working, UserPcs
<1>9. ASSUME NEW d \in Handles, AllocClient(t, d) PROVE OwnsNone(t)'
  <2>1. th'[t].pc \in {"open", "n_open", "lookup", "n_lookup", "close", "join", "put"}
    BY <1>9, AllocClientEffect DEF Goes
  <2> QED
    BY <2>1 DEF OwnsNone, Resting, Working, UserPcs
<1>10. ASSUME NEW d \in Handles, AllocNotifier(t, d) PROVE OwnsNone(t)'
  <2>1. th'[t].pc \in {"open", "n_open", "lookup", "n_lookup", "close", "join", "put"}
    BY <1>10, AllocNotifierEffect DEF Goes
  <2> QED
    BY <2>1 DEF OwnsNone, Resting, Working, UserPcs
<1>11. CASE OpenClient(t)
  <2>1. th'[t].pc \in {"open", "n_open", "lookup", "n_lookup", "close", "join", "put"}
    BY <1>11, OpenClientEffect DEF Goes
  <2> QED
    BY <2>1 DEF OwnsNone, Resting, Working, UserPcs
<1>12. CASE RedoLookup(t)
  <2>1. th'[t].pc \in {"open", "n_open", "lookup", "n_lookup", "close", "join", "put"}
    BY <1>12, RedoLookupEffect DEF Goes
  <2> QED
    BY <2>1 DEF OwnsNone, Resting, Working, UserPcs
<1>13. CASE CloseXport(t)
  <2>1. th'[t].pc \in {"open", "n_open", "lookup", "n_lookup", "close", "join", "put"}
    BY <1>13, CloseXportEffect DEF Goes
  <2> QED
    BY <2>1 DEF OwnsNone, Resting, Working, UserPcs
<1>14. CASE JoinReader(t)
  <2>1. th'[t].pc \in {"open", "n_open", "lookup", "n_lookup", "close", "join", "put"}
    BY <1>14, JoinReaderEffect DEF Goes
  <2> QED
    BY <2>1 DEF OwnsNone, Resting, Working, UserPcs
<1>15. CASE Put(t)
  <2>1. /\ th[t].pc = "put"
        /\ \/ Frees(t, PutReturns(t))
           \/ Leaves(t)
           \/ /\ Goes(t, PutReturns(t)) /\ th'[t].rc = th[t].rc
              /\ clnt[th[t].c].ref_count # 1
    BY <1>15, PutEffect
  <2>2. CASE Frees(t, PutReturns(t)) \/ Leaves(t)
    BY <2>2, NewThreadFields DEF Frees, Leaves, OwnsNone, Resting, Working, UserPcs
  <2>3. CASE Goes(t, PutReturns(t)) /\ th'[t].rc = th[t].rc /\ clnt[th[t].c].ref_count # 1
    BY <2>1, <2>3, OnlyRef DEF Goes, KeepsHandles, OwnsNone, Resting, Working, UserPcs
  <2> QED
    BY <2>1, <2>2, <2>3
<1>16. CASE Free(t)
  <2>1. /\ th[t].pc = "free" /\ clnt'[th[t].c] = NewClient
        /\ \/ Leaves(t)
           \/ Goes(t, th[t].after)
    BY <1>16, FreeEffect
  <2> QED
    BY <2>1, NewThreadFields, NewClientFields DEF Leaves, Goes, KeepsHandles, OwnsNone, Resting, Working, UserPcs
<1>17. CASE CountServers(t)
  <2>1. /\ th[t].pc \in {"count", "list", "clear", "wait"} /\ KeepsHandles(t)
        /\ th'[t].rc = th[t].rc /\ clnt' = clnt
    BY <1>17, CountServersEffect DEF Goes
  <2> QED
    BY <2>1 DEF KeepsHandles, OwnsNone, Resting, Working, UserPcs
<1>18. CASE ListServers(t)
  <2>1. /\ th[t].pc \in {"count", "list", "clear", "wait"} /\ KeepsHandles(t)
        /\ th'[t].rc = th[t].rc /\ clnt' = clnt
    BY <1>18, ListServersEffect DEF Goes
  <2> QED
    BY <2>1 DEF KeepsHandles, OwnsNone, Resting, Working, UserPcs
<1>19. CASE OpenNotifier(t)
  <2>1. th'[t].pc \in {"open", "n_open", "lookup", "n_lookup", "close", "join", "put"}
    BY <1>19, OpenNotifierEffect DEF Goes
  <2> QED
    BY <2>1 DEF OwnsNone, Resting, Working, UserPcs
<1>20. CASE NotifierLookup(t)
  <2>1. /\ th[t].pc = "n_lookup" /\ th'[t].call = "loop" /\ th'[t].c = th[t].c
        /\ th'[t].notifier = th[t].notifier
    BY <1>20, NotifierLookupEffect
  <2>2. th[t].c = th[t].notifier
    BY <2>1 DEF Shape
  <2> QED
    BY <2>1, <2>2 DEF OwnsNone
<1>21. CASE ClearSignal(t)
  <2>1. /\ th[t].pc \in {"count", "list", "clear", "wait"} /\ KeepsHandles(t)
        /\ th'[t].rc = th[t].rc /\ clnt' = clnt
    BY <1>21, ClearSignalEffect DEF Goes
  <2> QED
    BY <2>1 DEF KeepsHandles, OwnsNone, Resting, Working, UserPcs
<1>22. CASE WaitForServer(t)
  <2>1. /\ th[t].pc \in {"count", "list", "clear", "wait"} /\ KeepsHandles(t)
        /\ th'[t].rc = th[t].rc /\ clnt' = clnt
    BY <1>22, WaitForServerEffect DEF Goes
  <2> QED
    BY <2>1 DEF KeepsHandles, OwnsNone, Resting, Working, UserPcs
<1>23. CASE ReturnInit(t)
  <2>1. /\ th[t].pc = "returned" /\ clnt' = clnt
        /\ \/ (Goes(t, "notifier") \/ Goes(t, "wait")) /\ th'[t].rc = th[t].rc
           \/ HandsOver(t, th[t].c) \/ HandsOver(t, NULL)
           \/ Leaves(t)
    BY <1>23, ReturnInitEffect
  <2>2. CASE (Goes(t, "notifier") \/ Goes(t, "wait")) /\ th'[t].rc = th[t].rc
    BY <2>1, <2>2 DEF Goes, KeepsHandles, OwnsNone, Resting, Working, UserPcs
  <2>3. CASE HandsOver(t, th[t].c) \/ HandsOver(t, NULL) \/ Leaves(t)
    BY <2>3, NewThreadFields DEF HandsOver, Leaves, OwnsNone, Resting, Working, UserPcs
  <2> QED
    BY <2>1, <2>2, <2>3
<1>24. CASE ReleaseGet(t)
  <2>1. th[t].call = "none"
    BY <1>24, ReleaseGetEffect DEF Shape, CallPcs, ReleasePcs
  <2>2. th'[t].call = "none"
    BY <1>24, <2>1, ReleaseGetEffect, NewThreadFields DEF Goes, Frees, Leaves, Enters, HandsOver, HandsBack, KeepsHandles
  <2> QED
    BY <2>2 DEF OwnsNone, Resting, Working, UserPcs
<1>25. CASE ReleasePut(t)
  <2>1. th[t].call = "none"
    BY <1>25, ReleasePutEffect DEF Shape, CallPcs, ReleasePcs
  <2>2. th'[t].call = "none"
    BY <1>25, <2>1, ReleasePutEffect, NewThreadFields DEF Goes, Frees, Leaves, Enters, HandsOver, HandsBack, KeepsHandles
  <2> QED
    BY <2>2 DEF OwnsNone, Resting, Working, UserPcs
<1>26. CASE ReleaseAsync(t)
  <2>1. th[t].call = "none"
    BY <1>26, ReleaseAsyncEffect DEF Shape, CallPcs, ReleasePcs
  <2>2. th'[t].call = "none"
    BY <1>26, <2>1, ReleaseAsyncEffect, NewThreadFields DEF Goes, Frees, Leaves, Enters, HandsOver, HandsBack, KeepsHandles
  <2> QED
    BY <2>2 DEF OwnsNone, Resting, Working, UserPcs
<1>27. CASE Shut(t)
  <2>1. th[t].call = "none"
    BY <1>27, ShutEffect DEF Shape, CallPcs, ReleasePcs
  <2>2. th'[t].call = "none"
    BY <1>27, <2>1, ShutEffect, NewThreadFields DEF Goes, Frees, Leaves, Enters, HandsOver, HandsBack, KeepsHandles
  <2> QED
    BY <2>2 DEF OwnsNone, Resting, Working, UserPcs
<1>28. CASE AwaitRelease(t)
  <2>1. th[t].call = "none"
    BY <1>28, AwaitReleaseEffect DEF Shape, CallPcs, ReleasePcs
  <2>2. th'[t].call = "none"
    BY <1>28, <2>1, AwaitReleaseEffect, NewThreadFields DEF Goes, Frees, Leaves, Enters, HandsOver, HandsBack, KeepsHandles
  <2> QED
    BY <2>2 DEF OwnsNone, Resting, Working, UserPcs
<1>29. CASE OpenFails(t)
  <2>1. th'[t].pc \in {"open", "n_open", "lookup", "n_lookup", "close", "join", "put"}
    BY <1>29, OpenFailsEffect DEF Goes
  <2> QED
    BY <2>1 DEF OwnsNone, Resting, Working, UserPcs
<1>30. CASE TimeOut(t)
  <2>1. th'[t].call = "none"
    BY <1>30, TimeOutEffect DEF HandsOver
  <2> QED
    BY <2>1 DEF OwnsNone, Resting, Working, UserPcs
<1> QED
  BY <1>1, <1>2, <1>3, <1>4, <1>5, <1>6, <1>7, <1>8, <1>9, <1>10, <1>11, <1>12, <1>13, <1>14,
     <1>15, <1>16, <1>17, <1>18, <1>19, <1>20, <1>21, <1>22, <1>23, <1>24, <1>25, <1>26, <1>27,
     <1>28, <1>29, <1>30 DEF ThreadStep, CallStart, CallStep

\* Somebody has to release every client that is alive: a thread that knows it, or the application.
LEMMA OwnedNext ==
  ASSUME Inv, NEW t \in Threads, ThreadStep(t)
  PROVE  Owned'
<1>1. \A u \in Threads \ {t} : th'[u] = th[u] /\ Refs(u)' = Refs(u)
  BY OthersStep DEF Others, Refs
<1>2. known \subseteq known'
  BY TakesStep DEF Takes
<1>3. ASSUME NEW c \in Handles, clnt'[c].alive, c \notin known'
      PROVE  \E u \in Threads : c \in Refs(u)'
  <2>1. CASE th'[t].c = c
    BY <2>1, Nulls DEF Refs
  <2>2. CASE th'[t].c # c
    <3>1. clnt[c].alive /\ c \notin known
      BY <1>2, <1>3, <2>2, Lives
    <3>2. PICK u \in Threads : c \in Refs(u)
      BY <3>1 DEF Inv, Owned
    <3>3. CASE u = t
      BY <1>3, <3>2, <3>3, DropStep
    <3>4. CASE u # t
      BY <1>1, <3>2, <3>4
    <3> QED
      BY <3>3, <3>4
  <2> QED
    BY <2>1, <2>2
<1>4. ASSUME NEW u \in Threads
      PROVE  OwnsNone(u)'
  <2>1. CASE u = t
    BY <2>1, OwnsNoneStep
  <2>2. CASE u # t
    <3>1. th'[u] = th[u] /\ OwnsNone(u)
      BY <1>1, <2>2 DEF Inv, Owned, OwnsNone, Resting
    <3>2. Resting(u) => th[u].c \in Refs(u)
      BY DEF Resting, Refs
    <3>3. Resting(u) => clnt'[th[u].c] = clnt[th[u].c]
      BY <2>2, <3>2, PrivateUntouched DEF Resting, Untouched
    <3> QED
      BY <3>1, <3>3 DEF OwnsNone, Resting, Working
  <2> QED
    BY <2>1, <2>2
<1> QED
  BY <1>3, <1>4 DEF Owned, OwnsNone, Resting

-----------------------------------------------------------------------------
(* The signal of qmi_client_release. *)

\* A thread that waits for the release callback goes on waiting.
LEMMA WaiterStays ==
  ASSUME Inv, NEW t \in Threads, ThreadStep(t), NEW c \in Handles, clnt[c].alive, clnt'[c].alive, th[t].c = c, th[t].release = "sync",
         th[t].pc \in {"close", "join", "put", "free", "rel_wait"}
  PROVE  th'[t].c = c /\ th'[t].release = "sync" /\ th'[t].pc \in {"close", "join", "put", "free", "rel_wait"}
<1>1. ASSUME NEW h \in Handles, Call(t, h)
      PROVE  th'[t].c = c /\ th'[t].release = "sync" /\ th'[t].pc \in {"close", "join", "put", "free", "rel_wait"}
  BY <1>1, CallEffect DEF Goes, KeepsHandles
<1>2. ASSUME NEW h \in Handles, RegisterErrorCb(t, h)
      PROVE  th'[t].c = c /\ th'[t].release = "sync" /\ th'[t].pc \in {"close", "join", "put", "free", "rel_wait"}
  BY <1>2, RegisterErrorCbEffect DEF Goes, KeepsHandles
<1>3. ASSUME NEW s \in Servers, InitClient(t, s)
      PROVE  th'[t].c = c /\ th'[t].release = "sync" /\ th'[t].pc \in {"close", "join", "put", "free", "rel_wait"}
  BY <1>3, InitClientEffect DEF Goes, KeepsHandles
<1>4. CASE InitInstance(t)
  BY <1>4, InitInstanceEffect DEF Goes, KeepsHandles
<1>5. ASSUME NEW h \in Handles, NEW k \in {"sync", "async"}, Release(t, h, k)
      PROVE  th'[t].c = c /\ th'[t].release = "sync" /\ th'[t].pc \in {"close", "join", "put", "free", "rel_wait"}
  BY <1>5, ReleaseEffect DEF Goes, KeepsHandles
<1>6. CASE EndCall(t)
  BY <1>6, EndCallEffect DEF Goes, KeepsHandles
<1>7. CASE SetErrorCb(t)
  BY <1>7, SetErrorCbEffect DEF Goes, KeepsHandles
<1>8. CASE PendingErrorCb(t)
  BY <1>8, PendingErrorCbEffect DEF Goes, KeepsHandles
<1>9. ASSUME NEW d \in Handles, AllocClient(t, d)
      PROVE  th'[t].c = c /\ th'[t].release = "sync" /\ th'[t].pc \in {"close", "join", "put", "free", "rel_wait"}
  BY <1>9, AllocClientEffect DEF Goes, KeepsHandles
<1>10. ASSUME NEW d \in Handles, AllocNotifier(t, d)
       PROVE  th'[t].c = c /\ th'[t].release = "sync" /\ th'[t].pc \in {"close", "join", "put", "free", "rel_wait"}
  BY <1>10, AllocNotifierEffect DEF Goes, KeepsHandles
<1>11. CASE OpenClient(t)
  BY <1>11, OpenClientEffect DEF Goes, KeepsHandles
<1>12. CASE RedoLookup(t)
  BY <1>12, RedoLookupEffect DEF Goes, KeepsHandles
<1>13. CASE CloseXport(t)
  BY <1>13, CloseXportEffect DEF Goes, KeepsHandles
<1>14. CASE JoinReader(t)
  BY <1>14, JoinReaderEffect DEF Goes, KeepsHandles
<1>15. CASE Put(t)
  <2>1. PutReturns(t) = "rel_wait"
    BY DEF PutReturns
  <2> QED
    BY <1>15, <2>1, PutEffect DEF Frees, Goes, KeepsHandles
<1>16. CASE Free(t)
  <2>1. ~clnt'[c].alive
    BY <1>16, FreeEffect, NewClientFields
  <2> QED
    BY <2>1
<1>17. CASE CountServers(t)
  BY <1>17, CountServersEffect DEF Goes, KeepsHandles
<1>18. CASE ListServers(t)
  BY <1>18, ListServersEffect DEF Goes, KeepsHandles
<1>19. CASE OpenNotifier(t)
  BY <1>19, OpenNotifierEffect DEF Goes, KeepsHandles
<1>20. CASE NotifierLookup(t)
  BY <1>20, NotifierLookupEffect DEF Goes, KeepsHandles
<1>21. CASE ClearSignal(t)
  BY <1>21, ClearSignalEffect DEF Goes, KeepsHandles
<1>22. CASE WaitForServer(t)
  BY <1>22, WaitForServerEffect DEF Goes, KeepsHandles
<1>23. CASE ReturnInit(t)
  BY <1>23, ReturnInitEffect DEF Goes, KeepsHandles
<1>24. CASE ReleaseGet(t)
  BY <1>24, ReleaseGetEffect DEF Goes, KeepsHandles
<1>25. CASE ReleasePut(t)
  BY <1>25, ReleasePutEffect DEF Goes, KeepsHandles
<1>26. CASE ReleaseAsync(t)
  BY <1>26, ReleaseAsyncEffect DEF Goes, KeepsHandles
<1>27. CASE Shut(t)
  BY <1>27, ShutEffect DEF Goes, KeepsHandles
<1>28. CASE AwaitRelease(t)
  <2>1. ~clnt[c].alive
    BY <1>28, AwaitReleaseEffect DEF Inv, WaiterInv
  <2> QED
    BY <2>1
<1>29. CASE OpenFails(t)
  BY <1>29, OpenFailsEffect DEF Goes, KeepsHandles
<1>30. CASE TimeOut(t)
  BY <1>30, TimeOutEffect DEF Goes, KeepsHandles
<1> QED
  BY <1>1, <1>2, <1>3, <1>4, <1>5, <1>6, <1>7, <1>8, <1>9, <1>10, <1>11, <1>12, <1>13, <1>14,
     <1>15, <1>16, <1>17, <1>18, <1>19, <1>20, <1>21, <1>22, <1>23, <1>24, <1>25, <1>26, <1>27,
     <1>28, <1>29, <1>30 DEF ThreadStep, CallStart, CallStep

\* The signal of a release says that the client is gone.
LEMMA SignalStep ==
  ASSUME Inv, NEW t \in Threads, ThreadStep(t)
  PROVE  th'[t].release = "sync" /\ released'[t] => th'[t].pc = "rel_get" \/ ~clnt'[th'[t].c].alive
<1> Shape(th[t]) /\ (released[t] /\ th[t].release = "sync" => th[t].pc = "rel_get" \/ ~clnt[th[t].c].alive)
  BY DEF Inv, ShapeInv, WaiterInv
<1>1. ASSUME NEW h \in Handles, Call(t, h)
      PROVE  th'[t].release = "sync" /\ released'[t] => th'[t].pc = "rel_get" \/ ~clnt'[th'[t].c].alive
  BY <1>1, CallEffect DEF Enters
<1>2. ASSUME NEW h \in Handles, RegisterErrorCb(t, h)
      PROVE  th'[t].release = "sync" /\ released'[t] => th'[t].pc = "rel_get" \/ ~clnt'[th'[t].c].alive
  BY <1>2, RegisterErrorCbEffect DEF Enters
<1>3. ASSUME NEW s \in Servers, InitClient(t, s)
      PROVE  th'[t].release = "sync" /\ released'[t] => th'[t].pc = "rel_get" \/ ~clnt'[th'[t].c].alive
  BY <1>3, InitClientEffect DEF Enters
<1>4. CASE InitInstance(t)
  BY <1>4, InitInstanceEffect DEF Enters
<1>5. ASSUME NEW h \in Handles, NEW k \in {"sync", "async"}, Release(t, h, k)
      PROVE  th'[t].release = "sync" /\ released'[t] => th'[t].pc = "rel_get" \/ ~clnt'[th'[t].c].alive
  BY <1>5, ReleaseEffect DEF Enters
<1>6. CASE EndCall(t)
  <2>1. th[t].release = "none"
    BY <1>6, EndCallEffect DEF Shape, Creating, InitCalls, CallPcs
  <2>2. th'[t].release = "none"
    BY <1>6, <2>1, EndCallEffect, NewThreadFields DEF Goes, Frees, Leaves, KeepsHandles
  <2> QED
    BY <2>2
<1>7. CASE SetErrorCb(t)
  <2>1. th[t].release = "none"
    BY <1>7, SetErrorCbEffect DEF Shape, Creating, InitCalls, CallPcs
  <2>2. th'[t].release = "none"
    BY <1>7, <2>1, SetErrorCbEffect, NewThreadFields DEF Goes, Frees, Leaves, KeepsHandles
  <2> QED
    BY <2>2
<1>8. CASE PendingErrorCb(t)
  <2>1. th[t].release = "none"
    BY <1>8, PendingErrorCbEffect DEF Shape, Creating, InitCalls, CallPcs
  <2>2. th'[t].release = "none"
    BY <1>8, <2>1, PendingErrorCbEffect, NewThreadFields DEF Goes, Frees, Leaves, KeepsHandles
  <2> QED
    BY <2>2
<1>9. ASSUME NEW d \in Handles, AllocClient(t, d)
      PROVE  th'[t].release = "sync" /\ released'[t] => th'[t].pc = "rel_get" \/ ~clnt'[th'[t].c].alive
  <2>1. th[t].release = "none"
    BY <1>9, AllocClientEffect DEF Shape, Creating, InitCalls, CallPcs
  <2>2. th'[t].release = "none"
    BY <1>9, <2>1, AllocClientEffect, NewThreadFields DEF Goes, Frees, Leaves, KeepsHandles
  <2> QED
    BY <2>2
<1>10. ASSUME NEW d \in Handles, AllocNotifier(t, d)
       PROVE  th'[t].release = "sync" /\ released'[t] => th'[t].pc = "rel_get" \/ ~clnt'[th'[t].c].alive
  <2>1. th[t].release = "none"
    BY <1>10, AllocNotifierEffect DEF Shape, Creating, InitCalls, CallPcs
  <2>2. th'[t].release = "none"
    BY <1>10, <2>1, AllocNotifierEffect, NewThreadFields DEF Goes, Frees, Leaves, KeepsHandles
  <2> QED
    BY <2>2
<1>11. CASE OpenClient(t)
  <2>1. th[t].release = "none"
    BY <1>11, OpenClientEffect DEF Shape, Creating, InitCalls, CallPcs
  <2>2. th'[t].release = "none"
    BY <1>11, <2>1, OpenClientEffect, NewThreadFields DEF Goes, Frees, Leaves, KeepsHandles
  <2> QED
    BY <2>2
<1>12. CASE RedoLookup(t)
  <2>1. th[t].release = "none"
    BY <1>12, RedoLookupEffect DEF Shape, Creating, InitCalls, CallPcs
  <2>2. th'[t].release = "none"
    BY <1>12, <2>1, RedoLookupEffect, NewThreadFields DEF Goes, Frees, Leaves, KeepsHandles
  <2> QED
    BY <2>2
<1>13. CASE CloseXport(t)
  <2>1. /\ th'[t].c = th[t].c /\ th'[t].release = th[t].release /\ th[t].pc # "rel_get"
        /\ released' = released /\ clnt'[th[t].c].alive = clnt[th[t].c].alive
    BY <1>13, CloseXportEffect DEF Goes, Frees, KeepsHandles, Loses, KeepsClient
  <2> QED
    BY <2>1
<1>14. CASE JoinReader(t)
  <2>1. /\ th'[t].c = th[t].c /\ th'[t].release = th[t].release /\ th[t].pc # "rel_get"
        /\ released' = released /\ clnt'[th[t].c].alive = clnt[th[t].c].alive
    BY <1>14, JoinReaderEffect DEF Goes, Frees, KeepsHandles, Loses, KeepsClient
  <2> QED
    BY <2>1
<1>15. CASE Put(t)
  <2>1. /\ th[t].pc = "put" /\ released' = released /\ clnt'[th[t].c].alive = clnt[th[t].c].alive
        /\ \/ Frees(t, PutReturns(t))
           \/ Leaves(t)
           \/ Goes(t, PutReturns(t))
    BY <1>15, PutEffect DEF Loses, KeepsClient
  <2> QED
    BY <2>1, NewThreadFields DEF Frees, Leaves, Goes, KeepsHandles
<1>16. CASE Free(t)
  <2>1. /\ clnt'[th[t].c] = NewClient
        /\ \/ Leaves(t)
           \/ Goes(t, th[t].after)
    BY <1>16, FreeEffect
  <2> QED
    BY <2>1, NewThreadFields, NewClientFields DEF Leaves, Goes, KeepsHandles
<1>17. CASE CountServers(t)
  <2>1. th[t].release = "none"
    BY <1>17, CountServersEffect DEF Shape, Creating, InitCalls, CallPcs
  <2>2. th'[t].release = "none"
    BY <1>17, <2>1, CountServersEffect, NewThreadFields DEF Goes, Frees, Leaves, KeepsHandles
  <2> QED
    BY <2>2
<1>18. CASE ListServers(t)
  <2>1. th[t].release = "none"
    BY <1>18, ListServersEffect DEF Shape, Creating, InitCalls, CallPcs
  <2>2. th'[t].release = "none"
    BY <1>18, <2>1, ListServersEffect, NewThreadFields DEF Goes, Frees, Leaves, KeepsHandles
  <2> QED
    BY <2>2
<1>19. CASE OpenNotifier(t)
  <2>1. th[t].release = "none"
    BY <1>19, OpenNotifierEffect DEF Shape, Creating, InitCalls, CallPcs
  <2>2. th'[t].release = "none"
    BY <1>19, <2>1, OpenNotifierEffect, NewThreadFields DEF Goes, Frees, Leaves, KeepsHandles
  <2> QED
    BY <2>2
<1>20. CASE NotifierLookup(t)
  <2>1. th[t].release = "none"
    BY <1>20, NotifierLookupEffect DEF Shape, Creating, InitCalls, CallPcs
  <2>2. th'[t].release = "none"
    BY <1>20, <2>1, NotifierLookupEffect, NewThreadFields DEF Goes, Frees, Leaves, KeepsHandles
  <2> QED
    BY <2>2
<1>21. CASE ClearSignal(t)
  <2>1. th[t].release = "none"
    BY <1>21, ClearSignalEffect DEF Shape, Creating, InitCalls, CallPcs
  <2>2. th'[t].release = "none"
    BY <1>21, <2>1, ClearSignalEffect, NewThreadFields DEF Goes, Frees, Leaves, KeepsHandles
  <2> QED
    BY <2>2
<1>22. CASE WaitForServer(t)
  <2>1. th[t].release = "none"
    BY <1>22, WaitForServerEffect DEF Shape, Creating, InitCalls, CallPcs
  <2>2. th'[t].release = "none"
    BY <1>22, <2>1, WaitForServerEffect, NewThreadFields DEF Goes, Frees, Leaves, KeepsHandles
  <2> QED
    BY <2>2
<1>23. CASE ReturnInit(t)
  <2>1. /\ th[t].release = "none"
        /\ \/ Goes(t, "notifier") \/ Goes(t, "wait")
           \/ HandsOver(t, th[t].c) \/ HandsOver(t, NULL)
           \/ Leaves(t)
    BY <1>23, ReturnInitEffect DEF Shape
  <2> QED
    BY <2>1, NewThreadFields DEF HandsOver, Leaves, Goes, KeepsHandles
<1>24. CASE ReleaseGet(t)
  <2>1. (Goes(t, "rel_put") /\ ~released'[t]) \/ Leaves(t)
    BY <1>24, ReleaseGetEffect DEF HandsBack
  <2> QED
    BY <2>1, NewThreadFields DEF Leaves
<1>25. CASE ReleasePut(t)
  <2>1. /\ th[t].pc = "rel_put" /\ released' = released /\ clnt'[th[t].c].alive = clnt[th[t].c].alive
        /\ (Frees(t, "rel_async") \/ Goes(t, "rel_async"))
    BY <1>25, ReleasePutEffect DEF Loses, KeepsClient
  <2> QED
    BY <2>1 DEF Frees, Goes, KeepsHandles
<1>26. CASE ReleaseAsync(t)
  <2>1. th[t].pc = "rel_async"
    BY <1>26, ReleaseAsyncEffect
  <2>2. CASE th[t].c \in table
    <3>1. Goes(t, "shut") /\ released' = released /\ Gains(th[t].c)
      BY <1>26, <2>2, ReleaseAsyncEffect
    <3> QED
      BY <2>1, <3>1 DEF Goes, KeepsHandles, Gains, KeepsClient
  <2>3. CASE th[t].c \notin table
    <3>1. Leaves(t)
      BY <1>26, <2>3, ReleaseAsyncEffect DEF HandsBack
    <3> QED
      BY <3>1, NewThreadFields DEF Leaves
  <2> QED
    BY <2>2, <2>3
<1>27. CASE Shut(t)
  <2>1. /\ th'[t].c = th[t].c /\ th'[t].release = th[t].release /\ th[t].pc # "rel_get"
        /\ released' = released /\ clnt'[th[t].c].alive = clnt[th[t].c].alive
    BY <1>27, ShutEffect DEF Goes, Frees, KeepsHandles, Loses, KeepsClient
  <2> QED
    BY <2>1
<1>28. CASE AwaitRelease(t)
  <2>1. Leaves(t)
    BY <1>28, AwaitReleaseEffect DEF HandsBack
  <2> QED
    BY <2>1, NewThreadFields DEF Leaves
<1>29. CASE OpenFails(t)
  <2>1. th[t].release = "none"
    BY <1>29, OpenFailsEffect DEF Shape, Creating, InitCalls, CallPcs
  <2>2. th'[t].release = "none"
    BY <1>29, <2>1, OpenFailsEffect, NewThreadFields DEF Goes, Frees, Leaves, KeepsHandles
  <2> QED
    BY <2>2
<1>30. CASE TimeOut(t)
  BY <1>30, TimeOutEffect DEF HandsOver
<1> QED
  BY <1>1, <1>2, <1>3, <1>4, <1>5, <1>6, <1>7, <1>8, <1>9, <1>10, <1>11, <1>12, <1>13, <1>14,
     <1>15, <1>16, <1>17, <1>18, <1>19, <1>20, <1>21, <1>22, <1>23, <1>24, <1>25, <1>26, <1>27,
     <1>28, <1>29, <1>30 DEF ThreadStep, CallStart, CallStep

\* The signal of another thread is set only when its client ends.
LEMMA SignalsOthers ==
  ASSUME Inv, NEW t \in Threads, ThreadStep(t)
  PROVE  \A u \in Threads \ {t} : released'[u] = released[u] \/ (th[u].c \in Handles /\ Freeing(t, th[u].c))
<1>1. ASSUME NEW h \in Handles, Call(t, h)
      PROVE  \A u \in Threads \ {t} : released'[u] = released[u] \/ (th[u].c \in Handles /\ Freeing(t, th[u].c))
  BY <1>1, CallEffect
<1>2. ASSUME NEW h \in Handles, RegisterErrorCb(t, h)
      PROVE  \A u \in Threads \ {t} : released'[u] = released[u] \/ (th[u].c \in Handles /\ Freeing(t, th[u].c))
  BY <1>2, RegisterErrorCbEffect
<1>3. ASSUME NEW s \in Servers, InitClient(t, s)
      PROVE  \A u \in Threads \ {t} : released'[u] = released[u] \/ (th[u].c \in Handles /\ Freeing(t, th[u].c))
  BY <1>3, InitClientEffect
<1>4. CASE InitInstance(t)
  BY <1>4, InitInstanceEffect
<1>5. ASSUME NEW h \in Handles, NEW k \in {"sync", "async"}, Release(t, h, k)
      PROVE  \A u \in Threads \ {t} : released'[u] = released[u] \/ (th[u].c \in Handles /\ Freeing(t, th[u].c))
  BY <1>5, ReleaseEffect
<1>6. CASE EndCall(t)
  BY <1>6, EndCallEffect
<1>7. CASE SetErrorCb(t)
  BY <1>7, SetErrorCbEffect
<1>8. CASE PendingErrorCb(t)
  BY <1>8, PendingErrorCbEffect
<1>9. ASSUME NEW d \in Handles, AllocClient(t, d)
      PROVE  \A u \in Threads \ {t} : released'[u] = released[u] \/ (th[u].c \in Handles /\ Freeing(t, th[u].c))
  BY <1>9, AllocClientEffect
<1>10. ASSUME NEW d \in Handles, AllocNotifier(t, d)
       PROVE  \A u \in Threads \ {t} : released'[u] = released[u] \/ (th[u].c \in Handles /\ Freeing(t, th[u].c))
  BY <1>10, AllocNotifierEffect
<1>11. CASE OpenClient(t)
  BY <1>11, OpenClientEffect
<1>12. CASE RedoLookup(t)
  BY <1>12, RedoLookupEffect
<1>13. CASE CloseXport(t)
  BY <1>13, CloseXportEffect
<1>14. CASE JoinReader(t)
  BY <1>14, JoinReaderEffect
<1>15. CASE Put(t)
  BY <1>15, PutEffect
<1>16. CASE Free(t)
  <2>1. th[t].pc = "free" /\ th[t].c \in Handles
    BY <1>16, FreeEffect, ThreadElements DEF Inv, ShapeInv, Shape, Thread
  <2>2. clnt[th[t].c].alive /\ Freeing(t, th[t].c)
    BY <2>1 DEF Inv, FreeInv, Freeing
  <2>3. CASE clnt[th[t].c].release_cb # "internal"
    BY <1>16, <2>3, FreeEffect
  <2>4. CASE clnt[th[t].c].release_cb = "internal"
    <3>1. \A u \in Threads \ {clnt[th[t].c].waiter} : released'[u] = released[u]
      BY <1>16, <2>4, FreeEffect
    <3>2. th[clnt[th[t].c].waiter].c = th[t].c
      BY <2>1, <2>2, <2>4 DEF Inv, WaiterInv
    <3> QED
      BY <2>1, <2>2, <3>1, <3>2
  <2> QED
    BY <2>3, <2>4
<1>17. CASE CountServers(t)
  BY <1>17, CountServersEffect
<1>18. CASE ListServers(t)
  BY <1>18, ListServersEffect
<1>19. CASE OpenNotifier(t)
  BY <1>19, OpenNotifierEffect
<1>20. CASE NotifierLookup(t)
  BY <1>20, NotifierLookupEffect
<1>21. CASE ClearSignal(t)
  BY <1>21, ClearSignalEffect
<1>22. CASE WaitForServer(t)
  BY <1>22, WaitForServerEffect
<1>23. CASE ReturnInit(t)
  BY <1>23, ReturnInitEffect
<1>24. CASE ReleaseGet(t)
  BY <1>24, ReleaseGetEffect
<1>25. CASE ReleasePut(t)
  BY <1>25, ReleasePutEffect
<1>26. CASE ReleaseAsync(t)
  BY <1>26, ReleaseAsyncEffect
<1>27. CASE Shut(t)
  BY <1>27, ShutEffect
<1>28. CASE AwaitRelease(t)
  BY <1>28, AwaitReleaseEffect
<1>29. CASE OpenFails(t)
  BY <1>29, OpenFailsEffect
<1>30. CASE TimeOut(t)
  BY <1>30, TimeOutEffect
<1> QED
  BY <1>1, <1>2, <1>3, <1>4, <1>5, <1>6, <1>7, <1>8, <1>9, <1>10, <1>11, <1>12, <1>13, <1>14,
     <1>15, <1>16, <1>17, <1>18, <1>19, <1>20, <1>21, <1>22, <1>23, <1>24, <1>25, <1>26, <1>27,
     <1>28, <1>29, <1>30 DEF ThreadStep, CallStart, CallStep

\* A release that waits is woken by the end of the client it has released.
LEMMA WaiterNext ==
  ASSUME Inv, NEW t \in Threads, ThreadStep(t)
  PROVE  WaiterInv'
<1>1. \A u \in Threads \ {t} : th'[u] = th[u]
  BY OthersStep DEF Others
<1>2. ASSUME NEW c \in Handles, clnt'[c].alive, clnt'[c].release_cb = "internal"
      PROVE  /\ clnt'[c].waiter \in Threads
             /\ th'[clnt'[c].waiter].c = c
             /\ th'[clnt'[c].waiter].release = "sync"
             /\ th'[clnt'[c].waiter].pc \in {"close", "join", "put", "free", "rel_wait"}
  <2>1. CASE Shuts(t, c)
    BY <1>2, <2>1 DEF Shuts, KeepsHandles
  <2>2. CASE ~Shuts(t, c)
    <3>1. clnt[c].alive /\ clnt[c].release_cb = "internal" /\ clnt'[c].waiter = clnt[c].waiter
      BY <1>2, <2>2, FieldStep, NewClientFields
         DEF FieldKind, Plain, Newborn, Registers, Removed, SameLife, SameRelease
    <3>2. PICK w \in Threads : w = clnt[c].waiter
      BY <3>1 DEF Inv, WaiterInv
    <3>3. /\ th[w].c = c /\ th[w].release = "sync"
          /\ th[w].pc \in {"close", "join", "put", "free", "rel_wait"}
      BY <3>1, <3>2 DEF Inv, WaiterInv
    <3>4. /\ th'[w].c = c /\ th'[w].release = "sync"
          /\ th'[w].pc \in {"close", "join", "put", "free", "rel_wait"}
      BY <1>1, <1>2, <3>1, <3>3, WaiterStays
    <3> QED
      BY <3>1, <3>2, <3>4
  <2> QED
    BY <2>1, <2>2
<1>3. ASSUME NEW u \in Threads, released'[u], th'[u].release = "sync"
      PROVE  th'[u].pc = "rel_get" \/ ~clnt'[th'[u].c].alive
  <2>1. CASE u = t
    BY <1>3, <2>1, SignalStep
  <2>2. CASE u # t
    <3>1. th'[u] = th[u] /\ Shape(th[u])
      BY <1>1, <2>2 DEF Inv, ShapeInv
    <3>2. th[u].c \in Refs(u) /\ th[u].c \in Handles
      <4>1. th[u].c # NULL
        BY <1>3, <3>1, ThreadElements DEF Shape, Thread, ThreadPcs, UserPcs, ReleasePcs, Creating,
           InitCalls, NewThread, Inv
      <4> QED
        BY <4>1, NotFresh DEF Refs
    <3>3. th[u].c # next_clid
      BY <3>2, NotFresh DEF Handles
    <3>4. CASE released[u]
      <4>1. th[u].pc = "rel_get" \/ ~clnt[th[u].c].alive
        BY <1>3, <3>1, <3>4 DEF Inv, WaiterInv
      <4> QED
        BY <3>1, <3>2, <3>3, <4>1, Lives
    <3>5. CASE ~released[u]
      <4>1. Freeing(t, th[u].c)
        BY <1>3, <2>2, <3>5, SignalsOthers
      <4>2. ~clnt'[th[u].c].alive
        BY <3>2, <3>3, <4>1, FieldStep, NewClientFields
           DEF FieldKind, Plain, Newborn, Shuts, Registers, Removed, Freeing
      <4> QED
        BY <3>1, <4>2
    <3> QED
      BY <3>4, <3>5
  <2> QED
    BY <2>1, <2>2
<1> QED
  BY <1>2, <1>3 DEF WaiterInv

-----------------------------------------------------------------------------
(* The release callback. *)

\* A client that the application is about to be given can be used.
LEMMA NewlyKnown ==
  ASSUME Inv, NEW t \in Threads, ThreadStep(t), NEW c \in known', c \notin known
  PROVE  c \in Handles /\ c \in table /\ clnt[c].alive /\ c \in Ready(t)
<1>1. c \in Ready(t)
  BY GivesReady
<1>2. c \in Handles /\ c \in table
  BY <1>1, ReadyRefs, OwnXportOf DEF OwnXport
<1> QED
  BY <1>1, <1>2 DEF Inv, AliveInv

\* The release callback of a client runs once, when the client ends.
LEMMA OnceNext ==
  ASSUME Inv, NEW t \in Threads, ThreadStep(t)
  PROVE  Once'
<1> SUFFICES ASSUME NEW c \in Handles
             PROVE  /\ hist'.released[c] <= 1
                    /\ clnt'[c].alive => hist'.released[c] = 0
                    /\ c \in known' /\ ~clnt'[c].alive => hist'.released[c] = 1
                    /\ c \in known' /\ clnt'[c].alive /\ c \notin table' =>
                         \/ clnt'[c].release_cb # "none"
                         \/ \E u \in Threads : th'[u].pc = "shut" /\ th'[u].c = c
  BY DEF Once
<1>1. /\ hist.released[c] <= 1
      /\ clnt[c].alive => hist.released[c] = 0
      /\ c \in known /\ ~clnt[c].alive => hist.released[c] = 1
      /\ c \in known /\ clnt[c].alive /\ c \notin table =>
           clnt[c].release_cb # "none" \/ \E u \in Threads : th[u].pc = "shut" /\ th[u].c = c
  BY DEF Inv, Once
<1>2. CASE Removed(t, c)
  <2>1. clnt[c].alive /\ xport[c].state # "open" /\ \A u \in Threads : ~Uses(u, c)
    BY <1>2, UsedRefs, RefsOfEvery DEF Removed, RefsOf
  <2>2. ~clnt'[c].alive
    BY <1>2, NewClientFields DEF Removed
  <2>3. c \in known' => c \in known
    <3>1. c \in Ready(t) => xport[c].state = "open"
      BY OwnXportOf DEF OwnXport
    <3> QED
      BY <2>1, <3>1, NewlyKnown
  <2>4. c \in known => c \notin table
    BY <2>1 DEF Inv, XportInv
  <2>5. c \in known => clnt[c].release_cb # "none"
    BY <1>1, <2>1, <2>4 DEF Uses, UserPcs
  <2> QED
    BY <1>1, <1>2, <2>1, <2>2, <2>3, <2>5 DEF Removed
<1>3. CASE ~Removed(t, c)
  <2>1. hist'.released[c] = hist.released[c]
    BY <1>3, FieldStep DEF FieldKind, Plain, Newborn, Shuts, Registers, SameLife
  <2>2. ~Freeing(t, c) \/ Newborn(t, c)
    BY <1>3, FieldStep DEF FieldKind, Plain, Shuts, Registers, Freeing
  <2>3. CASE Newborn(t, c)
    <3>1. c = next_clid /\ Fresh(c)
      BY <2>3 DEF Newborn, Fresh, Handles
    <3>2. hist.released[c] = 0
      BY <3>1 DEF Inv, FreshInv
    <3>3. c \in table' /\ clnt'[c].alive
      BY <2>3 DEF Newborn
    <3> QED
      BY <2>1, <3>2, <3>3
  <2>4. CASE ~Newborn(t, c)
    <3>1. clnt'[c].alive = clnt[c].alive
      BY <1>3, <2>4, FieldStep DEF FieldKind, Plain, Shuts, Registers, SameLife
    <3>2. c \in known' /\ c \notin known => c \in table /\ clnt[c].alive
      BY NewlyKnown
    <3>3. ASSUME c \in known', clnt'[c].alive, c \notin table'
          PROVE  \/ clnt'[c].release_cb # "none"
                 \/ \E u \in Threads : th'[u].pc = "shut" /\ th'[u].c = c
      <4>1. CASE Unlinks(t, c)
        BY <4>1 DEF Unlinks, Closing
      <4>2. CASE ~Unlinks(t, c)
        <5>1. c \notin table
          BY <2>2, <2>4, <3>3, <4>2, XportKindStep DEF XportKind, Keeps, Births, Starts, Stops, Removes
        <5>2. c \in known /\ clnt[c].alive
          BY <3>1, <3>2, <3>3, <5>1
        <5>3. CASE Shuts(t, c)
          BY <5>3 DEF Shuts
        <5>4. CASE ~Shuts(t, c)
          <6>1. /\ clnt'[c].release_cb = clnt[c].release_cb
                /\ ~(th[t].pc = "shut" /\ th[t].c = c)
            BY <1>3, <2>4, <5>4, FieldStep DEF FieldKind, Plain, Registers, SameRelease
          <6> QED
            BY <1>1, <5>1, <5>2, <6>1, OthersStep DEF Others
        <5> QED
          BY <5>3, <5>4
      <4> QED
        BY <4>1, <4>2
    <3> QED
      BY <1>1, <2>1, <3>1, <3>2, <3>3
  <2> QED
    BY <2>3, <2>4
<1> QED
  BY <1>2, <1>3

\* The steps of the others leave all that alone.
LEMMA OtherOwners ==
  ASSUME Inv, OtherStep
  PROVE  Owned' /\ WaiterInv' /\ Once'
<1>1. Aside
  BY OtherAside
<1>2. /\ th' = th /\ table' = table /\ known' = known /\ released' = released
      /\ hist'.released = hist.released
      /\ \A c \in Handles :
           /\ clnt'[c].alive = clnt[c].alive
           /\ clnt'[c].release_cb = clnt[c].release_cb /\ clnt'[c].waiter = clnt[c].waiter
  BY <1>1 DEF Aside, AsideClient
<1>3. \A t \in Threads : th[t].c = NULL \/ th[t].c \in Handles
  BY ThreadElements DEF Inv, Thread
<1>4. \A t \in Threads : th[t].release = "sync" => th[t].c # NULL
  <2> SUFFICES ASSUME NEW t \in Threads, th[t].release = "sync" PROVE th[t].c # NULL
    OBVIOUS
  <2>1. Shape(th[t]) /\ th[t] \in Thread
    BY ThreadElements DEF Inv, ShapeInv
  <2> QED
    BY <2>1 DEF Shape, Thread, ThreadPcs, UserPcs, ReleasePcs, Creating, InitCalls, NewThread
<1>5. Owned'
  <2>1. \A t \in Threads : Refs(t)' = Refs(t) /\ (Working(t)' <=> Working(t))
    BY <1>2 DEF Refs, Working
  <2>2. Owned
    BY DEF Inv
  <2> QED
    BY <1>2, <1>3, <2>1, <2>2 DEF Owned
<1>6. WaiterInv'
  BY <1>2, <1>3, <1>4 DEF WaiterInv, Inv
<1>7. Once'
  BY <1>2 DEF Once, Inv
<1> QED
  BY <1>5, <1>6, <1>7

-----------------------------------------------------------------------------
(* The control port. *)

\* A reader that is to read a message of the control port finds one.
Full(c) == xport[c].more \/ xport[c].pc = "ctl" => xport[c].ctl # <<>>

\* A thread does not take messages from the control port.
LEMMA CtlNext ==
  ASSUME Inv, NEW t \in Threads, ThreadStep(t)
  PROVE  CtlInv'
  BY ReaderStepKind DEF Inv, CtlInv, ReaderKind, SameReader, Begun, Joined

\* A reader thread that goes to read a message finds one.
LEMMA FullStep ==
  ASSUME Inv, OtherStep, NEW c \in Handles
  PROVE  Full(c)'
<1> TypeOK /\ \A d \in Handles : Full(d)
  BY DEF Inv, CtlInv, Full
<1>1. ASSUME NEW d \in Handles, ReadCtl(d) PROVE Full(c)'
  BY <1>1, ReadCtlEffect DEF Full, Reads, OnlyXport
<1>2. ASSUME NEW d \in Handles, ReportError(d) PROVE Full(c)'
  <2>1. /\ OnlyXport(d) /\ xport'[d].ctl = xport[d].ctl /\ xport'[d].more = xport[d].more
        /\ xport'[d].pc = "ctl" => xport[d].more
    BY <1>2, ReportErrorEffect DEF Reads
  <2> QED
    BY <2>1 DEF Full, OnlyXport
<1>3. ASSUME NEW d \in Handles, ErrorCb(d) PROVE Full(c)'
  BY <1>3, ErrorCbEffect DEF Full, Reads, OnlyXport
<1>4. ASSUME NEW d \in Handles, IndCb(d) PROVE Full(c)'
  BY <1>4, IndCbEffect DEF Full, Reads, OnlyXport
<1>5. ASSUME NEW d \in Handles, ReaderExit(d) PROVE Full(c)'
  BY <1>5, ReaderExitEffect DEF Full, Reads, OnlyXport
<1>6. ASSUME NEW d \in Handles, ReadInd(d) PROVE Full(c)'
  BY <1>6, ReadIndEffect DEF Full, Reads, OnlyXport
<1>7. ASSUME NEW d \in Handles, ReaderDies(d) PROVE Full(c)'
  BY <1>7, ReaderDiesEffect DEF Full, Reads, OnlyXport
<1>8. ASSUME NEW s \in Servers, ServerUp(s) PROVE Full(c)'
  <2>1. Tells(<<"new", s>>, c) /\ <<"new", s>> \in CtlMsgs
    BY <1>8, ServerUpEffect DEF CtlMsgs
  <2>2. xport[c].ctl \in Seq(CtlMsgs)
    BY XportElements DEF Xport
  <2>3. Append(xport[c].ctl, <<"new", s>>) # <<>>
    BY <2>1, <2>2
  <2> QED
    BY <2>1, <2>3 DEF Full, Tells
<1>9. ASSUME NEW s \in Servers, ServerDown(s) PROVE Full(c)'
  <2>1. Tells(<<"remove", s>>, c) /\ <<"remove", s>> \in CtlMsgs
    BY <1>9, ServerDownEffect DEF CtlMsgs
  <2>2. xport[c].ctl \in Seq(CtlMsgs)
    BY XportElements DEF Xport
  <2>3. Append(xport[c].ctl, <<"remove", s>>) # <<>>
    BY <2>1, <2>2
  <2> QED
    BY <2>1, <2>3 DEF Full, Tells
<1> QED
  BY <1>1, <1>2, <1>3, <1>4, <1>5, <1>6, <1>7, <1>8, <1>9 DEF OtherStep, ReaderStep

\* Nor does a reader thread go to read one that is not there.
LEMMA OtherCtl ==
  ASSUME Inv, OtherStep
  PROVE  CtlInv'
  BY FullStep DEF CtlInv, Full

-----------------------------------------------------------------------------
(* The exit of the server will be heard of. *)

\* Nothing changes for a client whose reader and whose server are the same.
LEMMA WillHearSame ==
  ASSUME NEW c, up' = up, SameReader(c), SameServer(c)
  PROVE  WillHear(c)' <=> WillHear(c)
  BY DEF WillHear, SameReader, SameServer

\* Nothing changes for a client that is left alone.
LEMMA UntouchedHears ==
  ASSUME NEW c, up' = up, Untouched(c)
  PROVE  WillHear(c)' <=> WillHear(c)
  BY DEF WillHear, Untouched

\* The threads do not change what the router knows.
LEMMA UpSame ==
  ASSUME Inv, NEW t \in Threads, ThreadStep(t)
  PROVE  up' = up
<1>1. ASSUME NEW h \in Handles, Call(t, h) PROVE up' = up
  BY <1>1, CallEffect
<1>2. ASSUME NEW h \in Handles, RegisterErrorCb(t, h) PROVE up' = up
  BY <1>2, RegisterErrorCbEffect
<1>3. ASSUME NEW s \in Servers, InitClient(t, s) PROVE up' = up
  BY <1>3, InitClientEffect
<1>4. CASE InitInstance(t)
  BY <1>4, InitInstanceEffect
<1>5. ASSUME NEW h \in Handles, NEW k \in {"sync", "async"}, Release(t, h, k) PROVE up' = up
  BY <1>5, ReleaseEffect
<1>6. CASE EndCall(t)
  BY <1>6, EndCallEffect
<1>7. CASE SetErrorCb(t)
  BY <1>7, SetErrorCbEffect
<1>8. CASE PendingErrorCb(t)
  BY <1>8, PendingErrorCbEffect
<1>9. ASSUME NEW d \in Handles, AllocClient(t, d) PROVE up' = up
  BY <1>9, AllocClientEffect
<1>10. ASSUME NEW d \in Handles, AllocNotifier(t, d) PROVE up' = up
  BY <1>10, AllocNotifierEffect
<1>11. CASE OpenClient(t)
  BY <1>11, OpenClientEffect
<1>12. CASE RedoLookup(t)
  BY <1>12, RedoLookupEffect
<1>13. CASE CloseXport(t)
  BY <1>13, CloseXportEffect
<1>14. CASE JoinReader(t)
  BY <1>14, JoinReaderEffect
<1>15. CASE Put(t)
  BY <1>15, PutEffect
<1>16. CASE Free(t)
  BY <1>16, FreeEffect
<1>17. CASE CountServers(t)
  BY <1>17, CountServersEffect
<1>18. CASE ListServers(t)
  BY <1>18, ListServersEffect
<1>19. CASE OpenNotifier(t)
  BY <1>19, OpenNotifierEffect
<1>20. CASE NotifierLookup(t)
  BY <1>20, NotifierLookupEffect
<1>21. CASE ClearSignal(t)
  BY <1>21, ClearSignalEffect
<1>22. CASE WaitForServer(t)
  BY <1>22, WaitForServerEffect
<1>23. CASE ReturnInit(t)
  BY <1>23, ReturnInitEffect
<1>24. CASE ReleaseGet(t)
  BY <1>24, ReleaseGetEffect
<1>25. CASE ReleasePut(t)
  BY <1>25, ReleasePutEffect
<1>26. CASE ReleaseAsync(t)
  BY <1>26, ReleaseAsyncEffect
<1>27. CASE Shut(t)
  BY <1>27, ShutEffect
<1>28. CASE AwaitRelease(t)
  BY <1>28, AwaitReleaseEffect
<1>29. CASE OpenFails(t)
  BY <1>29, OpenFailsEffect
<1>30. CASE TimeOut(t)
  BY <1>30, TimeOutEffect
<1> QED
  BY <1>1, <1>2, <1>3, <1>4, <1>5, <1>6, <1>7, <1>8, <1>9, <1>10, <1>11, <1>12, <1>13, <1>14,
     <1>15, <1>16, <1>17, <1>18, <1>19, <1>20, <1>21, <1>22, <1>23, <1>24, <1>25, <1>26, <1>27,
     <1>28, <1>29, <1>30 DEF ThreadStep, CallStart, CallStep

\* A client in use keeps its reader: it is neither new nor being closed.
LEMMA KnownHears ==
  ASSUME Inv, NEW t \in Threads, ThreadStep(t), NEW c \in known \cap table, c \in table'
  PROVE  WillHear(c)'
<1>1. c \in Handles /\ WillHear(c) /\ up' = up
  BY UpSame DEF Inv, TypeOK, ExitInv
<1>2. xport[c].state = "open" /\ c # next_clid
  BY <1>1, FreshUnused DEF Inv, XportInv
<1>3. SameReader(c)
  <2>1. ~Begun(t, c)
    BY <1>1, <1>2 DEF Begun, Inv, XportInv
  <2>2. ~Joined(t, c)
    <3> SUFFICES ASSUME Joined(t, c) PROVE FALSE
      OBVIOUS
    <3>1. th[t].release = "none" /\ c \in Refs(t)
      BY <1>1, OwnXportOf, Nulls DEF OwnXport, Joined, Closing, Refs
    <3>2. th[t].call # "none"
      BY <3>1 DEF Inv, ShapeInv, Shape, Joined, InitCalls
    <3> QED
      BY <3>1, <3>2 DEF Inv, Given, GivenTo
  <2> QED
    BY <1>1, <2>1, <2>2, ReaderStepKind DEF ReaderKind
<1>4. SameServer(c)
  <2>1. ~Removed(t, c)
    BY <1>1, <1>2, UsedRefs DEF Removed
  <2> QED
    BY <1>1, <1>2, <2>1, FieldStep DEF FieldKind, Plain, Newborn, Shuts, Registers
<1> QED
  BY <1>1, <1>3, <1>4, WillHearSame

\* What a thread relies on: the client it has made will hear, and is one of the server it looks up.
Hears(t) ==
  /\ th[t].rc = "ok" => WillHear(th[t].c)
  /\ th[t].user # NULL => WillHear(th[t].user)
  /\ th[t].pc \in {"open", "lookup"} /\ clnt[th[t].c].addr_valid =>
       clnt[th[t].c].server_addr = th[t].s

\* While it releases its notifier, a thread leaves the client alone that it has made.
LEMMA UserHears ==
  ASSUME Inv, NEW t \in Threads, ThreadStep(t), KeepsHandles(t), NEW c \in Handles, c = th[t].user
  PROVE  WillHear(c)'
<1>1. c # th[t].c
  BY Nulls DEF Inv, ShapeInv, Shape
<1>2. Untouched(c)
  BY <1>1, TouchStep DEF KeepsHandles
<1>3. WillHear(c)
  BY Nulls DEF Inv, ExitInv
<1> QED
  BY <1>2, <1>3, UntouchedHears, UpSame

\* What is to be shown of a thread that has left the creation of a client behind.
LEMMA HearsIf ==
  ASSUME NEW t \in Threads,
         th'[t].rc = "ok" => \E c \in Handles : c = th'[t].c /\ WillHear(c)',
         th'[t].user # NULL => \E c \in Handles : c = th'[t].user /\ WillHear(c)',
         th'[t].pc \notin {"open", "lookup"}
  PROVE  Hears(t)'
<1>1. th'[t].rc = "ok" => WillHear(th[t].c)'
  BY DEF WillHear
<1>2. th'[t].user # NULL => WillHear(th[t].user)'
  BY DEF WillHear
<1> QED
  BY <1>1, <1>2 DEF Hears

\* A thread that keeps its handles, and does not just succeed, has what it had.
LEMMA KeepsHearing ==
  ASSUME Inv, NEW t \in Threads, ThreadStep(t), KeepsHandles(t), th'[t].rc # "ok",
         th'[t].pc \notin {"open", "lookup"}
  PROVE  Hears(t)'
<1> TypeOK
  BY DEF Inv
<1>1. \A c \in Handles : c = th[t].user => WillHear(c)'
  BY UserHears
<1>2. th'[t].user = th[t].user /\ th[t].user \in Handles \cup {NULL}
  BY ThreadElements DEF KeepsHandles, Thread
<1> QED
  BY <1>1, <1>2, HearsIf

\* It holds of a thread after its step.
LEMMA HearsStep ==
  ASSUME Inv, NEW t \in Threads, ThreadStep(t)
  PROVE  Hears(t)'
<1> Shape(th[t]) /\ Hears(t) /\ TypeOK
  BY DEF Inv, ShapeInv, ExitInv, Hears
<1>1. ASSUME NEW h \in Handles, Call(t, h) PROVE Hears(t)'
  <2>1. /\ th'[t].rc = "none" /\ th'[t].user = NULL /\ th'[t].pc \notin {"open", "lookup"}
    BY <1>1, CallEffect, NewThreadFields DEF Enters
  <2> QED
    BY <2>1 DEF Hears
<1>2. ASSUME NEW h \in Handles, RegisterErrorCb(t, h) PROVE Hears(t)'
  <2>1. /\ th'[t].rc = "none" /\ th'[t].user = NULL /\ th'[t].pc \notin {"open", "lookup"}
    BY <1>2, RegisterErrorCbEffect, NewThreadFields DEF Enters
  <2> QED
    BY <2>1 DEF Hears
<1>3. ASSUME NEW s \in Servers, InitClient(t, s) PROVE Hears(t)'
  <2>1. /\ th'[t].rc = "none" /\ th'[t].user = NULL /\ th'[t].pc \notin {"open", "lookup"}
    BY <1>3, InitClientEffect, NewThreadFields DEF Enters
  <2> QED
    BY <2>1 DEF Hears
<1>4. CASE InitInstance(t)
  <2>1. /\ th'[t].rc = "none" /\ th'[t].user = NULL /\ th'[t].pc \notin {"open", "lookup"}
    BY <1>4, InitInstanceEffect, NewThreadFields DEF Enters
  <2> QED
    BY <2>1 DEF Hears
<1>5. ASSUME NEW h \in Handles, NEW k \in {"sync", "async"}, Release(t, h, k) PROVE Hears(t)'
  <2>1. /\ th'[t].rc = "none" /\ th'[t].user = NULL /\ th'[t].pc \notin {"open", "lookup"}
    BY <1>5, ReleaseEffect, NewThreadFields DEF Enters
  <2> QED
    BY <2>1 DEF Hears
<1>6. CASE EndCall(t)
  <2>1. th[t].rc # "ok" /\ th[t].user = NULL
    BY <1>6, EndCallEffect DEF Shape, CallPcs, InitCalls
  <2>2. th'[t].rc # "ok" /\ th'[t].user = NULL /\ th'[t].pc \notin {"open", "lookup"}
    BY <1>6, <2>1, EndCallEffect, NewThreadFields DEF Goes, Frees, Leaves, Enters, HandsOver, HandsBack, KeepsHandles
  <2> QED
    BY <2>2 DEF Hears
<1>7. CASE SetErrorCb(t)
  <2>1. th[t].rc # "ok" /\ th[t].user = NULL
    BY <1>7, SetErrorCbEffect DEF Shape, CallPcs, InitCalls
  <2>2. th'[t].rc # "ok" /\ th'[t].user = NULL /\ th'[t].pc \notin {"open", "lookup"}
    BY <1>7, <2>1, SetErrorCbEffect, NewThreadFields DEF Goes, Frees, Leaves, Enters, HandsOver, HandsBack, KeepsHandles
  <2> QED
    BY <2>2 DEF Hears
<1>8. CASE PendingErrorCb(t)
  <2>1. th[t].rc # "ok" /\ th[t].user = NULL
    BY <1>8, PendingErrorCbEffect DEF Shape, CallPcs, InitCalls
  <2>2. th'[t].rc # "ok" /\ th'[t].user = NULL /\ th'[t].pc \notin {"open", "lookup"}
    BY <1>8, <2>1, PendingErrorCbEffect, NewThreadFields DEF Goes, Frees, Leaves, Enters, HandsOver, HandsBack, KeepsHandles
  <2> QED
    BY <2>2 DEF Hears
<1>9. ASSUME NEW d \in Handles, AllocClient(t, d) PROVE Hears(t)'
  <2>1. th[t].pc = "alloc" /\ th'[t].rc = th[t].rc /\ th'[t].user = th[t].user
    BY <1>9, AllocClientEffect
  <2>2. th[t].rc # "ok" /\ th[t].user = NULL
    BY <2>1 DEF Shape, Creating, InitCalls
  <2>3. th'[t].c = d /\ clnt'[d].server_addr = th[t].s /\ th'[t].s = th[t].s
    BY <1>9, AllocClientEffect
  <2> QED
    BY <2>1, <2>2, <2>3 DEF Hears
<1>10. ASSUME NEW d \in Handles, AllocNotifier(t, d) PROVE Hears(t)'
  <2>1. th[t].rc # "ok" /\ th[t].user = NULL
    BY <1>10, AllocNotifierEffect DEF Shape, CallPcs, InitCalls
  <2>2. th'[t].rc # "ok" /\ th'[t].user = NULL /\ th'[t].pc \notin {"open", "lookup"}
    BY <1>10, <2>1, AllocNotifierEffect, NewThreadFields DEF Goes, Frees, Leaves, Enters, HandsOver, HandsBack, KeepsHandles
  <2> QED
    BY <2>2 DEF Hears
<1>11. CASE OpenClient(t)
  <2>1. /\ th[t].pc = "open" /\ th'[t].rc = th[t].rc /\ KeepsHandles(t) /\ th'[t].s = th[t].s
        /\ KeepsClient(th[t].c)
    BY <1>11, OpenClientEffect
  <2>2. th[t].rc # "ok" /\ th[t].user = NULL
    BY <2>1 DEF Shape, Creating, InitCalls
  <2> QED
    BY <2>1, <2>2 DEF Hears, KeepsHandles, KeepsClient
<1>12. CASE RedoLookup(t)
  <2>1. /\ th[t].pc = "lookup" /\ KeepsHandles(t) /\ th'[t].s = th[t].s
        /\ UNCHANGED <<clnt, xport, up>>
        /\ \/ th'[t].pc = "lookup" /\ th'[t].rc = th[t].rc
           \/ th'[t].pc = "close" /\ th'[t].rc # "ok"
           \/ th'[t].pc = "put" /\ th'[t].rc = "ok" /\ th[t].s \in up
    BY <1>12, RedoLookupEffect
  <2>2. th[t].rc # "ok" /\ th[t].user = NULL
    BY <2>1 DEF Shape, Creating, InitCalls
  <2>3. th[t].c \in Handles
    BY <2>1, ThreadElements DEF Shape, UserPcs, Thread
  <2>4. ASSUME NEW c \in Handles, c = th[t].c, th[t].s \in up
        PROVE  WillHear(c)'
    BY <2>1, <2>4 DEF Hears, WillHear
  <2>5. CASE th'[t].pc = "lookup" /\ th'[t].rc = th[t].rc
    BY <2>1, <2>2, <2>5 DEF Hears, KeepsHandles
  <2>6. CASE th'[t].pc = "close" /\ th'[t].rc # "ok"
    BY <2>1, <2>2, <2>6 DEF Hears, KeepsHandles
  <2>7. CASE th'[t].pc = "put" /\ th'[t].rc = "ok" /\ th[t].s \in up
    BY <2>1, <2>2, <2>3, <2>4, <2>7, HearsIf DEF KeepsHandles
  <2> QED
    BY <2>1, <2>5, <2>6, <2>7
<1>13. CASE CloseXport(t)
  <2>1. /\ th'[t].pc \notin {"open", "lookup"} /\ th[t].pc # "returned" /\ th[t].pc # "put"
        /\ \/ th'[t].rc = "none" /\ th'[t].user = NULL
           \/ KeepsHandles(t) /\ th'[t].rc = th[t].rc
    BY <1>13, CloseXportEffect, NewThreadFields DEF Goes, Frees, Leaves, HandsBack
  <2>2. th[t].rc # "ok"
    BY <2>1 DEF Shape
  <2>3. CASE th'[t].rc = "none" /\ th'[t].user = NULL
    BY <2>1, <2>3 DEF Hears
  <2>4. CASE KeepsHandles(t) /\ th'[t].rc = th[t].rc
    BY <2>1, <2>2, <2>4, KeepsHearing
  <2> QED
    BY <2>1, <2>3, <2>4
<1>14. CASE JoinReader(t)
  <2>1. /\ th'[t].pc \notin {"open", "lookup"} /\ th[t].pc # "returned" /\ th[t].pc # "put"
        /\ \/ th'[t].rc = "none" /\ th'[t].user = NULL
           \/ KeepsHandles(t) /\ th'[t].rc = th[t].rc
    BY <1>14, JoinReaderEffect, NewThreadFields DEF Goes, Frees, Leaves, HandsBack
  <2>2. th[t].rc # "ok"
    BY <2>1 DEF Shape
  <2>3. CASE th'[t].rc = "none" /\ th'[t].user = NULL
    BY <2>1, <2>3 DEF Hears
  <2>4. CASE KeepsHandles(t) /\ th'[t].rc = th[t].rc
    BY <2>1, <2>2, <2>4, KeepsHearing
  <2> QED
    BY <2>1, <2>3, <2>4
<1>15. CASE Put(t)
  <2>1. /\ th[t].pc = "put" /\ Loses(th[t].c) /\ UNCHANGED <<xport, up>>
        /\ \/ Frees(t, PutReturns(t)) /\ th'[t].rc = th[t].rc
           \/ Leaves(t)
           \/ Goes(t, PutReturns(t)) /\ th'[t].rc = th[t].rc
    BY <1>15, PutEffect
  <2>2. ASSUME NEW c \in Handles, th[t].rc = "ok", c = th[t].c PROVE WillHear(c)'
    BY <2>1, <2>2 DEF Hears, WillHear, Loses, KeepsClient
  <2>3. CASE Leaves(t)
    BY <2>3, NewThreadFields DEF Hears, Leaves
  <2>4. CASE th'[t].rc = th[t].rc /\ (Frees(t, PutReturns(t)) \/ Goes(t, PutReturns(t)))
    <3>1. /\ KeepsHandles(t) /\ th'[t].pc \notin {"open", "lookup"} /\ th[t].c \in Handles
          /\ th[t].rc = "ok" => th[t].user = NULL
      BY <2>1, <2>4, ThreadElements DEF Frees, Goes, PutReturns, Shape, UserPcs, InitCalls, Thread
    <3>2. CASE th[t].rc = "ok"
      BY <2>2, <2>4, <3>1, <3>2, HearsIf DEF KeepsHandles
    <3>3. CASE th[t].rc # "ok"
      BY <2>4, <3>1, <3>3, KeepsHearing
    <3> QED
      BY <3>2, <3>3
  <2> QED
    BY <2>1, <2>3, <2>4
<1>16. CASE Free(t)
  <2>1. /\ th[t].pc = "free"
        /\ \/ Leaves(t)
           \/ Goes(t, th[t].after) /\ th'[t].rc = th[t].rc
    BY <1>16, FreeEffect
  <2>2. th[t].rc # "ok" /\ th[t].after \notin {"open", "lookup"}
    BY <2>1 DEF Shape
  <2>3. CASE Leaves(t)
    BY <2>3, NewThreadFields DEF Hears, Leaves
  <2>4. CASE Goes(t, th[t].after) /\ th'[t].rc = th[t].rc
    BY <2>2, <2>4, KeepsHearing DEF Goes
  <2> QED
    BY <2>1, <2>3, <2>4
<1>17. CASE CountServers(t)
  <2>1. th[t].rc # "ok" /\ th[t].user = NULL
    BY <1>17, CountServersEffect DEF Shape, CallPcs, InitCalls
  <2>2. th'[t].rc # "ok" /\ th'[t].user = NULL /\ th'[t].pc \notin {"open", "lookup"}
    BY <1>17, <2>1, CountServersEffect, NewThreadFields DEF Goes, Frees, Leaves, Enters, HandsOver, HandsBack, KeepsHandles
  <2> QED
    BY <2>2 DEF Hears
<1>18. CASE ListServers(t)
  <2>1. th[t].rc # "ok" /\ th[t].user = NULL
    BY <1>18, ListServersEffect DEF Shape, CallPcs, InitCalls
  <2>2. th'[t].rc # "ok" /\ th'[t].user = NULL /\ th'[t].pc \notin {"open", "lookup"}
    BY <1>18, <2>1, ListServersEffect, NewThreadFields DEF Goes, Frees, Leaves, Enters, HandsOver, HandsBack, KeepsHandles
  <2> QED
    BY <2>2 DEF Hears
<1>19. CASE OpenNotifier(t)
  <2>1. th[t].rc # "ok" /\ th[t].user = NULL
    BY <1>19, OpenNotifierEffect DEF Shape, CallPcs, InitCalls
  <2>2. th'[t].rc # "ok" /\ th'[t].user = NULL /\ th'[t].pc \notin {"open", "lookup"}
    BY <1>19, <2>1, OpenNotifierEffect, NewThreadFields DEF Goes, Frees, Leaves, Enters, HandsOver, HandsBack, KeepsHandles
  <2> QED
    BY <2>2 DEF Hears
<1>20. CASE NotifierLookup(t)
  <2>1. th[t].rc # "ok" /\ th[t].user = NULL
    BY <1>20, NotifierLookupEffect DEF Shape, CallPcs, InitCalls
  <2>2. th'[t].rc # "ok" /\ th'[t].user = NULL /\ th'[t].pc \notin {"open", "lookup"}
    BY <1>20, <2>1, NotifierLookupEffect, NewThreadFields DEF Goes, Frees, Leaves, Enters, HandsOver, HandsBack, KeepsHandles
  <2> QED
    BY <2>2 DEF Hears
<1>21. CASE ClearSignal(t)
  <2>1. th[t].rc # "ok" /\ th[t].user = NULL
    BY <1>21, ClearSignalEffect DEF Shape, CallPcs, InitCalls
  <2>2. th'[t].rc # "ok" /\ th'[t].user = NULL /\ th'[t].pc \notin {"open", "lookup"}
    BY <1>21, <2>1, ClearSignalEffect, NewThreadFields DEF Goes, Frees, Leaves, Enters, HandsOver, HandsBack, KeepsHandles
  <2> QED
    BY <2>2 DEF Hears
<1>22. CASE WaitForServer(t)
  <2>1. th[t].rc # "ok" /\ th[t].user = NULL
    BY <1>22, WaitForServerEffect DEF Shape, CallPcs, InitCalls
  <2>2. th'[t].rc # "ok" /\ th'[t].user = NULL /\ th'[t].pc \notin {"open", "lookup"}
    BY <1>22, <2>1, WaitForServerEffect, NewThreadFields DEF Goes, Frees, Leaves, Enters, HandsOver, HandsBack, KeepsHandles
  <2> QED
    BY <2>2 DEF Hears
<1>23. CASE ReturnInit(t)
  <2>1. /\ th[t].pc = "returned" /\ UNCHANGED <<clnt, xport, up>>
        /\ \/ (Goes(t, "notifier") \/ Goes(t, "wait")) /\ th[t].rc = "service" /\ th'[t].rc = th[t].rc
           \/ th[t].rc = "ok" /\ HandsOver(t, th[t].c)
           \/ HandsOver(t, NULL)
           \/ Leaves(t)
    BY <1>23, ReturnInitEffect
  <2>2. th[t].user = NULL
    BY <2>1 DEF Shape
  <2>3. ASSUME NEW c \in Handles, th[t].rc = "ok", c = th[t].c PROVE WillHear(c)'
    BY <2>1, <2>3 DEF Hears, WillHear
  <2>4. CASE (Goes(t, "notifier") \/ Goes(t, "wait")) /\ th[t].rc = "service" /\ th'[t].rc = th[t].rc
    BY <2>2, <2>4 DEF Hears, Goes, KeepsHandles
  <2>5. CASE th[t].rc = "ok" /\ HandsOver(t, th[t].c)
    <3>1. th[t].c \in Handles
      BY <2>1, ThreadElements DEF Shape, Thread
    <3> QED
      BY <2>3, <2>5, <3>1, HearsIf DEF HandsOver
  <2>6. CASE HandsOver(t, NULL) \/ Leaves(t)
    BY <2>6, NewThreadFields DEF Hears, HandsOver, Leaves
  <2> QED
    BY <2>1, <2>4, <2>5, <2>6
<1>24. CASE ReleaseGet(t)
  <2>1. /\ th'[t].pc \notin {"open", "lookup"} /\ th[t].pc # "returned" /\ th[t].pc # "put"
        /\ \/ th'[t].rc = "none" /\ th'[t].user = NULL
           \/ KeepsHandles(t) /\ th'[t].rc = th[t].rc
    BY <1>24, ReleaseGetEffect, NewThreadFields DEF Goes, Frees, Leaves, HandsBack
  <2>2. th[t].rc # "ok"
    BY <2>1 DEF Shape
  <2>3. CASE th'[t].rc = "none" /\ th'[t].user = NULL
    BY <2>1, <2>3 DEF Hears
  <2>4. CASE KeepsHandles(t) /\ th'[t].rc = th[t].rc
    BY <2>1, <2>2, <2>4, KeepsHearing
  <2> QED
    BY <2>1, <2>3, <2>4
<1>25. CASE ReleasePut(t)
  <2>1. /\ th'[t].pc \notin {"open", "lookup"} /\ th[t].pc # "returned" /\ th[t].pc # "put"
        /\ \/ th'[t].rc = "none" /\ th'[t].user = NULL
           \/ KeepsHandles(t) /\ th'[t].rc = th[t].rc
    BY <1>25, ReleasePutEffect, NewThreadFields DEF Goes, Frees, Leaves, HandsBack
  <2>2. th[t].rc # "ok"
    BY <2>1 DEF Shape
  <2>3. CASE th'[t].rc = "none" /\ th'[t].user = NULL
    BY <2>1, <2>3 DEF Hears
  <2>4. CASE KeepsHandles(t) /\ th'[t].rc = th[t].rc
    BY <2>1, <2>2, <2>4, KeepsHearing
  <2> QED
    BY <2>1, <2>3, <2>4
<1>26. CASE ReleaseAsync(t)
  <2>1. /\ th'[t].pc \notin {"open", "lookup"} /\ th[t].pc # "returned" /\ th[t].pc # "put"
        /\ \/ th'[t].rc = "none" /\ th'[t].user = NULL
           \/ KeepsHandles(t) /\ th'[t].rc = th[t].rc
    BY <1>26, ReleaseAsyncEffect, NewThreadFields DEF Goes, Frees, Leaves, HandsBack
  <2>2. th[t].rc # "ok"
    BY <2>1 DEF Shape
  <2>3. CASE th'[t].rc = "none" /\ th'[t].user = NULL
    BY <2>1, <2>3 DEF Hears
  <2>4. CASE KeepsHandles(t) /\ th'[t].rc = th[t].rc
    BY <2>1, <2>2, <2>4, KeepsHearing
  <2> QED
    BY <2>1, <2>3, <2>4
<1>27. CASE Shut(t)
  <2>1. /\ th'[t].pc \notin {"open", "lookup"} /\ th[t].pc # "returned" /\ th[t].pc # "put"
        /\ \/ th'[t].rc = "none" /\ th'[t].user = NULL
           \/ KeepsHandles(t) /\ th'[t].rc = th[t].rc
    BY <1>27, ShutEffect, NewThreadFields DEF Goes, Frees, Leaves, HandsBack
  <2>2. th[t].rc # "ok"
    BY <2>1 DEF Shape
  <2>3. CASE th'[t].rc = "none" /\ th'[t].user = NULL
    BY <2>1, <2>3 DEF Hears
  <2>4. CASE KeepsHandles(t) /\ th'[t].rc = th[t].rc
    BY <2>1, <2>2, <2>4, KeepsHearing
  <2> QED
    BY <2>1, <2>3, <2>4
<1>28. CASE AwaitRelease(t)
  <2>1. /\ th'[t].pc \notin {"open", "lookup"} /\ th[t].pc # "returned" /\ th[t].pc # "put"
        /\ \/ th'[t].rc = "none" /\ th'[t].user = NULL
           \/ KeepsHandles(t) /\ th'[t].rc = th[t].rc
    BY <1>28, AwaitReleaseEffect, NewThreadFields DEF Goes, Frees, Leaves, HandsBack
  <2>2. th[t].rc # "ok"
    BY <2>1 DEF Shape
  <2>3. CASE th'[t].rc = "none" /\ th'[t].user = NULL
    BY <2>1, <2>3 DEF Hears
  <2>4. CASE KeepsHandles(t) /\ th'[t].rc = th[t].rc
    BY <2>1, <2>2, <2>4, KeepsHearing
  <2> QED
    BY <2>1, <2>3, <2>4
<1>29. CASE OpenFails(t)
  <2>1. th[t].rc # "ok" /\ th[t].user = NULL
    BY <1>29, OpenFailsEffect DEF Shape, Creating, InitCalls
  <2>2. th'[t].rc # "ok" /\ th'[t].user = NULL /\ th'[t].pc \notin {"open", "lookup"}
    BY <1>29, <2>1, OpenFailsEffect, NewThreadFields DEF Goes, Frees, Leaves, Enters, HandsOver, HandsBack, KeepsHandles
  <2> QED
    BY <2>2 DEF Hears
<1>30. CASE TimeOut(t)
  <2>1. th[t].rc # "ok" /\ th[t].user = NULL
    BY <1>30, TimeOutEffect DEF Shape, CallPcs, InitCalls
  <2>2. th'[t].rc # "ok" /\ th'[t].user = NULL /\ th'[t].pc \notin {"open", "lookup"}
    BY <1>30, <2>1, TimeOutEffect, NewThreadFields DEF Goes, Frees, Leaves, Enters, HandsOver, HandsBack, KeepsHandles
  <2> QED
    BY <2>2 DEF Hears
<1> QED
  BY <1>1, <1>2, <1>3, <1>4, <1>5, <1>6, <1>7, <1>8, <1>9, <1>10, <1>11, <1>12, <1>13, <1>14,
     <1>15, <1>16, <1>17, <1>18, <1>19, <1>20, <1>21, <1>22, <1>23, <1>24, <1>25, <1>26, <1>27,
     <1>28, <1>29, <1>30 DEF ThreadStep, CallStart, CallStep

\* A client is given to the application in a step that does nothing else.
LEMMA GivesQuietly ==
  ASSUME Inv, NEW t \in Threads, ThreadStep(t), known' # known
  PROVE  clnt' = clnt /\ xport' = xport
<1>1. ASSUME NEW h \in Handles, Call(t, h) PROVE clnt' = clnt /\ xport' = xport
  BY <1>1, CallEffect
<1>2. ASSUME NEW h \in Handles, RegisterErrorCb(t, h) PROVE clnt' = clnt /\ xport' = xport
  BY <1>2, RegisterErrorCbEffect
<1>3. ASSUME NEW s \in Servers, InitClient(t, s) PROVE clnt' = clnt /\ xport' = xport
  BY <1>3, InitClientEffect
<1>4. CASE InitInstance(t)
  BY <1>4, InitInstanceEffect
<1>5. ASSUME NEW h \in Handles, NEW k \in {"sync", "async"}, Release(t, h, k)
      PROVE  clnt' = clnt /\ xport' = xport
  BY <1>5, ReleaseEffect
<1>6. CASE EndCall(t)
  BY <1>6, EndCallEffect
<1>7. CASE SetErrorCb(t)
  BY <1>7, SetErrorCbEffect
<1>8. CASE PendingErrorCb(t)
  BY <1>8, PendingErrorCbEffect
<1>9. ASSUME NEW d \in Handles, AllocClient(t, d) PROVE clnt' = clnt /\ xport' = xport
  BY <1>9, AllocClientEffect
<1>10. ASSUME NEW d \in Handles, AllocNotifier(t, d) PROVE clnt' = clnt /\ xport' = xport
  BY <1>10, AllocNotifierEffect
<1>11. CASE OpenClient(t)
  BY <1>11, OpenClientEffect
<1>12. CASE RedoLookup(t)
  BY <1>12, RedoLookupEffect
<1>13. CASE CloseXport(t)
  BY <1>13, CloseXportEffect
<1>14. CASE JoinReader(t)
  BY <1>14, JoinReaderEffect
<1>15. CASE Put(t)
  BY <1>15, PutEffect
<1>16. CASE Free(t)
  BY <1>16, FreeEffect
<1>17. CASE CountServers(t)
  BY <1>17, CountServersEffect
<1>18. CASE ListServers(t)
  BY <1>18, ListServersEffect
<1>19. CASE OpenNotifier(t)
  BY <1>19, OpenNotifierEffect
<1>20. CASE NotifierLookup(t)
  BY <1>20, NotifierLookupEffect
<1>21. CASE ClearSignal(t)
  BY <1>21, ClearSignalEffect
<1>22. CASE WaitForServer(t)
  BY <1>22, WaitForServerEffect
<1>23. CASE ReturnInit(t)
  BY <1>23, ReturnInitEffect
<1>24. CASE ReleaseGet(t)
  <2>1. xport' = xport /\ (known' = known \/ clnt' = clnt)
    BY <1>24, ReleaseGetEffect
  <2> QED
    BY <2>1
<1>25. CASE ReleasePut(t)
  BY <1>25, ReleasePutEffect
<1>26. CASE ReleaseAsync(t)
  <2>1. xport' = xport /\ (known' = known \/ clnt' = clnt)
    BY <1>26, ReleaseAsyncEffect
  <2> QED
    BY <2>1
<1>27. CASE Shut(t)
  BY <1>27, ShutEffect
<1>28. CASE AwaitRelease(t)
  BY <1>28, AwaitReleaseEffect
<1>29. CASE OpenFails(t)
  BY <1>29, OpenFailsEffect
<1>30. CASE TimeOut(t)
  BY <1>30, TimeOutEffect
<1> QED
  BY <1>1, <1>2, <1>3, <1>4, <1>5, <1>6, <1>7, <1>8, <1>9, <1>10, <1>11, <1>12, <1>13, <1>14,
     <1>15, <1>16, <1>17, <1>18, <1>19, <1>20, <1>21, <1>22, <1>23, <1>24, <1>25, <1>26, <1>27,
     <1>28, <1>29, <1>30 DEF ThreadStep, CallStart, CallStep

\* It is the one that was made.
LEMMA GivesOwn ==
  ASSUME Inv, NEW t \in Threads, ThreadStep(t), NEW c \in Handles, c \in known', c \notin known
  PROVE  (th[t].rc = "ok" /\ c = th[t].c) \/ c = th[t].user
<1>1. ASSUME NEW h \in Handles, Call(t, h)
      PROVE  (th[t].rc = "ok" /\ c = th[t].c) \/ c = th[t].user
  BY <1>1, CallEffect
<1>2. ASSUME NEW h \in Handles, RegisterErrorCb(t, h)
      PROVE  (th[t].rc = "ok" /\ c = th[t].c) \/ c = th[t].user
  BY <1>2, RegisterErrorCbEffect
<1>3. ASSUME NEW s \in Servers, InitClient(t, s)
      PROVE  (th[t].rc = "ok" /\ c = th[t].c) \/ c = th[t].user
  BY <1>3, InitClientEffect
<1>4. CASE InitInstance(t)
  BY <1>4, InitInstanceEffect
<1>5. ASSUME NEW h \in Handles, NEW k \in {"sync", "async"}, Release(t, h, k)
      PROVE  (th[t].rc = "ok" /\ c = th[t].c) \/ c = th[t].user
  BY <1>5, ReleaseEffect
<1>6. CASE EndCall(t)
  BY <1>6, EndCallEffect
<1>7. CASE SetErrorCb(t)
  BY <1>7, SetErrorCbEffect
<1>8. CASE PendingErrorCb(t)
  BY <1>8, PendingErrorCbEffect
<1>9. ASSUME NEW d \in Handles, AllocClient(t, d)
      PROVE  (th[t].rc = "ok" /\ c = th[t].c) \/ c = th[t].user
  BY <1>9, AllocClientEffect
<1>10. ASSUME NEW d \in Handles, AllocNotifier(t, d)
       PROVE  (th[t].rc = "ok" /\ c = th[t].c) \/ c = th[t].user
  BY <1>10, AllocNotifierEffect
<1>11. CASE OpenClient(t)
  BY <1>11, OpenClientEffect
<1>12. CASE RedoLookup(t)
  BY <1>12, RedoLookupEffect
<1>13. CASE CloseXport(t)
  BY <1>13, CloseXportEffect
<1>14. CASE JoinReader(t)
  BY <1>14, JoinReaderEffect
<1>15. CASE Put(t)
  BY <1>15, PutEffect
<1>16. CASE Free(t)
  BY <1>16, FreeEffect
<1>17. CASE CountServers(t)
  BY <1>17, CountServersEffect
<1>18. CASE ListServers(t)
  BY <1>18, ListServersEffect
<1>19. CASE OpenNotifier(t)
  BY <1>19, OpenNotifierEffect
<1>20. CASE NotifierLookup(t)
  BY <1>20, NotifierLookupEffect
<1>21. CASE ClearSignal(t)
  BY <1>21, ClearSignalEffect
<1>22. CASE WaitForServer(t)
  BY <1>22, WaitForServerEffect
<1>23. CASE ReturnInit(t)
  <2>1. known' = known \/ (th[t].rc = "ok" /\ known' = known \cup {th[t].c})
    BY <1>23, ReturnInitEffect
  <2> QED
    BY <2>1
<1>24. CASE ReleaseGet(t)
  <2>1. known' = known \/ HandsBack(t)
    BY <1>24, ReleaseGetEffect
  <2> QED
    BY <2>1 DEF HandsBack
<1>25. CASE ReleasePut(t)
  BY <1>25, ReleasePutEffect
<1>26. CASE ReleaseAsync(t)
  <2>1. known' = known \/ HandsBack(t)
    BY <1>26, ReleaseAsyncEffect
  <2> QED
    BY <2>1 DEF HandsBack
<1>27. CASE Shut(t)
  BY <1>27, ShutEffect
<1>28. CASE AwaitRelease(t)
  <2>1. known' = known \/ HandsBack(t)
    BY <1>28, AwaitReleaseEffect
  <2> QED
    BY <2>1 DEF HandsBack
<1>29. CASE OpenFails(t)
  BY <1>29, OpenFailsEffect
<1>30. CASE TimeOut(t)
  BY <1>30, TimeOutEffect
<1> QED
  BY <1>1, <1>2, <1>3, <1>4, <1>5, <1>6, <1>7, <1>8, <1>9, <1>10, <1>11, <1>12, <1>13, <1>14,
     <1>15, <1>16, <1>17, <1>18, <1>19, <1>20, <1>21, <1>22, <1>23, <1>24, <1>25, <1>26, <1>27,
     <1>28, <1>29, <1>30 DEF ThreadStep, CallStart, CallStep

\* A step of a thread loses no news of a server's exit.
LEMMA ExitNext ==
  ASSUME Inv, NEW t \in Threads, ThreadStep(t)
  PROVE  ExitInv'
<1>1. \A u \in Threads \ {t} : th'[u] = th[u]
  BY OthersStep DEF Others
<1>2. ASSUME NEW u \in Threads
      PROVE  Hears(u)'
  <2>1. CASE u = t
    BY <2>1, HearsStep
  <2>2. CASE u # t
    <3>1. th'[u] = th[u] /\ Hears(u) /\ Shape(th[u])
      BY <1>1, <2>2 DEF Inv, ShapeInv, ExitInv, Hears
    <3>2. th[u].rc = "ok" => th[u].call # "none" /\ th[u].c \in Refs(u)
      BY <3>1 DEF Shape, InitCalls, UserPcs, Refs
    <3>3. th[u].user # NULL => th[u].user \in Refs(u)
      BY DEF Refs
    <3>4. th[u].pc \in {"open", "lookup"} => th[u].call # "none" /\ th[u].c \in Refs(u)
      BY <3>1 DEF Shape, Creating, InitCalls, UserPcs, Refs
    <3>5. \A c \in Refs(u) : th[u].call # "none" \/ th[u].user # NULL =>
            (WillHear(c)' <=> WillHear(c)) /\ clnt'[c] = clnt[c]
      BY <2>2, PrivateUntouched, UntouchedHears, UpSame DEF Untouched
    <3> QED
      BY <3>1, <3>2, <3>3, <3>4, <3>5 DEF Hears
  <2> QED
    BY <2>1, <2>2
<1>3. ASSUME NEW c \in known' \cap table'
      PROVE  WillHear(c)'
  <2>1. CASE c \in known
    <3>1. c \in Handles /\ c # next_clid
      BY <2>1, FreshUnused DEF Inv, TypeOK
    <3>2. c \in table
      BY <1>3, <3>1, XportKindStep DEF XportKind, Keeps, Births, Starts, Stops, Unlinks, Removes
    <3> QED
      BY <1>3, <2>1, <3>2, KnownHears
  <2>2. CASE c \notin known
    <3>1. c \in Ready(t) /\ c \in Handles
      BY <1>3, <2>2, NewlyKnown
    <3>2. (th[t].rc = "ok" /\ c = th[t].c) \/ c = th[t].user
      BY <1>3, <2>2, <3>1, GivesOwn
    <3>3. WillHear(c)
      BY <3>1, <3>2, Nulls DEF Inv, ExitInv
    <3>4. clnt' = clnt /\ xport' = xport /\ up' = up
      BY <1>3, <2>2, GivesQuietly, UpSame
    <3> QED
      BY <3>3, <3>4 DEF WillHear
  <2> QED
    BY <2>1, <2>2
<1> QED
  BY <1>2, <1>3 DEF ExitInv, Hears

\* The exit of a server is told to every client with an open transport, and not lost.
LEMMA HearsOther ==
  ASSUME Inv, OtherStep, NEW c \in Handles, xport[c].state = "open", WillHear(c)
  PROVE  WillHear(c)'
<1> TypeOK
  BY DEF Inv
<1>1. ASSUME NEW d \in Handles, ReadCtl(d) PROVE WillHear(c)'
  <2>1. /\ OnlyXport(d) /\ xport'[d].ctl = Tail(xport[d].ctl) /\ (xport[d].died => xport'[d].died)
        /\ up' = up /\ xport[d].ctl # <<>>
    BY <1>1, ReadCtlEffect DEF Reads
  <2>2. \/ ~clnt'[d].addr_valid /\ OnlyClient(d)
        \/ Head(xport[d].ctl) # <<"remove", clnt[d].server_addr>> /\ clnt' = clnt
    BY <1>1, ReadCtlEffect
  <2>3. CASE c # d
    BY <2>1, <2>2, <2>3 DEF WillHear, OnlyXport, OnlyClient
  <2>4. CASE c = d /\ ~clnt'[d].addr_valid
    BY <2>4 DEF WillHear
  <2>5. CASE c = d /\ Head(xport[d].ctl) # <<"remove", clnt[d].server_addr>> /\ clnt' = clnt
    <3> SUFFICES ASSUME clnt[c].addr_valid, clnt[c].server_addr \notin up, ~xport'[c].died
                 PROVE  \E i \in 1..Len(xport'[c].ctl) :
                          xport'[c].ctl[i] = <<"remove", clnt[c].server_addr>>
      BY <2>1, <2>5 DEF WillHear
    <3> DEFINE m == <<"remove", clnt[c].server_addr>>
               q == xport[c].ctl
    <3>1. q \in Seq(CtlMsgs) /\ q # <<>>
      BY <2>1, <2>5, XportElements DEF Xport
    <3>2. PICK i \in 1..Len(q) : q[i] = m
      BY <2>1, <2>5 DEF WillHear
    <3>3. i # 1
      BY <2>5, <3>1, <3>2
    <3> HIDE DEF m, q
    <3>4. i - 1 \in 1..Len(Tail(q)) /\ Tail(q)[i - 1] = q[i]
      BY <3>1, <3>2, <3>3
    <3> QED
      BY <2>1, <2>5, <3>2, <3>4 DEF m, q
  <2> QED
    BY <2>2, <2>3, <2>4, <2>5
<1>2. ASSUME NEW d \in Handles, ReportError(d) PROVE WillHear(c)'
  <2>1. /\ OnlyXport(d) /\ xport'[d].ctl = xport[d].ctl /\ (xport[d].died => xport'[d].died)
        /\ up' = up
    BY <1>2, ReportErrorEffect DEF Reads
  <2>2. xport'[c].ctl = xport[c].ctl /\ (xport[c].died => xport'[c].died)
    BY <2>1 DEF OnlyXport
  <2>3. /\ clnt'[d].addr_valid = clnt[d].addr_valid /\ clnt'[d].server_addr = clnt[d].server_addr
        /\ OnlyClient(d)
    BY <1>2, ReportErrorEffect DEF OnlyClient
  <2> QED
    BY <2>1, <2>2, <2>3 DEF WillHear, OnlyClient
<1>3. ASSUME NEW d \in Handles, ErrorCb(d) PROVE WillHear(c)'
  <2>1. /\ OnlyXport(d) /\ xport'[d].ctl = xport[d].ctl /\ (xport[d].died => xport'[d].died)
        /\ clnt' = clnt /\ up' = up
    BY <1>3, ErrorCbEffect DEF Reads
  <2>2. xport'[c].ctl = xport[c].ctl /\ (xport[c].died => xport'[c].died)
    BY <2>1 DEF OnlyXport
  <2> QED
    BY <2>1, <2>2 DEF WillHear
<1>4. ASSUME NEW d \in Handles, IndCb(d) PROVE WillHear(c)'
  <2>1. /\ OnlyXport(d) /\ xport'[d].ctl = xport[d].ctl /\ (xport[d].died => xport'[d].died)
        /\ clnt' = clnt /\ up' = up
    BY <1>4, IndCbEffect DEF Reads
  <2>2. xport'[c].ctl = xport[c].ctl /\ (xport[c].died => xport'[c].died)
    BY <2>1 DEF OnlyXport
  <2> QED
    BY <2>1, <2>2 DEF WillHear
<1>5. ASSUME NEW d \in Handles, ReaderExit(d) PROVE WillHear(c)'
  <2>1. /\ OnlyXport(d) /\ xport'[d].ctl = xport[d].ctl /\ (xport[d].died => xport'[d].died)
        /\ clnt' = clnt /\ up' = up
    BY <1>5, ReaderExitEffect DEF Reads
  <2>2. xport'[c].ctl = xport[c].ctl /\ (xport[c].died => xport'[c].died)
    BY <2>1 DEF OnlyXport
  <2> QED
    BY <2>1, <2>2 DEF WillHear
<1>6. ASSUME NEW d \in Handles, ReadInd(d) PROVE WillHear(c)'
  <2>1. /\ OnlyXport(d) /\ xport'[d].ctl = xport[d].ctl /\ (xport[d].died => xport'[d].died)
        /\ clnt' = clnt /\ up' = up
    BY <1>6, ReadIndEffect DEF Reads
  <2>2. xport'[c].ctl = xport[c].ctl /\ (xport[c].died => xport'[c].died)
    BY <2>1 DEF OnlyXport
  <2> QED
    BY <2>1, <2>2 DEF WillHear
<1>7. ASSUME NEW d \in Handles, ReaderDies(d) PROVE WillHear(c)'
  <2>1. /\ OnlyXport(d) /\ xport'[d].ctl = xport[d].ctl /\ (xport[d].died => xport'[d].died)
        /\ clnt' = clnt /\ up' = up
    BY <1>7, ReaderDiesEffect DEF Reads
  <2>2. xport'[c].ctl = xport[c].ctl /\ (xport[c].died => xport'[c].died)
    BY <2>1 DEF OnlyXport
  <2> QED
    BY <2>1, <2>2 DEF WillHear
<1>8. ASSUME NEW s \in Servers, ServerUp(s) PROVE WillHear(c)'
  <2>1. Tells(<<"new", s>>, c) /\ up' = up \cup {s} /\ clnt' = clnt
    BY <1>8, ServerUpEffect
  <2>2. <<"new", s>> \in CtlMsgs
    BY <1>8 DEF CtlMsgs
  <2>3. xport[c].ctl \in Seq(CtlMsgs)
    BY XportElements DEF Xport
  <2>4. \A i \in 1..Len(xport[c].ctl) :
          i \in 1..Len(xport'[c].ctl) /\ xport'[c].ctl[i] = xport[c].ctl[i]
    <3> DEFINE q == xport[c].ctl
               m == <<"new", s>>
    <3>1. m \in CtlMsgs /\ q \in Seq(CtlMsgs)
      BY <2>2, <2>3
    <3> HIDE DEF m, q
    <3>2. \A i \in 1..Len(q) : i \in 1..Len(Append(q, m)) /\ Append(q, m)[i] = q[i]
      BY <3>1
    <3>3. xport'[c].ctl = q \/ xport'[c].ctl = Append(q, m)
      BY <2>1 DEF Tells, q, m
    <3> QED
      BY <3>2, <3>3 DEF q
  <2>5. xport'[c].died = xport[c].died
    BY <2>1 DEF Tells
  <2> QED
    BY <2>1, <2>4, <2>5 DEF WillHear
<1>9. ASSUME NEW s \in Servers, ServerDown(s) PROVE WillHear(c)'
  <2>1. /\ Tells(<<"remove", s>>, c) /\ up' = up \ {s} /\ clnt' = clnt
        /\ xport'[c].ctl = Append(xport[c].ctl, <<"remove", s>>)
    BY <1>9, ServerDownEffect
  <2> DEFINE q == xport[c].ctl
             m == <<"remove", s>>
  <2>2. m \in CtlMsgs /\ q \in Seq(CtlMsgs)
    BY <1>9, XportElements DEF CtlMsgs, Xport
  <2>3. xport'[c].died = xport[c].died
    BY <2>1 DEF Tells
  <2> HIDE DEF m, q
  <2>4. /\ \A i \in 1..Len(q) : i \in 1..Len(Append(q, m)) /\ Append(q, m)[i] = q[i]
        /\ Len(q) + 1 \in 1..Len(Append(q, m)) /\ Append(q, m)[Len(q) + 1] = m
    BY <2>2
  <2>5. CASE clnt[c].server_addr = s
    BY <2>1, <2>4, <2>5 DEF WillHear, q, m
  <2>6. CASE clnt[c].server_addr # s
    BY <2>1, <2>3, <2>4, <2>6 DEF WillHear, q, m
  <2> QED
    BY <2>5, <2>6
<1> QED
  BY <1>1, <1>2, <1>3, <1>4, <1>5, <1>6, <1>7, <1>8, <1>9 DEF OtherStep, ReaderStep

\* The address of a client's server is not changed while it is valid.
LEMMA AddrOther ==
  ASSUME Inv, OtherStep, NEW c \in Handles
  PROVE  clnt'[c].addr_valid => clnt[c].addr_valid /\ clnt'[c].server_addr = clnt[c].server_addr
<1>1. ASSUME NEW d \in Handles, ReadCtl(d)
      PROVE  clnt'[c].addr_valid => clnt[c].addr_valid /\ clnt'[c].server_addr = clnt[c].server_addr
  <2>1. OnlyClient(d)
    BY <1>1, ReadCtlEffect DEF OnlyClient
  <2>2. ~clnt'[d].addr_valid \/ (clnt'[d].addr_valid = clnt[d].addr_valid /\ clnt'[d].server_addr = clnt[d].server_addr)
    BY <1>1, ReadCtlEffect
  <2> QED
    BY <2>1, <2>2 DEF OnlyClient
<1>2. ASSUME NEW d \in Handles, ReportError(d)
      PROVE  clnt'[c].addr_valid => clnt[c].addr_valid /\ clnt'[c].server_addr = clnt[c].server_addr
  <2>1. OnlyClient(d)
    BY <1>2, ReportErrorEffect DEF OnlyClient
  <2>2. ~clnt'[d].addr_valid \/ (clnt'[d].addr_valid = clnt[d].addr_valid /\ clnt'[d].server_addr = clnt[d].server_addr)
    BY <1>2, ReportErrorEffect
  <2> QED
    BY <2>1, <2>2 DEF OnlyClient
<1>3. ASSUME NEW d \in Handles, ErrorCb(d)
      PROVE  clnt'[c].addr_valid => clnt[c].addr_valid /\ clnt'[c].server_addr = clnt[c].server_addr
  BY <1>3, ErrorCbEffect
<1>4. ASSUME NEW d \in Handles, IndCb(d)
      PROVE  clnt'[c].addr_valid => clnt[c].addr_valid /\ clnt'[c].server_addr = clnt[c].server_addr
  BY <1>4, IndCbEffect
<1>5. ASSUME NEW d \in Handles, ReaderExit(d)
      PROVE  clnt'[c].addr_valid => clnt[c].addr_valid /\ clnt'[c].server_addr = clnt[c].server_addr
  BY <1>5, ReaderExitEffect
<1>6. ASSUME NEW d \in Handles, ReadInd(d)
      PROVE  clnt'[c].addr_valid => clnt[c].addr_valid /\ clnt'[c].server_addr = clnt[c].server_addr
  BY <1>6, ReadIndEffect
<1>7. ASSUME NEW d \in Handles, ReaderDies(d)
      PROVE  clnt'[c].addr_valid => clnt[c].addr_valid /\ clnt'[c].server_addr = clnt[c].server_addr
  BY <1>7, ReaderDiesEffect
<1>8. ASSUME NEW s \in Servers, ServerUp(s)
      PROVE  clnt'[c].addr_valid => clnt[c].addr_valid /\ clnt'[c].server_addr = clnt[c].server_addr
  BY <1>8, ServerUpEffect
<1>9. ASSUME NEW s \in Servers, ServerDown(s)
      PROVE  clnt'[c].addr_valid => clnt[c].addr_valid /\ clnt'[c].server_addr = clnt[c].server_addr
  BY <1>9, ServerDownEffect
<1> QED
  BY <1>1, <1>2, <1>3, <1>4, <1>5, <1>6, <1>7, <1>8, <1>9 DEF OtherStep, ReaderStep

\* Nor does a step of a reader thread or of the router.
LEMMA OtherExit ==
  ASSUME Inv, OtherStep
  PROVE  ExitInv'
<1>1. th' = th /\ known' = known /\ table' = table
  BY OtherAside DEF Aside
<1>2. \A c \in known \cap table : WillHear(c)'
  BY HearsOther DEF Inv, ExitInv, XportInv, TypeOK
<1>3. ASSUME NEW t \in Threads
      PROVE  Hears(t)'
  <2>1. Hears(t) /\ OwnXport(t) /\ Shape(th[t])
    BY OwnXportOf DEF Inv, ExitInv, Hears, ShapeInv
  <2>2. th[t].rc = "ok" => th[t].c \in Ready(t)
    BY DEF Ready
  <2>3. th[t].user # NULL => th[t].user \in Ready(t)
    BY DEF Ready
  <2>4. \A c \in Ready(t) : c \in Handles /\ xport[c].state = "open"
    BY <2>1, ReadyRefs DEF OwnXport
  <2>5. th[t].pc \in {"open", "lookup"} => th[t].c \in Handles
    BY <2>1, ThreadElements DEF Shape, UserPcs, Inv, Thread
  <2> QED
    BY <1>1, <2>1, <2>2, <2>3, <2>4, <2>5, HearsOther, AddrOther DEF Hears
<1> QED
  BY <1>1, <1>2, <1>3 DEF ExitInv, Hears

-----------------------------------------------------------------------------
(* The registration of error callbacks. *)

\* The types of the history of callbacks.
LEMMA HistoryElements ==
  ASSUME TypeOK
  PROVE  /\ left.regs \in Nat /\ left.regs <= MaxRegs
         /\ \A k \in Regs : k \in Nat /\ hist.heard[k] \in Nat /\ hist.reg[k] \in Handles \cup {NULL}
         /\ hist.reg = [k \in Regs |-> hist.reg[k]] /\ hist.heard = [k \in Regs |-> hist.heard[k]]
  BY ClientAssumption DEF TypeOK, Budget, History, Regs

\* What a step of thread t does not touch of a client that some thread works on.
LEMMA UsedKeeps ==
  ASSUME Inv, NEW t \in Threads, ThreadStep(t), NEW u \in Threads, NEW c \in Handles, Uses(u, c)
  PROVE  /\ Plain(t, c) \/ Shuts(t, c) \/ Registers(t, c)
         /\ SameServer(c) /\ clnt'[c].alive = clnt[c].alive
<1>1. ~Removed(t, c)
  BY UsedRefs DEF Removed
<1>2. ~Newborn(t, c)
  BY FreshUnused DEF Newborn
<1> QED
  BY <1>1, <1>2, FieldStep DEF FieldKind, Plain, Shuts, Registers, SameLife

\* A thread that registers a callback has a client of the application.
LEMMA RegUses ==
  ASSUME Inv, NEW t \in Threads, th[t].pc \in {"reg", "reg_cb"}
  PROVE  /\ th[t].cb \in Regs /\ th[t].c \in Handles /\ Uses(t, th[t].c)
         /\ th[t].c \in known /\ clnt[th[t].c].alive
<1>1. th[t].cb \in Regs /\ th[t].c \in Handles /\ Uses(t, th[t].c)
  BY Callbacks DEF Uses, UserPcs
<1>2. th[t].call = "none" /\ th[t].release = "none"
  BY DEF Inv, ShapeInv, Shape, CallPcs
<1> QED
  BY <1>1, <1>2, UsedRefs DEF Inv, Given, GivenTo

\* What thread t knows of the callback it is registering.
RegThread(t) ==
  /\ th[t].pc \in {"reg", "reg_cb"} => th[t].cb > left.regs /\ hist.heard[th[t].cb] = 0
  /\ th[t].pc = "reg" => hist.reg[th[t].cb] = NULL
  /\ th[t].pc = "reg_cb" => hist.reg[th[t].cb] = th[t].c /\ clnt[th[t].c].err_pending

\* Registrations that have not begun leave no trace.
LEMMA RegFuture ==
  ASSUME Inv, NEW t \in Threads, ThreadStep(t), NEW k \in Regs, k <= left'.regs
  PROVE  hist'.reg[k] = NULL /\ hist'.heard[k] = 0
<1> TypeOK
  BY DEF Inv
<1>1. k <= left.regs
  <2>1. left'.regs = left.regs \/ left'.regs = left.regs - 1
    BY RegStep DEF RegKind, Quiet, Announces, Sets, Runs
  <2>2. left.regs \in Nat /\ k \in Nat
    BY HistoryElements
  <2> QED
    BY <2>1, <2>2
<1>2. hist.reg[k] = NULL /\ hist.heard[k] = 0
  BY <1>1 DEF Inv, RegInv
<1>3. th[t].pc \in {"reg", "reg_cb"} => th[t].cb # k
  BY <1>1, RegUses, HistoryElements DEF Inv, RegInv
<1> QED
  BY <1>2, <1>3, RegStep, HistoryElements DEF RegKind, Quiet, Announces, Sets, Runs

\* What a thread knows of the callback it registers stays true.
LEMMA RegThreadStep ==
  ASSUME Inv, NEW t \in Threads, ThreadStep(t), NEW u \in Threads
  PROVE  RegThread(u)'
<1> TypeOK /\ RegThread(u) /\ RegThread(t)
  BY DEF Inv, RegInv, RegThread
<1>1. CASE u = t
  <2>1. CASE Quiet(t)
    BY <1>1, <2>1 DEF Quiet, RegThread
  <2>2. CASE Announces(t)
    <3>1. /\ th'[t].cb > left'.regs /\ hist.heard[left.regs] = 0 /\ hist.reg[left.regs] = NULL
      BY <2>2, HistoryElements DEF Announces, Inv, RegInv
    <3> QED
      BY <1>1, <2>2, <3>1 DEF Announces, RegThread
  <2>3. CASE Sets(t)
    <3>1. hist'.reg[th[t].cb] = th[t].c /\ hist'.heard[th[t].cb] = 0 /\ th[t].cb > left'.regs
      BY <2>3, HistoryElements DEF Sets, RegThread
    <3>2. ASSUME NEW c \in Handles, c = th[t].c, clnt[c].err_pending PROVE clnt'[c].err_pending
      BY <2>3, <3>2, RegUses, UsedKeeps DEF Sets, SameServer
    <3> QED
      BY <1>1, <2>3, <3>1, <3>2 DEF Sets, RegThread
  <2>4. CASE Runs(t)
    BY <1>1, <2>4 DEF Runs, RegThread
  <2> QED
    BY <2>1, <2>2, <2>3, <2>4, RegStep DEF RegKind
<1>2. CASE u # t
  <2> SUFFICES ASSUME th[u].pc \in {"reg", "reg_cb"} PROVE RegThread(u)'
    BY <1>2, OthersStep DEF Others, RegThread
  <2> DEFINE k == th[u].cb
  <2>1. th'[u] = th[u] /\ k \in Regs /\ th[u].c \in Handles
    BY <1>2, OthersStep, RegUses DEF Others
  <2>2. ASSUME NEW c \in Handles, c = th[u].c, clnt[c].err_pending PROVE clnt'[c].err_pending
    BY <2>2, RegUses, UsedKeeps DEF SameServer
  <2>3. th[t].pc \in {"reg", "reg_cb"} => th[t].cb # k
    BY <1>2 DEF Inv, RegInv
  <2>4. hist'.reg[k] = hist.reg[k] /\ hist'.heard[k] = hist.heard[k]
    BY <2>1, <2>3, RegStep, HistoryElements DEF RegKind, Quiet, Announces, Sets, Runs
  <2>5. k > left'.regs
    <3>1. left'.regs = left.regs \/ left'.regs = left.regs - 1
      BY RegStep DEF RegKind, Quiet, Announces, Sets, Runs
    <3>2. left.regs \in Nat /\ k \in Nat /\ k > left.regs
      BY <2>1, HistoryElements DEF RegThread
    <3> QED
      BY <3>1, <3>2
  <2> QED
    BY <2>1, <2>2, <2>4, <2>5 DEF RegThread
<1> QED
  BY <1>1, <1>2

\* Two threads do not register the same callback.
LEMMA RegApart ==
  ASSUME Inv, NEW t \in Threads, ThreadStep(t), NEW u \in Threads, NEW v \in Threads,
         {th'[u].pc, th'[v].pc} \subseteq {"reg", "reg_cb"}, th'[u].cb = th'[v].cb
  PROVE  u = v
<1> TypeOK
  BY DEF Inv
<1>1. \A w \in Threads : w # t => th'[w] = th[w]
  BY OthersStep DEF Others
<1>2. \A w \in Threads : th[w].pc \in {"reg", "reg_cb"} => th[w].cb # left.regs /\ th[w].cb \in Regs
  BY RegUses, HistoryElements DEF Inv, RegInv
<1>3. \/ th'[t].pc \notin {"reg", "reg_cb"}
      \/ th'[t].cb = left.regs
      \/ th[t].pc \in {"reg", "reg_cb"} /\ th'[t].cb = th[t].cb
  BY RegStep DEF RegKind, Quiet, Announces, Sets, Runs
<1>4. \A x, y \in Threads :
        th[x].pc \in {"reg", "reg_cb"} /\ th[y].pc \in {"reg", "reg_cb"} /\ th[x].cb = th[y].cb => x = y
  BY DEF Inv, RegInv
<1> QED
  BY <1>1, <1>2, <1>3, <1>4

\* The callback a client has was registered for it.
LEMMA RegOfClient ==
  ASSUME Inv, NEW t \in Threads, ThreadStep(t), NEW c \in Handles, clnt'[c].err_cb # NULL
  PROVE  hist'.reg[clnt'[c].err_cb] = c
<1> TypeOK
  BY DEF Inv
<1>1. CASE Registers(t, c)
  <2>1. Sets(t)
    BY <1>1, RegStep DEF Registers, RegKind, Quiet, Announces, Runs
  <2> QED
    BY <1>1, <2>1, HistoryElements DEF Registers, Sets
<1>2. CASE Plain(t, c) \/ Shuts(t, c)
  <2> DEFINE k == clnt[c].err_cb
  <2>1. clnt'[c].err_cb = k /\ k # NULL /\ k \in Regs
    BY <1>2, ClientElements DEF Plain, Shuts, Client
  <2>2. hist.reg[k] = c
    BY <2>1 DEF Inv, RegInv
  <2>3. th[t].pc = "reg" => th[t].cb # k
    BY <2>2, Nulls DEF Inv, RegInv
  <2>4. hist'.reg[k] = hist.reg[k]
    BY <2>1, <2>3, RegStep, HistoryElements DEF RegKind, Quiet, Announces, Sets, Runs
  <2> QED
    BY <2>1, <2>2, <2>4
<1>3. CASE Newborn(t, c) \/ Removed(t, c)
  BY <1>3, NewClientFields DEF Newborn, Removed
<1> QED
  BY <1>1, <1>2, <1>3, FieldStep DEF FieldKind

\* The invariant about registrations is kept by a step of a thread.
LEMMA RegNext ==
  ASSUME Inv, NEW t \in Threads, ThreadStep(t)
  PROVE  RegInv'
<1>1. \A u \in Threads : RegThread(u)'
  BY RegThreadStep
<1>2. \A k \in Regs : k <= left'.regs => hist'.reg[k] = NULL /\ hist'.heard[k] = 0
  BY RegFuture
<1>3. \A u, v \in Threads :
        {th'[u].pc, th'[v].pc} \subseteq {"reg", "reg_cb"} /\ th'[u].cb = th'[v].cb => u = v
  BY RegApart
<1>4. \A c \in Handles : clnt'[c].err_cb # NULL => hist'.reg[clnt'[c].err_cb] = c
  BY RegOfClient
<1> QED
  BY <1>1, <1>2, <1>3, <1>4 DEF RegInv, RegThread

-----------------------------------------------------------------------------
(* What the reader has reported. *)

\* The reader does not report when a thread gives it work or takes it away.
LEMMA ReportingStep ==
  ASSUME Inv, NEW t \in Threads, ThreadStep(t), NEW c \in Handles
  PROVE  /\ Reporting(c)' <=> Reporting(c)
         /\ xport'[c].pc = "err_cb" => xport[c].pc = "err_cb" /\ xport'[c].cb = xport[c].cb
  BY ReaderStepKind DEF ReaderKind, SameReader, Begun, Joined, Reporting

\* A new client has no history.
LEMMA NewbornFresh ==
  ASSUME Inv, NEW t \in Threads, ThreadStep(t), NEW c \in Handles, Newborn(t, c)
  PROVE  /\ ~Reporting(c) /\ c \notin known
         /\ \A k \in Regs : hist'.reg[k] # c
<1> TypeOK
  BY DEF Inv
<1>1. c = next_clid /\ ~Reporting(c) /\ c \notin known
  BY FreshUnused, NewXportFields DEF Newborn, Reporting
<1>2. \A k \in Regs : hist.reg[k] # c
  <2>1. Fresh(c)
    BY <1>1 DEF Fresh, Handles
  <2> QED
    BY <2>1 DEF Inv, FreshInv
<1>3. th[t].pc = "reg" => th[t].c # c
  BY <1>1, RegUses, FreshUnused
<1> QED
  BY <1>1, <1>2, <1>3, RegStep, HistoryElements DEF RegKind, Quiet, Announces, Sets, Runs

\* A thread runs the callback itself only if the reader has left it to it.
LEMMA RunsPending ==
  ASSUME Inv, NEW t \in Threads, Runs(t)
  PROVE  /\ th[t].c \in Handles /\ hist.reg[th[t].cb] = th[t].c
         /\ ~clnt[th[t].c].addr_valid /\ ~Reporting(th[t].c)
  BY RegUses DEF Runs, Inv, RegInv, ReportInv

\* No callback has run that is registered for a client with a server.
LEMMA UnheardStep ==
  ASSUME Inv, NEW t \in Threads, ThreadStep(t), NEW c \in Handles,
         clnt'[c].addr_valid \/ Reporting(c)', NEW k \in Regs, hist'.reg[k] = c
  PROVE  hist'.heard[k] = 0
<1> TypeOK
  BY DEF Inv
<1>1. clnt[c].addr_valid \/ Reporting(c)
  <2>1. ~Newborn(t, c)
    BY NewbornFresh
  <2>2. clnt'[c].addr_valid => clnt[c].addr_valid
    BY <2>1, FieldStep, NewClientFields
       DEF FieldKind, Plain, Shuts, Registers, Removed, SameServer
  <2> QED
    BY <2>2, ReportingStep
<1>2. hist.reg[k] = c => hist.heard[k] = 0
  BY <1>1 DEF Inv, ReportInv
<1>3. CASE Quiet(t) \/ Announces(t)
  BY <1>2, <1>3 DEF Quiet, Announces
<1>4. CASE Sets(t)
  <2>1. hist.heard[th[t].cb] = 0
    BY <1>4 DEF Sets, Inv, RegInv
  <2> QED
    BY <1>2, <1>4, <2>1, HistoryElements DEF Sets
<1>5. CASE Runs(t)
  <2>1. th[t].cb # k
    BY <1>1, <1>5, RunsPending DEF Runs
  <2> QED
    BY <1>2, <1>5, <2>1, HistoryElements DEF Runs
<1> QED
  BY <1>3, <1>4, <1>5, RegStep DEF RegKind

\* The invariant about reports is kept by a step of a thread.
LEMMA ReportNext ==
  ASSUME Inv, NEW t \in Threads, ThreadStep(t)
  PROVE  ReportInv'
<1> TypeOK
  BY DEF Inv
<1> SUFFICES ASSUME NEW c \in Handles
             PROVE  /\ clnt'[c].addr_valid => clnt'[c].server_addr \in Servers
                    /\ ~clnt'[c].addr_valid => clnt'[c].server_addr = NoServer
                    /\ Reporting(c)' => ~clnt'[c].addr_valid /\ ~clnt'[c].err_pending
                    /\ clnt'[c].err_pending => ~clnt'[c].addr_valid
                    /\ xport'[c].pc = "err_cb" => xport'[c].cb # NULL /\ hist'.reg[xport'[c].cb] = c
                    /\ clnt'[c].addr_valid \/ Reporting(c)' =>
                         \A k \in Regs : hist'.reg[k] = c => hist'.heard[k] = 0
  BY DEF ReportInv
<1>1. /\ clnt[c].addr_valid => clnt[c].server_addr \in Servers
      /\ ~clnt[c].addr_valid => clnt[c].server_addr = NoServer
      /\ Reporting(c) => ~clnt[c].addr_valid /\ ~clnt[c].err_pending
      /\ clnt[c].err_pending => ~clnt[c].addr_valid
  BY DEF Inv, ReportInv
<1>2. /\ clnt'[c].addr_valid => clnt'[c].server_addr \in Servers
      /\ ~clnt'[c].addr_valid => clnt'[c].server_addr = NoServer
      /\ Reporting(c)' => ~clnt'[c].addr_valid /\ ~clnt'[c].err_pending
      /\ clnt'[c].err_pending => ~clnt'[c].addr_valid
  <2>1. CASE Plain(t, c) \/ Shuts(t, c) \/ Registers(t, c)
    BY <1>1, <2>1, ReportingStep DEF Plain, Shuts, Registers, SameServer
  <2>2. CASE Newborn(t, c)
    <3>1. th[t].pc = "alloc" => th[t].s \in Servers
      BY ThreadElements DEF Thread, Inv, ShapeInv, Shape, Creating
    <3> QED
      BY <2>2, <3>1, NewbornFresh, ReportingStep DEF Newborn
  <2>3. CASE Removed(t, c)
    BY <2>3, NewClientFields DEF Removed
  <2> QED
    BY <2>1, <2>2, <2>3, FieldStep DEF FieldKind
<1>3. xport'[c].pc = "err_cb" => xport'[c].cb # NULL /\ hist'.reg[xport'[c].cb] = c
  <2> SUFFICES ASSUME xport'[c].pc = "err_cb"
               PROVE  xport'[c].cb # NULL /\ hist'.reg[xport'[c].cb] = c
    OBVIOUS
  <2> DEFINE k == xport[c].cb
  <2>1. xport'[c].cb = k /\ k # NULL /\ k \in Regs /\ hist.reg[k] = c
    BY ReportingStep, Callbacks DEF Inv, ReportInv
  <2>2. th[t].pc = "reg" => th[t].cb # k
    BY <2>1, Nulls DEF Inv, RegInv
  <2> QED
    BY <2>1, <2>2, RegStep, HistoryElements DEF RegKind, Quiet, Announces, Sets, Runs
<1>4. \A k \in Regs : (clnt'[c].addr_valid \/ Reporting(c)') /\ hist'.reg[k] = c => hist'.heard[k] = 0
  BY UnheardStep
<1> QED
  BY <1>2, <1>3, <1>4

-----------------------------------------------------------------------------
(* Who has heard of the exit. *)

\* A client that is not a notifier and has no server: a callback has run, or is about to.
Told(c) ==
  clnt[c].alive /\ clnt[c].ext_signal = NoThread /\ ~clnt[c].addr_valid /\ ~Reporting(c) =>
    \/ \E k \in Regs : hist.reg[k] = c /\ hist.heard[k] = 1
    \/ clnt[c].err_pending /\ (clnt[c].err_cb = NULL \/ \E t \in Threads : th[t].pc = "reg_cb" /\ th[t].c = c)

\* It stays true when a thread registers, runs or loses the callback.
LEMMA ToldStep ==
  ASSUME Inv, NEW t \in Threads, ThreadStep(t), NEW c \in Handles
  PROVE  Told(c)'
<1> TypeOK /\ Told(c)
  BY DEF Inv, Heard, Told
<1>1. CASE Newborn(t, c)
  BY <1>1, Nulls DEF Newborn, Told
<1>2. CASE Removed(t, c)
  BY <1>2, NewClientFields DEF Removed, Told
<1>3. CASE Plain(t, c) \/ Shuts(t, c) \/ Registers(t, c)
  <2>1. SameServer(c) /\ clnt'[c].alive = clnt[c].alive /\ (Reporting(c)' <=> Reporting(c))
    BY <1>3, ReportingStep DEF Plain, Shuts, Registers, SameLife
  <2> SUFFICES ASSUME clnt[c].alive /\ clnt[c].ext_signal = NoThread /\ ~clnt[c].addr_valid /\ ~Reporting(c)
               PROVE  \/ \E k \in Regs : hist'.reg[k] = c /\ hist'.heard[k] = 1
                      \/ /\ clnt'[c].err_pending
                         /\ clnt'[c].err_cb = NULL \/ \E u \in Threads : th'[u].pc = "reg_cb" /\ th'[u].c = c
    BY <2>1 DEF Told, SameServer
  <2>2. CASE \E k \in Regs : hist.reg[k] = c /\ hist.heard[k] = 1
    <3>1. PICK k \in Regs : hist.reg[k] = c /\ hist.heard[k] = 1
      BY <2>2
    <3>2. th[t].pc \in {"reg", "reg_cb"} => th[t].cb # k
      BY <3>1 DEF Inv, RegInv
    <3>3. hist'.reg[k] = c /\ hist'.heard[k] = 1
      BY <3>1, <3>2, RegStep, HistoryElements DEF RegKind, Quiet, Announces, Sets, Runs
    <3> QED
      BY <3>3
  <2>3. CASE clnt[c].err_pending /\ clnt[c].err_cb = NULL
    BY <1>3, <2>1, <2>3 DEF Plain, Shuts, Registers, SameServer
  <2>4. CASE clnt[c].err_pending /\ \E u \in Threads : th[u].pc = "reg_cb" /\ th[u].c = c
    <3>1. PICK u \in Threads : th[u].pc = "reg_cb" /\ th[u].c = c
      BY <2>4
    <3>2. CASE u # t
      BY <2>1, <2>4, <3>1, <3>2, OthersStep DEF Others, SameServer
    <3>3. CASE u = t
      <4>1. Runs(t)
        BY <3>1, <3>3, RegStep DEF RegKind, Quiet, Announces, Sets
      <4>2. hist.reg[th[t].cb] = c /\ hist.heard[th[t].cb] = 0
        BY <3>1, <3>3 DEF Inv, RegInv
      <4>3. th[t].cb \in Regs /\ hist'.reg[th[t].cb] = c /\ hist'.heard[th[t].cb] = 1
        BY <4>1, <4>2, HistoryElements DEF Runs
      <4> QED
        BY <4>3
    <3> QED
      BY <3>2, <3>3
  <2> QED
    BY <2>2, <2>3, <2>4 DEF Told
<1> QED
  BY <1>1, <1>2, <1>3, FieldStep DEF FieldKind

\* A callback runs once.
LEMMA HeardStep ==
  ASSUME Inv, NEW t \in Threads, ThreadStep(t), NEW k \in Regs
  PROVE  hist'.heard[k] <= 1
<1> TypeOK /\ hist.heard[k] <= 1
  BY DEF Inv, Heard
<1>1. CASE Runs(t)
  <2>1. hist.heard[th[t].cb] = 0
    BY <1>1 DEF Runs, Inv, RegInv
  <2> QED
    BY <1>1, <2>1, HistoryElements DEF Runs
<1>2. CASE ~Runs(t)
  BY <1>2, RegStep DEF RegKind, Quiet, Announces, Sets
<1> QED
  BY <1>1, <1>2

\* Only a client of the application has an error callback.
LEMMA CallbackStep ==
  ASSUME Inv, NEW t \in Threads, ThreadStep(t), NEW c \in Handles, clnt'[c].err_cb # NULL
  PROVE  clnt'[c].alive /\ clnt'[c].ext_signal = NoThread
<1>1. CASE Registers(t, c)
  <2>1. c \in known /\ clnt[c].alive
    BY <1>1, RegUses DEF Registers
  <2>2. clnt[c].ext_signal = NoThread
    BY <2>1 DEF Inv, Heard
  <2> QED
    BY <1>1, <2>1, <2>2 DEF Registers, SameLife, SameServer
<1>2. CASE Plain(t, c) \/ Shuts(t, c)
  BY <1>2 DEF Inv, Heard, Plain, Shuts, SameLife, SameServer
<1>3. CASE Newborn(t, c) \/ Removed(t, c)
  BY <1>3, NewClientFields DEF Newborn, Removed
<1> QED
  BY <1>1, <1>2, <1>3, FieldStep DEF FieldKind

-----------------------------------------------------------------------------
(* Where the client comes from that a thread makes. *)

\* A thread that creates a client has one that is no notifier after its step, because ...
MakesKind(t) ==
  \/ th'[t].call \notin InitCalls \/ th'[t].pc \notin UserPcs \cup {"returned"}
  \/ th'[t].c \in Handles /\ clnt'[th'[t].c].ext_signal = NoThread
  \/ KeepsHandles(t) /\ th[t].pc \in UserPcs

\* It is new, or no notifier, or it was there before.
LEMMA MakesStep ==
  ASSUME Inv, NEW t \in Threads, ThreadStep(t)
  PROVE  MakesKind(t)
<1> TypeOK /\ Shape(th[t])
  BY DEF Inv, ShapeInv
<1>1. ASSUME NEW h \in Handles, Call(t, h) PROVE MakesKind(t)
  <2>1. th'[t].call = "none"
    BY <1>1, CallEffect DEF Enters
  <2> QED
    BY <2>1 DEF MakesKind, InitCalls
<1>2. ASSUME NEW h \in Handles, RegisterErrorCb(t, h) PROVE MakesKind(t)
  <2>1. th'[t].call = "none"
    BY <1>2, RegisterErrorCbEffect DEF Enters
  <2> QED
    BY <2>1 DEF MakesKind, InitCalls
<1>3. ASSUME NEW s \in Servers, InitClient(t, s) PROVE MakesKind(t)
  BY <1>3, InitClientEffect, NewThreadFields DEF MakesKind, UserPcs, InitCalls, Goes, Frees,
     Leaves, Enters, HandsOver, HandsBack, KeepsHandles
<1>4. CASE InitInstance(t)
  BY <1>4, InitInstanceEffect, NewThreadFields DEF MakesKind, UserPcs, InitCalls, Goes, Frees,
     Leaves, Enters, HandsOver, HandsBack, KeepsHandles
<1>5. ASSUME NEW h \in Handles, NEW k \in {"sync", "async"}, Release(t, h, k) PROVE MakesKind(t)
  <2>1. th'[t].call = "none"
    BY <1>5, ReleaseEffect DEF Enters
  <2> QED
    BY <2>1 DEF MakesKind, InitCalls
<1>6. CASE EndCall(t)
  BY <1>6, EndCallEffect, NewThreadFields DEF MakesKind, UserPcs, InitCalls, Goes, Frees, Leaves,
     Enters, HandsOver, HandsBack, KeepsHandles
<1>7. CASE SetErrorCb(t)
  BY <1>7, SetErrorCbEffect, NewThreadFields DEF MakesKind, UserPcs, InitCalls, Goes, Frees,
     Leaves, Enters, HandsOver, HandsBack, KeepsHandles
<1>8. CASE PendingErrorCb(t)
  BY <1>8, PendingErrorCbEffect, NewThreadFields DEF MakesKind, UserPcs, InitCalls, Goes, Frees,
     Leaves, Enters, HandsOver, HandsBack, KeepsHandles
<1>9. ASSUME NEW d \in Handles, AllocClient(t, d) PROVE MakesKind(t)
  <2>1. th'[t].c = d /\ clnt'[d].ext_signal = NoThread
    BY <1>9, AllocClientEffect
  <2> QED
    BY <2>1 DEF MakesKind
<1>10. ASSUME NEW d \in Handles, AllocNotifier(t, d) PROVE MakesKind(t)
  <2>1. th'[t].call = "notifier"
    BY <1>10, AllocNotifierEffect
  <2> QED
    BY <2>1 DEF MakesKind, InitCalls
<1>11. CASE OpenClient(t)
  BY <1>11, OpenClientEffect, NewThreadFields DEF MakesKind, UserPcs, InitCalls, Goes, Frees,
     Leaves, Enters, HandsOver, HandsBack, KeepsHandles
<1>12. CASE RedoLookup(t)
  BY <1>12, RedoLookupEffect, NewThreadFields DEF MakesKind, UserPcs, InitCalls, Goes, Frees,
     Leaves, Enters, HandsOver, HandsBack, KeepsHandles
<1>13. CASE CloseXport(t)
  BY <1>13, CloseXportEffect, NewThreadFields DEF MakesKind, UserPcs, InitCalls, Goes, Frees,
     Leaves, Enters, HandsOver, HandsBack, KeepsHandles
<1>14. CASE JoinReader(t)
  BY <1>14, JoinReaderEffect, NewThreadFields DEF MakesKind, UserPcs, InitCalls, Goes, Frees,
     Leaves, Enters, HandsOver, HandsBack, KeepsHandles
<1>15. CASE Put(t)
  <2>1. /\ th[t].pc = "put"
        /\ Frees(t, PutReturns(t)) \/ Leaves(t) \/ Goes(t, PutReturns(t))
    BY <1>15, PutEffect
  <2> QED
    BY <2>1, NewThreadFields DEF MakesKind, Frees, Leaves, Goes, UserPcs, InitCalls
<1>16. CASE Free(t)
  <2>1. /\ th[t].pc = "free" /\ clnt'[th[t].c] = NewClient
        /\ Leaves(t) \/ (Goes(t, th[t].after) /\ th'[t].c = th[t].c)
    BY <1>16, FreeEffect DEF Goes, KeepsHandles
  <2>2. th[t].c \in Handles
    BY <2>1, ThreadElements DEF Shape, Thread
  <2> QED
    BY <2>1, <2>2, NewThreadFields, NewClientFields DEF MakesKind, Leaves, InitCalls
<1>17. CASE CountServers(t)
  BY <1>17, CountServersEffect, NewThreadFields DEF MakesKind, UserPcs, InitCalls, Goes, Frees,
     Leaves, Enters, HandsOver, HandsBack, KeepsHandles
<1>18. CASE ListServers(t)
  BY <1>18, ListServersEffect, NewThreadFields DEF MakesKind, UserPcs, InitCalls, Goes, Frees,
     Leaves, Enters, HandsOver, HandsBack, KeepsHandles
<1>19. CASE OpenNotifier(t)
  BY <1>19, OpenNotifierEffect, NewThreadFields DEF MakesKind, UserPcs, InitCalls, Goes, Frees,
     Leaves, Enters, HandsOver, HandsBack, KeepsHandles
<1>20. CASE NotifierLookup(t)
  BY <1>20, NotifierLookupEffect, NewThreadFields DEF MakesKind, UserPcs, InitCalls, Goes, Frees,
     Leaves, Enters, HandsOver, HandsBack, KeepsHandles
<1>21. CASE ClearSignal(t)
  BY <1>21, ClearSignalEffect, NewThreadFields DEF MakesKind, UserPcs, InitCalls, Goes, Frees,
     Leaves, Enters, HandsOver, HandsBack, KeepsHandles
<1>22. CASE WaitForServer(t)
  BY <1>22, WaitForServerEffect, NewThreadFields DEF MakesKind, UserPcs, InitCalls, Goes, Frees,
     Leaves, Enters, HandsOver, HandsBack, KeepsHandles
<1>23. CASE ReturnInit(t)
  <2>1. th'[t].pc \in {"notifier", "wait", "rel_get", "idle"}
    BY <1>23, ReturnInitEffect, NewThreadFields DEF Goes, HandsOver, Leaves
  <2> QED
    BY <2>1 DEF MakesKind, UserPcs
<1>24. CASE ReleaseGet(t)
  <2>1. th[t].call = "none" /\ th'[t].call = "none"
    BY <1>24, ReleaseGetEffect, NewThreadFields DEF Shape, ReleasePcs, HandsBack, Leaves, Goes, KeepsHandles
  <2> QED
    BY <2>1 DEF MakesKind, InitCalls
<1>25. CASE ReleasePut(t)
  BY <1>25, ReleasePutEffect, NewThreadFields DEF MakesKind, UserPcs, InitCalls, Goes, Frees,
     Leaves, Enters, HandsOver, HandsBack, KeepsHandles
<1>26. CASE ReleaseAsync(t)
  <2>1. th[t].call = "none" /\ th'[t].call = "none"
    BY <1>26, ReleaseAsyncEffect, NewThreadFields DEF Shape, ReleasePcs, HandsBack, Leaves, Goes, KeepsHandles
  <2> QED
    BY <2>1 DEF MakesKind, InitCalls
<1>27. CASE Shut(t)
  BY <1>27, ShutEffect, NewThreadFields DEF MakesKind, UserPcs, InitCalls, Goes, Frees, Leaves,
     Enters, HandsOver, HandsBack, KeepsHandles
<1>28. CASE AwaitRelease(t)
  <2>1. th'[t].pc = "idle"
    BY <1>28, AwaitReleaseEffect, NewThreadFields DEF HandsBack, Leaves
  <2> QED
    BY <2>1 DEF MakesKind, UserPcs
<1>29. CASE OpenFails(t)
  BY <1>29, OpenFailsEffect, NewThreadFields DEF MakesKind, UserPcs, InitCalls, Goes, Frees,
     Leaves, Enters, HandsOver, HandsBack, KeepsHandles
<1>30. CASE TimeOut(t)
  <2>1. th'[t].pc = "rel_get"
    BY <1>30, TimeOutEffect DEF HandsOver
  <2> QED
    BY <2>1 DEF MakesKind, UserPcs
<1> QED
  BY <1>1, <1>2, <1>3, <1>4, <1>5, <1>6, <1>7, <1>8, <1>9, <1>10, <1>11, <1>12, <1>13, <1>14,
     <1>15, <1>16, <1>17, <1>18, <1>19, <1>20, <1>21, <1>22, <1>23, <1>24, <1>25, <1>26, <1>27,
     <1>28, <1>29, <1>30 DEF ThreadStep, CallStart, CallStep

\* The client it has made and keeps until it has released its notifier.
UserKind(t) ==
  \/ th'[t].user = NULL
  \/ KeepsHandles(t)
  \/ th'[t].user = th[t].c /\ th[t].rc = "ok" /\ clnt' = clnt

\* It was made just now, or was there before.
LEMMA UserStep ==
  ASSUME Inv, NEW t \in Threads, ThreadStep(t)
  PROVE  UserKind(t)
<1> TypeOK /\ Shape(th[t])
  BY DEF Inv, ShapeInv
<1>1. ASSUME NEW h \in Handles, Call(t, h) PROVE UserKind(t)
  BY <1>1, CallEffect, NewThreadFields DEF UserKind, Goes, Frees, Leaves, Enters, HandsOver,
     HandsBack, KeepsHandles
<1>2. ASSUME NEW h \in Handles, RegisterErrorCb(t, h) PROVE UserKind(t)
  BY <1>2, RegisterErrorCbEffect, NewThreadFields DEF UserKind, Goes, Frees, Leaves, Enters,
     HandsOver, HandsBack, KeepsHandles
<1>3. ASSUME NEW s \in Servers, InitClient(t, s) PROVE UserKind(t)
  BY <1>3, InitClientEffect, NewThreadFields DEF UserKind, Goes, Frees, Leaves, Enters,
     HandsOver, HandsBack, KeepsHandles
<1>4. CASE InitInstance(t)
  BY <1>4, InitInstanceEffect, NewThreadFields DEF UserKind, Goes, Frees, Leaves, Enters,
     HandsOver, HandsBack, KeepsHandles
<1>5. ASSUME NEW h \in Handles, NEW k \in {"sync", "async"}, Release(t, h, k) PROVE UserKind(t)
  BY <1>5, ReleaseEffect, NewThreadFields DEF UserKind, Goes, Frees, Leaves, Enters, HandsOver,
     HandsBack, KeepsHandles
<1>6. CASE EndCall(t)
  BY <1>6, EndCallEffect, NewThreadFields DEF UserKind, Goes, Frees, Leaves, Enters, HandsOver,
     HandsBack, KeepsHandles
<1>7. CASE SetErrorCb(t)
  BY <1>7, SetErrorCbEffect, NewThreadFields DEF UserKind, Goes, Frees, Leaves, Enters,
     HandsOver, HandsBack, KeepsHandles
<1>8. CASE PendingErrorCb(t)
  BY <1>8, PendingErrorCbEffect, NewThreadFields DEF UserKind, Goes, Frees, Leaves, Enters,
     HandsOver, HandsBack, KeepsHandles
<1>9. ASSUME NEW d \in Handles, AllocClient(t, d) PROVE UserKind(t)
  <2>1. th[t].pc = "alloc" /\ th'[t].user = th[t].user
    BY <1>9, AllocClientEffect
  <2>2. th[t].user = NULL
    BY <2>1 DEF Shape, Creating, InitCalls
  <2> QED
    BY <2>1, <2>2 DEF UserKind
<1>10. ASSUME NEW d \in Handles, AllocNotifier(t, d) PROVE UserKind(t)
  <2>1. th[t].pc = "notifier" /\ th'[t].user = th[t].user
    BY <1>10, AllocNotifierEffect
  <2>2. th[t].user = NULL
    BY <2>1 DEF Shape, Creating, InitCalls
  <2> QED
    BY <2>1, <2>2 DEF UserKind
<1>11. CASE OpenClient(t)
  BY <1>11, OpenClientEffect, NewThreadFields DEF UserKind, Goes, Frees, Leaves, Enters,
     HandsOver, HandsBack, KeepsHandles
<1>12. CASE RedoLookup(t)
  BY <1>12, RedoLookupEffect, NewThreadFields DEF UserKind, Goes, Frees, Leaves, Enters,
     HandsOver, HandsBack, KeepsHandles
<1>13. CASE CloseXport(t)
  BY <1>13, CloseXportEffect, NewThreadFields DEF UserKind, Goes, Frees, Leaves, Enters,
     HandsOver, HandsBack, KeepsHandles
<1>14. CASE JoinReader(t)
  BY <1>14, JoinReaderEffect, NewThreadFields DEF UserKind, Goes, Frees, Leaves, Enters,
     HandsOver, HandsBack, KeepsHandles
<1>15. CASE Put(t)
  <2>1. Frees(t, PutReturns(t)) \/ Leaves(t) \/ Goes(t, PutReturns(t))
    BY <1>15, PutEffect
  <2> QED
    BY <2>1, NewThreadFields DEF UserKind, Frees, Leaves, Goes
<1>16. CASE Free(t)
  <2>1. Leaves(t) \/ Goes(t, th[t].after)
    BY <1>16, FreeEffect
  <2> QED
    BY <2>1, NewThreadFields DEF UserKind, Leaves, Goes
<1>17. CASE CountServers(t)
  BY <1>17, CountServersEffect, NewThreadFields DEF UserKind, Goes, Frees, Leaves, Enters,
     HandsOver, HandsBack, KeepsHandles
<1>18. CASE ListServers(t)
  BY <1>18, ListServersEffect, NewThreadFields DEF UserKind, Goes, Frees, Leaves, Enters,
     HandsOver, HandsBack, KeepsHandles
<1>19. CASE OpenNotifier(t)
  BY <1>19, OpenNotifierEffect, NewThreadFields DEF UserKind, Goes, Frees, Leaves, Enters,
     HandsOver, HandsBack, KeepsHandles
<1>20. CASE NotifierLookup(t)
  <2>1. th[t].pc = "n_lookup" /\ th'[t].user = th[t].user
    BY <1>20, NotifierLookupEffect
  <2>2. th[t].user = NULL
    BY <2>1 DEF Shape
  <2> QED
    BY <2>1, <2>2 DEF UserKind
<1>21. CASE ClearSignal(t)
  BY <1>21, ClearSignalEffect, NewThreadFields DEF UserKind, Goes, Frees, Leaves, Enters,
     HandsOver, HandsBack, KeepsHandles
<1>22. CASE WaitForServer(t)
  BY <1>22, WaitForServerEffect, NewThreadFields DEF UserKind, Goes, Frees, Leaves, Enters,
     HandsOver, HandsBack, KeepsHandles
<1>23. CASE ReturnInit(t)
  <2>1. /\ clnt' = clnt
        /\ \/ Goes(t, "notifier") \/ Goes(t, "wait")
           \/ th[t].rc = "ok" /\ HandsOver(t, th[t].c)
           \/ HandsOver(t, NULL)
           \/ Leaves(t)
    BY <1>23, ReturnInitEffect
  <2> QED
    BY <2>1, NewThreadFields DEF UserKind, Goes, HandsOver, Leaves
<1>24. CASE ReleaseGet(t)
  BY <1>24, ReleaseGetEffect, NewThreadFields DEF UserKind, Goes, Frees, Leaves, Enters,
     HandsOver, HandsBack, KeepsHandles
<1>25. CASE ReleasePut(t)
  BY <1>25, ReleasePutEffect, NewThreadFields DEF UserKind, Goes, Frees, Leaves, Enters,
     HandsOver, HandsBack, KeepsHandles
<1>26. CASE ReleaseAsync(t)
  BY <1>26, ReleaseAsyncEffect, NewThreadFields DEF UserKind, Goes, Frees, Leaves, Enters,
     HandsOver, HandsBack, KeepsHandles
<1>27. CASE Shut(t)
  BY <1>27, ShutEffect, NewThreadFields DEF UserKind, Goes, Frees, Leaves, Enters, HandsOver,
     HandsBack, KeepsHandles
<1>28. CASE AwaitRelease(t)
  BY <1>28, AwaitReleaseEffect, NewThreadFields DEF UserKind, Goes, Frees, Leaves, Enters,
     HandsOver, HandsBack, KeepsHandles
<1>29. CASE OpenFails(t)
  BY <1>29, OpenFailsEffect, NewThreadFields DEF UserKind, Goes, Frees, Leaves, Enters,
     HandsOver, HandsBack, KeepsHandles
<1>30. CASE TimeOut(t)
  BY <1>30, TimeOutEffect, NewThreadFields DEF UserKind, Goes, Frees, Leaves, Enters, HandsOver,
     HandsBack, KeepsHandles
<1> QED
  BY <1>1, <1>2, <1>3, <1>4, <1>5, <1>6, <1>7, <1>8, <1>9, <1>10, <1>11, <1>12, <1>13, <1>14,
     <1>15, <1>16, <1>17, <1>18, <1>19, <1>20, <1>21, <1>22, <1>23, <1>24, <1>25, <1>26, <1>27,
     <1>28, <1>29, <1>30 DEF ThreadStep, CallStart, CallStep

-----------------------------------------------------------------------------
(* Clients that are no notifiers. *)

\* The client a thread creates, and the one it will return, is no notifier.
OwnSignal(t) ==
  /\ th[t].call \in InitCalls /\ th[t].pc \in UserPcs \cup {"returned"} =>
       clnt[th[t].c].ext_signal = NoThread
  /\ th[t].user # NULL => clnt[th[t].user].ext_signal = NoThread

\* A thread's step leaves it a client that is no notifier.
LEMMA OwnSignalStep ==
  ASSUME Inv, NEW t \in Threads, ThreadStep(t)
  PROVE  OwnSignal(t)'
<1> TypeOK /\ OwnSignal(t) /\ Shape(th[t])
  BY DEF Inv, ShapeInv, Heard, OwnSignal
<1>1. ASSUME th'[t].call \in InitCalls, th'[t].pc \in UserPcs \cup {"returned"}
      PROVE  clnt'[th'[t].c].ext_signal = NoThread
  <2>1. CASE th'[t].c \in Handles /\ clnt'[th'[t].c].ext_signal = NoThread
    BY <2>1
  <2>2. CASE KeepsHandles(t) /\ th[t].pc \in UserPcs
    <3> DEFINE c == th[t].c
    <3>1. th'[t].c = c /\ c \in Handles /\ Uses(t, c) /\ th[t].call \in InitCalls
      BY <1>1, <2>2, ThreadElements DEF Shape, Thread, Uses, KeepsHandles
    <3>2. SameServer(c)
      BY <3>1, UsedKeeps
    <3> QED
      BY <2>2, <3>1, <3>2 DEF OwnSignal, SameServer
  <2> QED
    BY <1>1, <2>1, <2>2, MakesStep DEF MakesKind
<1>2. ASSUME th'[t].user # NULL
      PROVE  clnt'[th'[t].user].ext_signal = NoThread
  <2>1. CASE KeepsHandles(t)
    <3> DEFINE c == th[t].user
    <3>1. th'[t].user = c /\ c # NULL /\ c # th[t].c /\ c # th'[t].c /\ c \in Handles
      BY <1>2, <2>1, ThreadElements DEF Shape, Thread, KeepsHandles
    <3>2. Untouched(c)
      BY <3>1, TouchStep
    <3> QED
      BY <3>1, <3>2 DEF OwnSignal, Untouched
  <2>2. CASE th'[t].user = th[t].c /\ th[t].rc = "ok" /\ clnt' = clnt
    <3>1. th[t].call \in InitCalls /\ th[t].pc \in UserPcs \cup {"returned"}
      BY <2>2 DEF Shape, UserPcs
    <3> QED
      BY <2>2, <3>1 DEF OwnSignal
  <2> QED
    BY <1>2, <2>1, <2>2, UserStep DEF UserKind
<1> QED
  BY <1>1, <1>2 DEF OwnSignal

\* The other threads' clients it leaves alone.
LEMMA SignalKept ==
  ASSUME Inv, NEW t \in Threads, ThreadStep(t), NEW u \in Threads \ {t}
  PROVE  OwnSignal(u)'
<1>1. OwnSignal(u) /\ Shape(th[u]) /\ th'[u] = th[u]
  BY OthersStep DEF Inv, ShapeInv, Heard, OwnSignal, Others
<1>2. ASSUME th[u].call \in InitCalls, th[u].pc \in UserPcs \cup {"returned"}
      PROVE  clnt'[th[u].c] = clnt[th[u].c]
  <2>1. th[u].c \in Refs(u) /\ th[u].call # "none"
    BY <1>1, <1>2 DEF Shape, Refs, InitCalls
  <2> QED
    BY <2>1, PrivateUntouched DEF Untouched
<1>3. ASSUME th[u].user # NULL
      PROVE  clnt'[th[u].user] = clnt[th[u].user]
  <2>1. th[u].user \in Refs(u)
    BY <1>3 DEF Refs
  <2> QED
    BY <1>3, <2>1, PrivateUntouched DEF Untouched
<1> QED
  BY <1>1, <1>2, <1>3 DEF OwnSignal

\* The application is given clients that are no notifiers.
LEMMA KnownSignal ==
  ASSUME Inv, NEW t \in Threads, ThreadStep(t), NEW c \in known', clnt'[c].alive
  PROVE  clnt'[c].ext_signal = NoThread
<1> TypeOK
  BY DEF Inv
<1>1. CASE c \in known
  <2>1. c \in Handles /\ ~Newborn(t, c)
    BY <1>1, NewbornFresh DEF TypeOK
  <2>2. ~Removed(t, c)
    BY NewClientFields DEF Removed
  <2>3. SameServer(c) /\ clnt[c].alive
    BY <2>1, <2>2, FieldStep DEF FieldKind, Plain, Shuts, Registers, SameLife
  <2> QED
    BY <1>1, <2>3 DEF Inv, Heard, SameServer
<1>2. CASE c \notin known
  <2>1. clnt' = clnt /\ c \in Handles
    BY <1>2, GivesQuietly, NewlyKnown
  <2>2. (th[t].rc = "ok" /\ c = th[t].c) \/ c = th[t].user
    BY <1>2, <2>1, GivesOwn
  <2>3. th[t].rc = "ok" => th[t].call \in InitCalls /\ th[t].pc \in UserPcs \cup {"returned"}
    BY DEF Inv, ShapeInv, Shape, UserPcs
  <2>4. OwnSignal(t)
    BY DEF Inv, Heard, OwnSignal
  <2> QED
    BY <2>1, <2>2, <2>3, <2>4, Nulls DEF OwnSignal
<1> QED
  BY <1>1, <1>2

\* The invariant about callbacks that have run is kept by a step of a thread.
LEMMA HeardNext ==
  ASSUME Inv, NEW t \in Threads, ThreadStep(t)
  PROVE  Heard'
<1>1. \A u \in Threads : OwnSignal(u)'
  BY OwnSignalStep, SignalKept
<1>2. \A c \in Handles : Told(c)'
  BY ToldStep
<1>3. /\ \A k \in Regs : hist'.heard[k] <= 1
      /\ \A c \in known' : clnt'[c].alive => clnt'[c].ext_signal = NoThread
      /\ \A c \in Handles :
           clnt'[c].err_cb # NULL => clnt'[c].alive /\ clnt'[c].ext_signal = NoThread
  BY HeardStep, KnownSignal, CallbackStep
<1> QED
  BY <1>1, <1>2, <1>3 DEF Heard, OwnSignal, Told

-----------------------------------------------------------------------------
(* What a step of a reader thread or of the router means for the report of an exit. *)

\* The report of the exit of c's server is as far as it was.
SameReport(c) ==
  /\ clnt'[c].addr_valid = clnt[c].addr_valid /\ clnt'[c].server_addr = clnt[c].server_addr
  /\ clnt'[c].err_pending = clnt[c].err_pending
  /\ Reporting(c)' <=> Reporting(c)
  /\ xport'[c].pc = "err_cb" => xport[c].pc = "err_cb" /\ xport'[c].cb = xport[c].cb
\* That is so for every client but c.
OthersReport(c) == \A d \in Handles \ {c} : SameReport(d)

\* Nothing ...
Silent == hist' = hist /\ \A c \in Handles : SameReport(c)
\* ... the reader reads that the client's server has gone ...
Notes(c) ==
  /\ hist' = hist /\ OthersReport(c)
  /\ clnt[c].server_addr \in Servers /\ ~clnt'[c].addr_valid /\ clnt'[c].server_addr = NoServer
  /\ clnt'[c].err_pending = clnt[c].err_pending /\ xport'[c].pc = "report"
\* ... reads the callback ...
Picks(c) ==
  /\ hist' = hist /\ OthersReport(c) /\ clnt' = clnt /\ xport[c].pc = "report"
  /\ clnt[c].err_cb # NULL /\ xport'[c].pc = "err_cb" /\ xport'[c].cb = clnt[c].err_cb
\* ... finds none, and leaves word ...
Defers(c) ==
  /\ hist' = hist /\ OthersReport(c) /\ xport[c].pc = "report" /\ clnt[c].err_cb = NULL
  /\ clnt'[c].addr_valid = clnt[c].addr_valid /\ clnt'[c].server_addr = clnt[c].server_addr
  /\ clnt'[c].err_pending /\ ~Reporting(c)' /\ xport'[c].pc # "err_cb"
\* ... or runs it.
Fires(c) ==
  /\ hist'.reg = hist.reg /\ xport[c].cb \in Regs
  /\ hist'.heard = [hist.heard EXCEPT ![xport[c].cb] = @ + 1]
  /\ OthersReport(c) /\ clnt' = clnt /\ xport[c].pc = "err_cb"
  /\ ~Reporting(c)' /\ xport'[c].pc # "err_cb"

\* What a step of a reader thread or of the router may mean for the reports.
ReportKind == Silent \/ \E c \in Handles : Notes(c) \/ Picks(c) \/ Defers(c) \/ Fires(c)

\* That is all such a step means for it.
LEMMA ReportStep ==
  ASSUME Inv, OtherStep
  PROVE  ReportKind
<1> TypeOK
  BY DEF Inv
<1>1. ASSUME NEW d \in Handles, ReadCtl(d) PROVE ReportKind
  <2>1. /\ OnlyXport(d) /\ hist' = hist /\ xport[d].pc \in {"ctl", "poll"}
        /\ \/ /\ xport'[d].pc = "report" /\ OnlyClient(d)
              /\ ~clnt'[d].addr_valid /\ clnt'[d].server_addr = NoServer
              /\ clnt'[d].err_pending = clnt[d].err_pending /\ clnt[d].server_addr \in Servers
           \/ xport'[d].pc \in {"exited", "poll"} /\ clnt' = clnt
    BY <1>1, ReadCtlEffect DEF Reads
  <2>2. OthersReport(d)
    BY <2>1 DEF OthersReport, OnlyXport, OnlyClient, SameReport, Reporting
  <2>3. CASE xport'[d].pc = "report"
    BY <2>1, <2>2, <2>3 DEF ReportKind, Notes
  <2>4. CASE xport'[d].pc \in {"exited", "poll"} /\ clnt' = clnt
    <3>1. SameReport(d)
      BY <2>1, <2>4 DEF SameReport, Reporting
    <3> QED
      BY <2>1, <2>2, <3>1 DEF ReportKind, Silent, OthersReport
  <2> QED
    BY <2>1, <2>3, <2>4
<1>2. ASSUME NEW d \in Handles, ReportError(d) PROVE ReportKind
  <2>1. /\ OnlyXport(d) /\ hist' = hist /\ xport[d].pc = "report"
        /\ \/ /\ clnt[d].err_cb # NULL /\ clnt' = clnt
              /\ xport'[d].pc = "err_cb" /\ xport'[d].cb = clnt[d].err_cb
           \/ /\ clnt[d].err_cb = NULL /\ xport'[d].pc \in {"ctl", "exited", "poll"} /\ OnlyClient(d)
              /\ clnt'[d].addr_valid = clnt[d].addr_valid
              /\ clnt'[d].server_addr = clnt[d].server_addr /\ clnt'[d].err_pending = TRUE
    BY <1>2, ReportErrorEffect DEF Reads
  <2>2. OthersReport(d)
    BY <2>1 DEF OthersReport, OnlyXport, OnlyClient, SameReport, Reporting
  <2> QED
    BY <2>1, <2>2 DEF ReportKind, Picks, Defers, Reporting
<1>3. ASSUME NEW d \in Handles, ErrorCb(d) PROVE ReportKind
  <2>1. /\ OnlyXport(d) /\ clnt' = clnt /\ xport[d].pc = "err_cb"
        /\ xport'[d].pc \in {"ctl", "exited", "poll"}
        /\ hist' = [hist EXCEPT !.heard[xport[d].cb] = @ + 1]
    BY <1>3, ErrorCbEffect DEF Reads
  <2>2. OthersReport(d)
    BY <2>1 DEF OthersReport, OnlyXport, SameReport, Reporting
  <2>3. xport[d].cb \in Regs
    BY <2>1, Callbacks
  <2>4. hist'.reg = hist.reg /\ hist'.heard = [hist.heard EXCEPT ![xport[d].cb] = @ + 1]
    BY <2>1, <2>3 DEF TypeOK, History
  <2> QED
    BY <2>1, <2>2, <2>3, <2>4 DEF ReportKind, Fires, Reporting
<1>4. ASSUME NEW d \in Handles, IndCb(d) PROVE ReportKind
  <2>1. /\ OnlyXport(d) /\ hist' = hist /\ clnt' = clnt
        /\ xport[d].pc \in {"ind_cb", "poll", "ctl"} /\ xport'[d].pc \in {"ctl", "exited", "poll", "ind_cb"}
    BY <1>4, IndCbEffect DEF Reads
  <2> QED
    BY <2>1 DEF ReportKind, Silent, OnlyXport, SameReport, Reporting
<1>5. ASSUME NEW d \in Handles, ReaderExit(d) PROVE ReportKind
  <2>1. /\ OnlyXport(d) /\ hist' = hist /\ clnt' = clnt
        /\ xport[d].pc \in {"ind_cb", "poll", "ctl"} /\ xport'[d].pc \in {"ctl", "exited", "poll", "ind_cb"}
    BY <1>5, ReaderExitEffect DEF Reads
  <2> QED
    BY <2>1 DEF ReportKind, Silent, OnlyXport, SameReport, Reporting
<1>6. ASSUME NEW d \in Handles, ReadInd(d) PROVE ReportKind
  <2>1. /\ OnlyXport(d) /\ hist' = hist /\ clnt' = clnt
        /\ xport[d].pc \in {"ind_cb", "poll", "ctl"} /\ xport'[d].pc \in {"ctl", "exited", "poll", "ind_cb"}
    BY <1>6, ReadIndEffect DEF Reads
  <2> QED
    BY <2>1 DEF ReportKind, Silent, OnlyXport, SameReport, Reporting
<1>7. ASSUME NEW d \in Handles, ReaderDies(d) PROVE ReportKind
  <2>1. /\ OnlyXport(d) /\ hist' = hist /\ clnt' = clnt
        /\ xport[d].pc \in {"ind_cb", "poll", "ctl"} /\ xport'[d].pc \in {"ctl", "exited", "poll", "ind_cb"}
    BY <1>7, ReaderDiesEffect DEF Reads
  <2> QED
    BY <2>1 DEF ReportKind, Silent, OnlyXport, SameReport, Reporting
<1>8. ASSUME NEW s \in Servers, ServerUp(s) PROVE ReportKind
  <2>1. hist' = hist /\ clnt' = clnt /\ \A c \in Handles : Tells(<<"new", s>>, c)
    BY <1>8, ServerUpEffect
  <2> QED
    BY <2>1 DEF ReportKind, Silent, Tells, SameReport, Reporting
<1>9. ASSUME NEW s \in Servers, ServerDown(s) PROVE ReportKind
  <2>1. hist' = hist /\ clnt' = clnt /\ \A c \in Handles : Tells(<<"remove", s>>, c)
    BY <1>9, ServerDownEffect
  <2> QED
    BY <2>1 DEF ReportKind, Silent, Tells, SameReport, Reporting
<1> QED
  BY <1>1, <1>2, <1>3, <1>4, <1>5, <1>6, <1>7, <1>8, <1>9 DEF OtherStep, ReaderStep

\* The callback that the reader runs has not run before.
LEMMA FiresUnheard ==
  ASSUME Inv, NEW c \in Handles, Fires(c)
  PROVE  hist.reg[xport[c].cb] = c /\ hist.heard[xport[c].cb] = 0
  BY DEF Fires, Inv, ReportInv, Reporting

\* Nobody begins to register a callback in such a step.
LEMMA RegsSame ==
  ASSUME Inv, OtherStep
  PROVE  left'.regs = left.regs
<1> TypeOK
  BY DEF Inv
<1>1. ASSUME NEW d \in Handles, ReadCtl(d) PROVE left'.regs = left.regs
  BY <1>1, ReadCtlEffect DEF TypeOK, Budget
<1>2. ASSUME NEW d \in Handles, ReportError(d) PROVE left'.regs = left.regs
  BY <1>2, ReportErrorEffect DEF TypeOK, Budget
<1>3. ASSUME NEW d \in Handles, ErrorCb(d) PROVE left'.regs = left.regs
  BY <1>3, ErrorCbEffect DEF TypeOK, Budget
<1>4. ASSUME NEW d \in Handles, IndCb(d) PROVE left'.regs = left.regs
  BY <1>4, IndCbEffect DEF TypeOK, Budget
<1>5. ASSUME NEW d \in Handles, ReaderExit(d) PROVE left'.regs = left.regs
  BY <1>5, ReaderExitEffect DEF TypeOK, Budget
<1>6. ASSUME NEW d \in Handles, ReadInd(d) PROVE left'.regs = left.regs
  BY <1>6, ReadIndEffect DEF TypeOK, Budget
<1>7. ASSUME NEW d \in Handles, ReaderDies(d) PROVE left'.regs = left.regs
  BY <1>7, ReaderDiesEffect DEF TypeOK, Budget
<1>8. ASSUME NEW s \in Servers, ServerUp(s) PROVE left'.regs = left.regs
  BY <1>8, ServerUpEffect DEF TypeOK, Budget
<1>9. ASSUME NEW s \in Servers, ServerDown(s) PROVE left'.regs = left.regs
  BY <1>9, ServerDownEffect DEF TypeOK, Budget
<1> QED
  BY <1>1, <1>2, <1>3, <1>4, <1>5, <1>6, <1>7, <1>8, <1>9 DEF OtherStep, ReaderStep

\* Registrations are not disturbed by it.
LEMMA OtherReg ==
  ASSUME Inv, OtherStep
  PROVE  RegInv'
<1> TypeOK
  BY DEF Inv
<1>1. /\ th' = th /\ left'.regs = left.regs /\ hist'.reg = hist.reg
      /\ \A c \in Handles : clnt'[c].err_cb = clnt[c].err_cb
  BY OtherAside, RegsSame DEF Aside, AsideClient
<1>2. \A c \in Handles : clnt[c].err_pending => clnt'[c].err_pending
  BY ReportStep DEF ReportKind, Silent, Notes, Picks, Defers, Fires, OthersReport, SameReport
<1>3. \A t \in Threads : th[t].pc \in {"reg", "reg_cb"} => th[t].c \in Handles /\ th[t].cb \in Regs
  BY Callbacks
<1>4. CASE hist' = hist
  BY <1>1, <1>2, <1>3, <1>4 DEF Inv, RegInv
<1>5. ASSUME NEW c \in Handles, Fires(c)
      PROVE  RegInv'
  <2> DEFINE k == xport[c].cb
  <2>1. k \in Regs /\ hist.reg[k] = c /\ Reporting(c) /\ c # NULL
    BY <1>5, FiresUnheard, Nulls DEF Fires, Reporting
  <2>2. ~(k <= left.regs)
    BY <2>1 DEF Inv, RegInv
  <2>3. \A t \in Threads : th[t].pc \in {"reg", "reg_cb"} => th[t].cb # k
    BY <2>1 DEF Inv, RegInv, ReportInv
  <2>4. \A i \in Regs : i # k => hist'.heard[i] = hist.heard[i]
    BY <1>5, HistoryElements DEF Fires
  <2> HIDE DEF k
  <2> QED
    BY <1>1, <1>2, <1>3, <2>2, <2>3, <2>4 DEF Inv, RegInv
<1> QED
  BY <1>4, <1>5, ReportStep DEF ReportKind, Silent, Notes, Picks, Defers

\* The invariant about reports is kept by it.
LEMMA OtherReport ==
  ASSUME Inv, OtherStep
  PROVE  ReportInv'
<1> TypeOK
  BY DEF Inv
<1>1. hist'.reg = hist.reg
  BY OtherAside DEF Aside
<1> SUFFICES ASSUME NEW c \in Handles
             PROVE  /\ clnt'[c].addr_valid => clnt'[c].server_addr \in Servers
                    /\ ~clnt'[c].addr_valid => clnt'[c].server_addr = NoServer
                    /\ Reporting(c)' => ~clnt'[c].addr_valid /\ ~clnt'[c].err_pending
                    /\ clnt'[c].err_pending => ~clnt'[c].addr_valid
                    /\ xport'[c].pc = "err_cb" => xport'[c].cb # NULL /\ hist'.reg[xport'[c].cb] = c
                    /\ clnt'[c].addr_valid \/ Reporting(c)' =>
                         \A k \in Regs : hist'.reg[k] = c => hist'.heard[k] = 0
  BY DEF ReportInv
<1>2. /\ clnt[c].addr_valid => clnt[c].server_addr \in Servers
      /\ ~clnt[c].addr_valid => clnt[c].server_addr = NoServer
      /\ Reporting(c) => ~clnt[c].addr_valid /\ ~clnt[c].err_pending
      /\ clnt[c].err_pending => ~clnt[c].addr_valid
      /\ xport[c].pc = "err_cb" => xport[c].cb # NULL /\ hist.reg[xport[c].cb] = c
      /\ clnt[c].addr_valid \/ Reporting(c) =>
           \A k \in Regs : hist.reg[k] = c => hist.heard[k] = 0
  BY DEF Inv, ReportInv
<1>3. CASE SameReport(c) /\ hist' = hist
  BY <1>2, <1>3 DEF SameReport
<1>4. CASE Notes(c)
  BY <1>2, <1>4, Nulls DEF Notes, Reporting
<1>5. CASE Picks(c)
  BY <1>2, <1>5 DEF Picks, Reporting, Inv, RegInv
<1>6. CASE Defers(c)
  BY <1>2, <1>6 DEF Defers, Reporting
<1>7. ASSUME NEW d \in Handles, Fires(d)
      PROVE  /\ clnt'[c].addr_valid => clnt'[c].server_addr \in Servers
             /\ ~clnt'[c].addr_valid => clnt'[c].server_addr = NoServer
             /\ Reporting(c)' => ~clnt'[c].addr_valid /\ ~clnt'[c].err_pending
             /\ clnt'[c].err_pending => ~clnt'[c].addr_valid
             /\ xport'[c].pc = "err_cb" => xport'[c].cb # NULL /\ hist'.reg[xport'[c].cb] = c
             /\ clnt'[c].addr_valid \/ Reporting(c)' =>
                  \A k \in Regs : hist'.reg[k] = c => hist'.heard[k] = 0
  <2>1. clnt' = clnt /\ (c # d => SameReport(c)) /\ (c = d => ~Reporting(c)' /\ xport'[c].pc # "err_cb")
    BY <1>7 DEF Fires, OthersReport
  <2>2. hist.reg[xport[d].cb] = d /\ ~clnt[d].addr_valid /\ xport[d].cb \in Regs
    BY <1>7, FiresUnheard DEF Fires, Inv, ReportInv, Reporting
  <2>3. \A k \in Regs : k # xport[d].cb => hist'.heard[k] = hist.heard[k]
    BY <1>7, HistoryElements DEF Fires
  <2>4. CASE c = d
    BY <1>2, <2>1, <2>2, <2>4
  <2>5. CASE c # d
    BY <1>1, <1>2, <2>1, <2>2, <2>3, <2>5 DEF SameReport
  <2> QED
    BY <2>4, <2>5
<1> QED
  <2>1. \/ SameReport(c) /\ hist' = hist
        \/ Notes(c) \/ Picks(c) \/ Defers(c) \/ \E d \in Handles : Fires(d)
    BY ReportStep DEF ReportKind, Silent, Notes, Picks, Defers, OthersReport
  <2> QED
    BY <1>3, <1>4, <1>5, <1>6, <1>7, <2>1

\* A client's callback has run, or will, after such a step too.
LEMMA ToldOther ==
  ASSUME Inv, OtherStep, NEW c \in Handles
  PROVE  Told(c)'
<1> TypeOK /\ Told(c)
  BY DEF Inv, Heard, Told
<1>1. /\ th' = th /\ hist'.reg = hist.reg
      /\ clnt'[c].alive = clnt[c].alive /\ clnt'[c].ext_signal = clnt[c].ext_signal
      /\ clnt'[c].err_cb = clnt[c].err_cb
  BY OtherAside DEF Aside, AsideClient
<1>2. CASE SameReport(c) /\ hist' = hist
  BY <1>1, <1>2 DEF SameReport, Told
<1>3. CASE Notes(c)
  BY <1>3 DEF Notes, Told, Reporting
<1>4. CASE Picks(c)
  BY <1>4 DEF Picks, Told, Reporting
<1>5. CASE Defers(c)
  BY <1>1, <1>5 DEF Defers, Told
<1>6. ASSUME NEW d \in Handles, Fires(d)
      PROVE  Told(c)'
  <2> DEFINE k == xport[d].cb
  <2>1. k \in Regs /\ hist.reg[k] = d /\ hist.heard[k] = 0 /\ hist'.heard[k] = 1
    BY <1>6, FiresUnheard, HistoryElements DEF Fires
  <2>2. \A i \in Regs : i # k => hist'.heard[i] = hist.heard[i]
    BY <1>6, HistoryElements DEF Fires
  <2>3. CASE c = d
    BY <1>1, <2>1, <2>3 DEF Told
  <2>4. CASE c # d
    <3>1. SameReport(c)
      BY <1>6, <2>4 DEF Fires, OthersReport
    <3>2. \A i \in Regs : hist.reg[i] = c => hist'.heard[i] = hist.heard[i]
      BY <2>1, <2>2, <2>4
    <3> QED
      BY <1>1, <3>1, <3>2 DEF Told, SameReport
  <2> QED
    BY <2>3, <2>4
<1> QED
  <2>1. \/ SameReport(c) /\ hist' = hist
        \/ Notes(c) \/ Picks(c) \/ Defers(c) \/ \E d \in Handles : Fires(d)
    BY ReportStep DEF ReportKind, Silent, Notes, Picks, Defers, OthersReport
  <2> QED
    BY <1>2, <1>3, <1>4, <1>5, <1>6, <2>1

\* The invariant about callbacks that have run is kept by it.
LEMMA OtherHeard ==
  ASSUME Inv, OtherStep
  PROVE  Heard'
<1> TypeOK
  BY DEF Inv
<1>1. /\ th' = th /\ known' = known
      /\ \A c \in Handles : /\ clnt'[c].alive = clnt[c].alive /\ clnt'[c].err_cb = clnt[c].err_cb
                            /\ clnt'[c].ext_signal = clnt[c].ext_signal
  BY OtherAside DEF Aside, AsideClient
<1>2. \A c \in Handles : Told(c)'
  BY ToldOther
<1>3. ASSUME NEW k \in Regs
      PROVE  hist'.heard[k] <= 1
  <2>1. hist.heard[k] <= 1
    BY DEF Inv, Heard
  <2>2. CASE hist' = hist
    BY <2>1, <2>2
  <2>3. ASSUME NEW c \in Handles, Fires(c) PROVE hist'.heard[k] <= 1
    BY <2>1, <2>3, FiresUnheard, HistoryElements DEF Fires
  <2> QED
    BY <2>2, <2>3, ReportStep DEF ReportKind, Silent, Notes, Picks, Defers
<1>4. \A t \in Threads : /\ th[t].c = NULL \/ th[t].c \in Handles
                         /\ th[t].user = NULL \/ th[t].user \in Handles
  BY ThreadElements DEF Thread
<1>5. \A t \in Threads : OwnSignal(t) /\ Shape(th[t])
  BY DEF Inv, Heard, OwnSignal, ShapeInv
<1>6. \A t \in Threads :
        th[t].call \in InitCalls /\ th[t].pc \in UserPcs \cup {"returned"} => th[t].c # NULL
  BY <1>5 DEF Shape
<1>7. \A t \in Threads : OwnSignal(t)'
  BY <1>1, <1>4, <1>5, <1>6 DEF OwnSignal
<1>8. /\ \A c \in known' : clnt'[c].alive => clnt'[c].ext_signal = NoThread
      /\ \A c \in Handles : clnt'[c].err_cb # NULL => clnt'[c].alive /\ clnt'[c].ext_signal = NoThread
  BY <1>1 DEF Inv, Heard, TypeOK
<1> QED
  BY <1>2, <1>3, <1>7, <1>8 DEF Heard, Told, OwnSignal

-----------------------------------------------------------------------------
(* The invariant. *)

\* In the initial states there are no clients, and no thread is in the library.
LEMMA InitInv == Init => Inv
<1> SUFFICES ASSUME Init PROVE Inv
  OBVIOUS
<1> USE NewThreadFields, NewClientFields, NewXportFields, Nulls
<1>1. /\ \A t \in Threads : th[t] = NewThread /\ Refs(t) = {} /\ th[t].pc = "idle" /\ th[t].c = NULL
      /\ \A c \in Handles : clnt[c] = NewClient /\ xport[c] = NewXport
      /\ known = {} /\ table = {} /\ next_clid = 1
      /\ \A k \in Regs : hist.reg[k] = NULL /\ hist.heard[k] = 0
      /\ \A c \in Handles : hist.released[c] = 0
      /\ \A t \in Threads : ~released[t]
  BY DEF Init, Refs
<1>2. TypeOK
  <2>1. MaxRegs \in Nat /\ MaxInits \in Nat /\ MaxEvents \in Nat /\ MaxClients \in Nat
    BY ClientAssumption
  <2>2. left \in Budget
    BY <2>1 DEF Init, Budget
  <2>3. hist \in History
    BY DEF Init, History
  <2>4. 1 \in 1..MaxClients + 1
    BY <2>1
  <2> QED
    BY <2>2, <2>3, <2>4, NewThreadType, NewClientType, NewXportType DEF Init, TypeOK
<1>3. ShapeInv
  BY <1>1, ShapeNew DEF ShapeInv
<1>4. IsFiniteSet(Active)
  <2>1. Active = {}
    BY <1>1 DEF Active
  <2> QED
    BY <2>1, FS_EmptySet
<1>5. Private /\ Given
  BY <1>1 DEF Private, Given, GivenTo
<1>6. FreshInv
  BY <1>1 DEF FreshInv, Fresh
<1>7. Counted /\ FreeInv /\ AliveInv
  BY <1>1 DEF Counted, FreeInv, AliveInv, Freeing, UserPcs
<1>8. XportInv
  BY <1>1 DEF XportInv, Opening, Ready, Closing
<1>9. Owned /\ WaiterInv /\ Once
  BY <1>1 DEF Owned, WaiterInv, Once
<1>10. CtlInv /\ ExitInv
  BY <1>1 DEF CtlInv, ExitInv, WillHear
<1>11. RegInv
  BY <1>1 DEF RegInv
<1>12. ReportInv
  BY <1>1 DEF ReportInv, Reporting
<1>13. Heard
  BY <1>1 DEF Heard, InitCalls, UserPcs
<1> QED
  BY <1>2, <1>3, <1>4, <1>5, <1>6, <1>7, <1>8, <1>9, <1>10, <1>11, <1>12, <1>13 DEF Inv

\* A step that changes nothing.
LEMMA StutterInv ==
  ASSUME Inv, UNCHANGED vars
  PROVE  Inv'
<1> USE DEF vars
<1>1. TypeOK' /\ ShapeInv' /\ IsFiniteSet(Active)'
  BY DEF Inv, TypeOK, ShapeInv, Active
<1>2. Private' /\ Given' /\ FreshInv'
  BY DEF Inv, Private, Given, GivenTo, FreshInv, Fresh, Refs
<1>3. Counted' /\ FreeInv' /\ AliveInv'
  BY DEF Inv, Counted, FreeInv, AliveInv, Freeing, Users, TransportHolds
<1>4. XportInv'
  BY DEF Inv, XportInv, Opening, Ready, Closing
<1>5. Owned' /\ WaiterInv' /\ Once'
  BY DEF Inv, Owned, WaiterInv, Once, Refs, Working
<1>6. CtlInv' /\ ExitInv'
  BY DEF Inv, CtlInv, ExitInv, WillHear
<1>7. RegInv' /\ ReportInv' /\ Heard'
  BY DEF Inv, RegInv, ReportInv, Heard, Reporting
<1> QED
  BY <1>1, <1>2, <1>3, <1>4, <1>5, <1>6, <1>7 DEF Inv

\* A step of a thread.
LEMMA ThreadInv ==
  ASSUME Inv, NEW t \in Threads, ThreadStep(t)
  PROVE  Inv'
<1>1. TypeOK' /\ ShapeInv' /\ IsFiniteSet(Active)'
  BY ThreadType, ShapeNext, ActiveNext
<1>2. Private' /\ Given' /\ FreshInv'
  BY PrivateStep, GivenNext, FreshNext
<1>3. Counted' /\ FreeInv' /\ AliveInv'
  BY RefsNext
<1>4. XportInv'
  BY XportNext
<1>5. Owned' /\ WaiterInv' /\ Once'
  BY OwnedNext, WaiterNext, OnceNext
<1>6. CtlInv' /\ ExitInv'
  BY CtlNext, ExitNext
<1>7. RegInv' /\ ReportInv' /\ Heard'
  BY RegNext, ReportNext, HeardNext
<1> QED
  BY <1>1, <1>2, <1>3, <1>4, <1>5, <1>6, <1>7 DEF Inv

\* A step of a reader thread or of the router.
LEMMA OtherInv ==
  ASSUME Inv, OtherStep
  PROVE  Inv'
<1>1. TypeOK' /\ ShapeInv' /\ IsFiniteSet(Active)' /\ Private' /\ Given' /\ FreshInv'
  BY OtherType, OtherHands
<1>2. Counted' /\ FreeInv' /\ AliveInv' /\ XportInv'
  BY OtherRefs, OtherXport
<1>3. Owned' /\ WaiterInv' /\ Once' /\ CtlInv' /\ ExitInv'
  BY OtherOwners, OtherCtl, OtherExit
<1>4. RegInv' /\ ReportInv' /\ Heard'
  BY OtherReg, OtherReport, OtherHeard
<1> QED
  BY <1>1, <1>2, <1>3, <1>4 DEF Inv

\* Inv holds in every reachable state, whatever the numbers of threads, servers, calls,
\* registrations and failures are.
THEOREM Invariant == Spec => []Inv
<1>1. Init => Inv
  BY InitInv
<1>2. Inv /\ [Next]_vars => Inv'
  BY NextSteps, ThreadInv, OtherInv, StutterInv
<1> QED
  BY <1>1, <1>2, PTL DEF Spec

\* The variables have their types.
THEOREM TypeCorrect == Spec => []TypeOK
<1>1. Inv => TypeOK
  BY DEF Inv
<1> QED
  BY <1>1, Invariant, PTL

\* Who counts the references of a client counts its users.
THEOREM ReferencesAreExact == Spec => []RefCountExact
<1>1. Inv => RefCountExact
  <2> SUFFICES ASSUME Inv, NEW c \in Handles, clnt[c].alive
               PROVE  /\ clnt[c].ref_count = Cardinality(Users(c)) + (IF TransportHolds(c) THEN 1 ELSE 0)
                      /\ clnt[c].ref_count = 0 <=>
                           Cardinality({t \in Threads : th[t].c = c /\ th[t].pc = "free"}) = 1
    BY DEF RefCountExact
  <2> DEFINE F == {t \in Threads : th[t].c = c /\ th[t].pc = "free"}
  <2>1. clnt[c].ref_count = Cardinality(Users(c)) + (IF TransportHolds(c) THEN 1 ELSE 0)
    BY DEF Inv, Counted
  <2>2. \A t, u \in F : t = u
    BY DEF Inv, FreeInv
  <2>3. CASE F = {}
    <3>1. clnt[c].ref_count # 0
      BY <2>3 DEF Inv, FreeInv, Freeing
    <3>2. Cardinality(F) = 0
      BY <2>3, FS_EmptySet
    <3> QED
      BY <2>1, <3>1, <3>2
  <2>4. CASE F # {}
    <3>1. PICK t \in F : TRUE
      BY <2>4
    <3>2. F = {t} /\ clnt[c].ref_count = 0
      BY <2>2, <3>1 DEF Inv, FreeInv
    <3>3. Cardinality(F) = 1
      BY <3>2, FS_Singleton
    <3> QED
      BY <2>1, <3>2, <3>3
  <2> QED
    BY <2>3, <2>4
<1> QED
  BY <1>1, Invariant, PTL

\* No thread and no reader thread works on a client that has been freed, and none is freed with its
\* transport open (qmi_cci_client_free, xport_close).
THEOREM NothingUsedAfterFree == Spec => []NoUseAfterFree
<1>1. Inv => NoUseAfterFree
  <2> SUFFICES ASSUME Inv, NEW c \in Handles
               PROVE  /\ \A t \in Users(c) : clnt[c].alive
                      /\ Readers(c) => clnt[c].alive /\ xport[c].state = "open"
                      /\ xport[c].state = "open" => clnt[c].alive
    BY DEF NoUseAfterFree
  <2>1. \A t \in Users(c) : clnt[c].alive
    BY DEF Users, UserPcs, Inv, AliveInv
  <2>2. xport[c].state = "open" => clnt[c].alive
    BY DEF Inv, AliveInv
  <2>3. Readers(c) => xport[c].state = "open"
    BY ReaderOpen DEF Readers
  <2> QED
    BY <2>1, <2>2, <2>3
<1> QED
  BY <1>1, Invariant, PTL

\* The release callback has run once when a client that was given out is gone, and never before the
\* last user and the reader thread have left it (qmi_client.h:493).
THEOREM CallbackRunsOnce == Spec => []ReleasedOnce
<1>1. Inv => ReleasedOnce
  <2> SUFFICES ASSUME Inv, NEW c \in Handles
               PROVE  /\ hist.released[c] <= 1
                      /\ hist.released[c] = 1 => ~clnt[c].alive /\ ~Readers(c) /\ Users(c) = {}
                      /\ c \in known /\ ~clnt[c].alive => hist.released[c] = 1
    BY DEF ReleasedOnce
  <2>1. /\ hist.released[c] <= 1
        /\ clnt[c].alive => hist.released[c] = 0
        /\ c \in known /\ ~clnt[c].alive => hist.released[c] = 1
    BY DEF Inv, Once
  <2>2. ~clnt[c].alive => ~Readers(c)
    BY ReaderOpen DEF Readers, Inv, AliveInv
  <2>3. ~clnt[c].alive => Users(c) = {}
    BY DEF Users, UserPcs, Inv, AliveInv
  <2> QED
    BY <2>1, <2>2, <2>3
<1> QED
  BY <1>1, Invariant, PTL

\* No exit of a server is lost between the look-up in qmi_client_init and the control port.
THEOREM ExitIsKnown == Spec => []ExitKnown
<1>1. Inv => ExitKnown
  BY DEF Inv, ExitInv, WillHear, ExitKnown
<1> QED
  BY <1>1, Invariant, PTL

\* The error callback runs once, by the reader or by the thread that registers it, whichever comes
\* second (qmi_cci_xport_event_server_error, qmi_client_register_error_cb).
THEOREM ExitIsHeardOnce == Spec => []ErrorHeardOnce
<1>1. Inv => ErrorHeardOnce
  <2> SUFFICES ASSUME Inv
               PROVE  ErrorHeardOnce
    OBVIOUS
  <2>1. \A k \in Regs : hist.heard[k] <= 1
    BY DEF Inv, Heard
  <2>2. ASSUME NEW c \in Handles, clnt[c].err_cb # NULL, ~clnt[c].addr_valid,
               xport[c].pc \notin {"report", "err_cb"}
        PROVE  \/ \E k \in Regs : hist.reg[k] = c /\ hist.heard[k] = 1
               \/ \E t \in Users(c) : th[t].pc = "reg_cb"
    <3>1. clnt[c].alive /\ clnt[c].ext_signal = NoThread /\ ~Reporting(c)
      BY <2>2 DEF Inv, Heard, Reporting
    <3>2. \/ \E k \in Regs : hist.reg[k] = c /\ hist.heard[k] = 1
          \/ \E t \in Threads : th[t].pc = "reg_cb" /\ th[t].c = c
      BY <2>2, <3>1 DEF Inv, Heard
    <3> QED
      BY <3>2 DEF Users
  <2> QED
    BY <2>1, <2>2 DEF ErrorHeardOnce
<1> QED
  BY <1>1, Invariant, PTL

\* No path out of the library forgets a client, a notifier or a transport.
THEOREM NoClientIsForgotten == Spec => []NothingLeaked
<1>1. Inv => NothingLeaked
  <2> SUFFICES ASSUME Inv, NEW c \in Handles, clnt[c].alive,
                      \A t \in Threads : c \notin {th[t].c, th[t].notifier, th[t].user}
               PROVE  c \in table \cap known
    BY DEF NothingLeaked
  <2>1. c \in known
    BY DEF Inv, Owned, Refs
  <2>2. CASE c \notin table
    <3>1. xport[c].state # "open"
      BY <2>2 DEF Inv, XportInv, Closing
    <3>2. Users(c) = {}
      BY DEF Users
    <3>3. clnt[c].ref_count = 0
      BY <3>1, <3>2, FS_EmptySet DEF Inv, Counted, TransportHolds
    <3> QED
      BY <3>3 DEF Inv, FreeInv, Freeing
  <2> QED
    BY <2>1, <2>2
<1> QED
  BY <1>1, Invariant, PTL
=============================================================================
