--------------------------- MODULE ThermalQmiInv ---------------------------
(***************************************************************************)
(* The inductive invariant behind the safety properties of ThermalQmi: the  *)
(* registering threads form a chain, each started because the server of the *)
(* client before it has gone; and how far the levels have been sent.         *)
(***************************************************************************)
EXTENDS ThermalQmi

\* Places before the thread's client is made, and after it was published or given up.
Before == {"none", "start", "release", "notifier", "clear", "lookup", "wait", "init"}
After == {"set", "lock", "send", "sending", "return", "done"}
Publishing == {"lock", "send", "sending", "return", "done"}

NoClient == [gen |-> 0, open |-> FALSE, valid |-> FALSE, err_cb |-> FALSE,
             err_pending |-> FALSE, reader |-> "poll", join |-> NULL]

-----------------------------------------------------------------------------
(* The chain of threads. *)

\* Client r had a server, which is gone; and r servers or more have been there.
Gone(r) == ~clnt[r].valid /\ clnt[r].gen >= r /\ ~Current(r)

\* Threads are started in order; every one but the last has a client whose server is gone.
ChainInv ==
  /\ server.up => server.gen > 0
  /\ \A r \in Threads : r <= thread <=> reg[r].pc # "none"
  /\ \A r \in Threads : r < thread => reg[r].pc \in After /\ Gone(r)

\* A client is made by its thread, for a server that has been there.
ClientOf(r) ==
  /\ clnt[r].gen <= server.gen
  /\ reg[r].pc \in Before => clnt[r] = NoClient
  /\ clnt[r].valid => clnt[r].gen >= r
  /\ clnt[r].err_cb => reg[r].pc \in After \cup {"join", "create"}
ClientInv == \A r \in Threads : ClientOf(r)

\* The error callback belongs to the last thread: it runs in the reader thread of its client when
\* that thread has ended, or in that thread.
CallbackOf(r) ==
  /\ clnt[r].reader # "poll" => r = thread /\ Gone(r) /\ clnt[r].err_cb /\ ~clnt[r].err_pending
  /\ clnt[r].reader = "join" => clnt[r].join = r
  /\ clnt[r].reader = "create" => reg[r].pc = "done"
  /\ clnt[r].err_pending => Gone(r)
  /\ reg[r].pc \in {"join", "create"} => r = thread /\ clnt[r].err_cb /\ clnt[r].err_pending
  /\ reg[r].pc = "join" => reg[r].join = r
CallbackInv == \A r \in Threads : CallbackOf(r)

\* Unless the server went before the error callback was registered, threads take turns.
TurnInv == ~TwoThreads => \A r \in Threads : r < thread => reg[r].pc = "done"

\* ... and the old client is released by the thread after it.
HandleKept ==
  /\ \A c \in Threads : clnt[c].open => c = handle \/ reg[c].pc \in {"verify", "drop", "reg_cb", "set"}
  /\ handle = NULL \/ handle = thread \/ reg[thread].pc \in {"start", "release"}
  /\ \A r \in Threads : reg[r].pc = "release" => reg[r].c = handle
HandleInv == ~TwoThreads /\ main.pc = "run" => HandleKept

-----------------------------------------------------------------------------
(* The levels. *)

\* A handle is published by its own thread.
PublishedInv == handle # NULL => reg[handle].pc \in Publishing

\* Requests go to the handle unless it was replaced under them.
RequestOf(d) ==
  req[d].pc = "sending" => req[d].c = handle \/ handle = NULL \/ reg[handle].pc = "lock"

\* A thread sends the level requested last, and to its own client if that is the handle.
SendingOf(r) ==
  /\ reg[r].pc = "sending" =>
       /\ reg[r].dev \in Devs /\ reg[r].lvl = prev_req_lvl[reg[r].dev]
       /\ handle = r => reg[r].c = r
  /\ reg[r].pc # "sending" => reg[r].dev = Nobody
PublishInv == PublishedInv /\ (\A d \in Devs : RequestOf(d)) /\ \A r \in Threads : SendingOf(r)

\* The devices of a server that answers are known once they have been verified.
SupportedOf(r) == Answers(r) /\ reg[r].pc \in After \cup {"reg_cb"} => server.devs \subseteq supported
SupportedInv == \A r \in Threads : SupportedOf(r)

\* A device has the level requested last, or the thread of the handle has still to send it.
ToSend(h, d) ==
  \/ reg[h].pc = "lock"
  \/ reg[h].pc \in {"send", "sending"} /\ (d \in reg[h].todo \/ d = reg[h].dev)
LevelOf(h, d) == server.level[d] = prev_req_lvl[d] \/ ToSend(h, d)
LevelInv == handle # NULL /\ Answers(handle) => \A d \in server.devs : LevelOf(handle, d)

\* The inductive invariant.
Inv ==
  /\ TypeOK /\ ChainInv /\ ClientInv /\ CallbackInv /\ TurnInv /\ HandleInv
  /\ PublishInv /\ SupportedInv /\ LevelInv
=============================================================================
