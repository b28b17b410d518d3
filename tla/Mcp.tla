--------------------------------- MODULE Mcp ---------------------------------
(***************************************************************************)
(* The MCP client: the connection manager and its sessions                 *)
(* (src/mcp/connection.ts), the stdio transport with its table of pending  *)
(* requests (src/mcp/stdio-transport.ts) and the calls tools make through  *)
(* them (src/tools/mcp/bridge.ts, src/tools/mcp-resources).  The server is *)
(* a child process that answers in any order, late, wrongly or not at all, *)
(* and may exit or write garbage at any time.                              *)
(*                                                                         *)
(* An action is what one reaction of the event loop does: a promise that   *)
(* is settled in one action is seen by the code awaiting it in another, so *)
(* anything may happen in between.  The contents of inventories and        *)
(* results are left out; requests the server makes to the client change no *)
(* state.                                                                  *)
(***************************************************************************)
EXTENDS Integers, FiniteSets, Sequences, Functions

CONSTANTS
  Servers,       \* names of the enabled servers of the configuration
  Calls,         \* calls of the manager's methods; each is made once
  Inventories,   \* what a session lists and caches: its tools, its resources
  Wanted,        \* what each call may ask for: an operation and its servers in order
  Pages          \* bound: how many pages of a listing are asked for one by one

\* listTools and listResources, with or without refresh, of which inventory;
\* callTool, readResource and ping send one request.  listResources() and
\* refreshTools() without a name go through all enabled servers.
Operation == [kind: {"list", "refresh"}, of: Inventories] \cup [kind: {"call"}]

ASSUME ServersAssumption == IsFiniteSet(Servers)
ASSUME PagesAssumption == Pages \in [Servers -> Nat \ {0}]
ASSUME WantedAssumption ==
  \A c \in Calls: Wanted[c] \subseteq [op: Operation, names: Seq(Servers) \ {<<>>}]

\* Who sends the first request of a session.
Handshake == "handshake"

ASSUME CallsAssumption == Handshake \notin Calls

VARIABLES
  table,      \* manager.sessions: server -> session, 0 if none
  session,    \* every McpClientSession ever created
  link,       \* its StdioMcpTransport and the child process
  call,       \* the calls of the manager's methods
  shutdown    \* manager.close() of the runtime's cleanup

vars == <<table, session, link, call, shutdown>>

\* There is one shutdown, so the manager makes at most two sessions of a server.
Sessions == 1 .. 2 * Cardinality(Servers)

Init ==
  /\ table = [n \in Servers |-> 0]
  /\ session = <<>>
  /\ link = <<>>
  /\ call = [c \in Calls |-> [pc |-> "idle"]]
  /\ shutdown = [pc |-> "no", sessions |-> {}]

-----------------------------------------------------------------------------
\* The table of pending requests

\* Settle the promises of some pending requests and forget their entries.
Settled(l, ids, how) ==
  [l EXCEPT !.pending = @ \ ids,
            !.asked = [i \in DOMAIN l.asked |->
                         IF i \in ids THEN [l.asked[i] EXCEPT !.promise = how]
                                      ELSE l.asked[i]]]

\* Send a request with the next id; a process that is dead, or no longer read,
\* will not answer it.
Asking(l, who) ==
  [l EXCEPT !.pending = @ \cup {Len(l.asked) + 1},
            !.owed = IF l.alive /\ l.reader THEN @ \cup {Len(l.asked) + 1} ELSE @,
            !.asked = Append(@, [by |-> who, promise |-> "waiting"])]

\* request() and notify() throw when the process never started or after close().
UsableAfterClose(l) == l.started
Usable(l) == l.started /\ ~l.closed

Promise(s, i) == link[s].asked[i].promise

\* handleResponse: an answer to a request that is no longer pending is dropped.
ResponseToAnyone(s, i, how) ==
  /\ link[s].reader
  /\ i \in link[s].owed
  /\ LET l == [link[s] EXCEPT !.owed = @ \ {i}] IN
     link' = [link EXCEPT ![s] = Settled(l, {i}, how)]
  /\ UNCHANGED <<table, session, call, shutdown>>
Response(s, i, how) ==
  /\ link[s].reader
  /\ i \in link[s].owed
  /\ LET l == [link[s] EXCEPT !.owed = @ \ {i}] IN
     link' = [link EXCEPT ![s] = Settled(l, {i} \cap l.pending, how)]
  /\ UNCHANGED <<table, session, call, shutdown>>

\* The timer of a pending request fires.
TimeoutKeepingEntry(s, i) ==
  /\ i \in link[s].pending
  /\ Promise(s, i) = "waiting"
  /\ link' = [link EXCEPT ![s].asked[i].promise = "rejected"]
  /\ UNCHANGED <<table, session, call, shutdown>>
TimeoutOfCalls(s, i) ==
  /\ i \in link[s].pending
  /\ link[s].asked[i].by # Handshake
  /\ link' = [link EXCEPT ![s] = Settled(@, {i}, "rejected")]
  /\ UNCHANGED <<table, session, call, shutdown>>
Timeout(s, i) ==
  /\ i \in link[s].pending
  /\ link' = [link EXCEPT ![s] = Settled(@, {i}, "rejected")]
  /\ UNCHANGED <<table, session, call, shutdown>>

\* The write of a request to a process that is gone fails.
WriteFails(s, i) ==
  /\ i \in link[s].pending
  /\ ~link[s].alive
  /\ link' = [link EXCEPT ![s] = Settled(@, {i}, "rejected")]
  /\ UNCHANGED <<table, session, call, shutdown>>

\* readStdoutLoop ends at a frame it cannot parse: nothing is read any more.
Garbage(s) ==
  /\ link[s].reader
  /\ link' = [link EXCEPT ![s] = [Settled(@, @.pending, "rejected")
                                   EXCEPT !.reader = FALSE, !.owed = {}]]
  /\ UNCHANGED <<table, session, call, shutdown>>

\* The process ends and watchProcessExit notices; what it wrote before may still
\* be read.
Exit(s) ==
  /\ link[s].alive
  /\ link' = [link EXCEPT ![s] =
                [Settled(@, @.pending, "rejected") EXCEPT !.alive = FALSE]]
  /\ UNCHANGED <<table, session, call, shutdown>>

-----------------------------------------------------------------------------
\* Sessions

\* ensureSession, initialize and startInternal up to their first await; the
\* process may fail to start.
NewSession(n, started) ==
  /\ session' = Append(session, [server |-> n, state |-> "connecting",
                                 handshake |-> "starting", told |-> FALSE,
                                 cached |-> {}])
  /\ link' = Append(link, [started |-> started, alive |-> started,
                           reader |-> started, closed |-> FALSE,
                           pending |-> {}, owed |-> {}, asked |-> <<>>])

HandshakeFails(s) ==
  session' = [session EXCEPT ![s].handshake = "failed", ![s].state = "error"]

\* initializeInternal, up to the request
AskHandshake(s) ==
  /\ session[s].handshake = "starting"
  /\ IF Usable(link[s])
     THEN /\ link' = [link EXCEPT ![s] = Asking(@, Handshake)]
          /\ session' = [session EXCEPT ![s].handshake = "asked"]
     ELSE HandshakeFails(s) /\ UNCHANGED link
  /\ UNCHANGED <<table, call, shutdown>>

\* initializeInternal, after the answer: notify, unless the transport is closed
Notify(s) ==
  /\ session[s].handshake = "asked"
  /\ Promise(s, 1) # "waiting"
  /\ IF Promise(s, 1) = "resolved" /\ Usable(link[s])
     THEN session' = [session EXCEPT ![s].handshake = "notifying", ![s].told = TRUE]
     ELSE HandshakeFails(s)
  /\ UNCHANGED <<table, link, call, shutdown>>

\* The notification is written, or its write fails.  The state is set whatever
\* happened meanwhile: a session closed during the write is "ready" again.
Notified(s) ==
  /\ session[s].handshake = "notifying"
  /\ \/ session' = [session EXCEPT ![s].handshake = "ready", ![s].state = "ready"]
     \/ ~link[s].alive /\ HandshakeFails(s)
  /\ UNCHANGED <<table, link, call, shutdown>>

-----------------------------------------------------------------------------
\* Calls of the manager's methods

Begin(c, want) ==
  /\ call[c].pc = "idle"
  /\ call' = [call EXCEPT ![c] = [pc |-> "connect", op |-> want.op,
                                  names |-> want.names, session |-> 0,
                                  request |-> 0, page |-> 0]]
  /\ UNCHANGED <<table, session, link, shutdown>>

Connecting(c, s) ==
  call' = [call EXCEPT ![c].pc = "connecting", ![c].session = s, ![c].page = 0]

\* connect: a session in the table is used whatever its state.
ConnectAnew(c) ==
  /\ call[c].pc = "connect"
  /\ LET n == Head(call[c].names) IN
     \E started \in BOOLEAN:
        /\ NewSession(n, started)
        /\ table' = [table EXCEPT ![n] = Len(session) + 1]
        /\ Connecting(c, Len(session) + 1)
  /\ UNCHANGED shutdown
Connect(c) ==
  /\ call[c].pc = "connect"
  /\ LET n == Head(call[c].names) IN
     IF table[n] # 0
     THEN Connecting(c, table[n]) /\ UNCHANGED <<table, session, link>>
     ELSE \E started \in BOOLEAN:
            /\ NewSession(n, started)
            /\ table' = [table EXCEPT ![n] = Len(session) + 1]
            /\ Connecting(c, Len(session) + 1)
  /\ UNCHANGED shutdown

Fail(c) == call' = [call EXCEPT ![c].pc = "failed"]

\* This server is done; go on with the next one, if any.
Finish(c) ==
  call' = [call EXCEPT ![c].names = Tail(@),
                       ![c].pc = IF Len(call[c].names) > 1 THEN "connect" ELSE "done"]

\* Send the next request of a call: the only one, or the next page.
Request(c) ==
  LET s == call[c].session IN
  IF Usable(link[s])
  THEN /\ link' = [link EXCEPT ![s] = Asking(@, c)]
       /\ call' = [call EXCEPT ![c].pc = "waiting", ![c].page = @ + 1,
                               ![c].request = Len(link[s].asked) + 1]
  ELSE Fail(c) /\ UNCHANGED link

\* ensureReady awaits the promise of the handshake, not the session's state.
OverAtOnce(s) == session[s].handshake # "starting"
Over(s) == session[s].handshake \in {"ready", "failed"}

InCache(c) ==
  call[c].op.kind = "list" /\ call[c].op.of \in session[call[c].session].cached

Proceed(c) ==
  /\ call[c].pc = "connecting"
  /\ Over(call[c].session)
  /\ \/ /\ session[call[c].session].handshake = "failed"
        /\ Fail(c)
        /\ UNCHANGED link
     \/ /\ session[call[c].session].handshake # "failed"
        /\ IF InCache(c) THEN Finish(c) /\ UNCHANGED link ELSE Request(c)
  /\ UNCHANGED <<table, session, shutdown>>

CallAnswered(c, how) ==
  call[c].pc = "waiting" /\ Promise(call[c].session, call[c].request) = how

Rejected(c) ==
  /\ CallAnswered(c, "rejected")
  /\ Fail(c)
  /\ UNCHANGED <<table, session, link, shutdown>>

\* The answer to a list names a next page.
NextPage(c) ==
  /\ CallAnswered(c, "resolved")
  /\ call[c].op.kind # "call"
  /\ call[c].page < Pages[session[call[c].session].server]
  /\ Request(c)
  /\ UNCHANGED <<table, session, shutdown>>

\* The server names a next page each time, as often as it likes (listTools and
\* listResources loop while there is a cursor): the pages after the first Pages
\* are not asked for one by one.
ManyPages(c) ==
  /\ CallAnswered(c, "resolved")
  /\ call[c].op.kind # "call"
  /\ call[c].page >= Pages[session[call[c].session].server]
  /\ call' = [call EXCEPT ![c].pc = "paging"]
  /\ UNCHANGED <<table, session, link, shutdown>>

\* One of those requests is refused or not answered in time.
PagingFails(c) ==
  /\ call[c].pc = "paging"
  /\ Fail(c)
  /\ UNCHANGED <<table, session, link, shutdown>>

\* The transport still brings answers.
Served(l) == l.alive /\ l.reader /\ ~l.closed

LastAnswer(c) ==
  /\ CallAnswered(c, "resolved") \/ call[c].pc = "paging"
  /\ session' = IF call[c].op.kind = "call" THEN session
                ELSE [session EXCEPT ![call[c].session].cached = @ \cup {call[c].op.of}]
  /\ Finish(c)
  /\ UNCHANGED <<table, link, shutdown>>

-----------------------------------------------------------------------------
\* manager.close(): the sessions of the table are closed at once, the table is
\* cleared when all of them are through.  A session created in between is
\* dropped from the table without being closed.  What a process writes after the
\* close finds no pending request, so a closed link counts as no longer read.

CloseSessions ==
  /\ shutdown.pc = "no"
  /\ LET open == {table[n]: n \in Servers} \ {0} IN
     /\ shutdown' = [pc |-> "closing", sessions |-> open]
     /\ session' = [s \in DOMAIN session |->
          IF s \in open THEN [session[s] EXCEPT !.state = "closed"] ELSE session[s]]
     /\ link' = [s \in DOMAIN link |->
          IF s \in open
          THEN [Settled(link[s], link[s].pending, "rejected")
                  EXCEPT !.closed = TRUE, !.reader = FALSE, !.owed = {}]
          ELSE link[s]]
  /\ UNCHANGED <<table, call>>

\* A process that has not exited after shutdownTimeoutMs is killed.
CloseReturns ==
  /\ shutdown.pc = "closing"
  /\ shutdown' = [shutdown EXCEPT !.pc = "closed"]
  /\ link' = [s \in DOMAIN link |->
       IF s \in shutdown.sessions THEN [link[s] EXCEPT !.alive = FALSE] ELSE link[s]]
  /\ table' = [n \in Servers |-> 0]
  /\ UNCHANGED <<session, call>>

-----------------------------------------------------------------------------
Transport(s) ==
  \/ \E i \in link[s].owed: \E how \in {"resolved", "rejected"}: Response(s, i, how)
  \/ \E i \in link[s].pending: Timeout(s, i) \/ WriteFails(s, i)
  \/ Garbage(s) \/ Exit(s)

Greet(s) == AskHandshake(s) \/ Notify(s) \/ Notified(s)

React(c) ==
  \/ Connect(c) \/ Proceed(c) \/ Rejected(c) \/ NextPage(c)
  \/ ManyPages(c) \/ PagingFails(c) \/ LastAnswer(c)

Next ==
  \/ \E s \in DOMAIN session: Transport(s) \/ Greet(s)
  \/ \E c \in Calls:
       \/ \E want \in Wanted[c]: Begin(c, want)
       \/ React(c)
  \/ CloseSessions \/ CloseReturns

\* Due timers fire and queued reactions run, in any order; the server owes
\* nothing, and may go on naming pages as long as it is heard; nobody has to shut
\* down.
Due ==
  \/ \E s \in DOMAIN session:
       Greet(s) \/ \E i \in link[s].pending: Timeout(s, i)
  \/ \E c \in Calls:
       React(c) /\ (call[c].pc = "paging" => ~Served(link[call[c].session]))

Spec == Init /\ [][Next]_vars /\ WF_vars(Due)

-----------------------------------------------------------------------------
Link ==
  [started: BOOLEAN, alive: BOOLEAN, reader: BOOLEAN, closed: BOOLEAN,
   pending: SUBSET Nat, owed: SUBSET Nat,
   asked: Seq([by: Calls \cup {Handshake},
               promise: {"waiting", "resolved", "rejected"}])]

\* The types; in particular a server has one session, and one process, until the
\* shutdown clears the table.
TypeOK ==
  /\ table \in [Servers -> Sessions \cup {0}]
  /\ DOMAIN session \subseteq Sessions /\ DOMAIN link = DOMAIN session
  /\ \A s \in DOMAIN session:
       /\ session[s] \in [server: Servers,
                          state: {"connecting", "ready", "closed", "error"},
                          handshake: {"starting", "asked", "notifying", "ready", "failed"},
                          told: BOOLEAN, cached: SUBSET Inventories]
       /\ link[s] \in Link
  /\ \A c \in Calls: call[c].pc \in {"idle", "connect", "connecting", "waiting",
                                     "paging", "done", "failed"}
  /\ shutdown.pc # "closed" => IsInjective([s \in DOMAIN session |-> session[s].server])

\* The pending table holds exactly the requests somebody still waits for: no
\* timer, answer, exit or close leaves an entry behind or strands a promise, and
\* a closed transport has none (stdio-transport.ts: pending).
PendingExact ==
  \A s \in DOMAIN link:
    /\ link[s].pending = {i \in DOMAIN link[s].asked: Promise(s, i) = "waiting"}
    /\ link[s].closed => link[s].pending = {}

\* A session asks for its handshake once, before anything else, and sends tool
\* and resource requests only after the "initialized" notification, however many
\* calls connect at the same time (connection.ts: initializePromise).
HandshakeFirst ==
  \A s \in DOMAIN link: \A i \in DOMAIN link[s].asked:
    /\ (link[s].asked[i].by = Handshake) = (i = 1)
    /\ i > 1 => session[s].told

\* Every value in its range, and a transport that keeps its books and order.
TransportOrderly == TypeOK /\ PendingExact /\ HandshakeFirst

\* Once a transport is closed nothing more is written to its process, neither by
\* a handshake under way nor by a call between two pages or about to send.
SilentOnceClosed ==
  [][\A s \in DOMAIN link: link[s].closed =>
       /\ Len(link'[s].asked) = Len(link[s].asked)
       /\ session'[s].told = session[s].told]_vars

Ledger == INSTANCE RequestLedger WITH
  answer <- [s \in DOMAIN link |->
               [i \in DOMAIN link[s].asked |-> link[s].asked[i].promise]],
  shut <- [s \in DOMAIN link |-> link[s].closed]

\* The transport implements the ledger of requests: one answer for each, never
\* changed by a late response, an exit or a close that comes after it.
OneAnswerEach == Ledger!Spec

\* Every call of the manager returns or throws: a silent, dead or babbling server
\* costs at most the timeouts, so that again and again no call is under way, but
\* for listings whose server lives, answers and names one more page each time:
\* nothing bounds those (connection.ts: do ... while (cursor)).
EveryCallReturns ==
  []<>(\A c \in Calls: \/ call[c].pc \in {"idle", "done", "failed"}
                      \/ (call[c].pc = "paging" /\ Served(link[call[c].session])))
=============================================================================
