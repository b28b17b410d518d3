---------------------------- MODULE RequestLedger ----------------------------
(***************************************************************************)
(* What the transport of an MCP server promises the code above it          *)
(* (McpTransport, src/mcp/types.ts): a connection is opened, carries       *)
(* numbered requests until it is shut, and every request gets one answer,  *)
(* which is never taken back.  Shutting a connection answers the requests  *)
(* that wait and admits no more.                                           *)
(***************************************************************************)
EXTENDS Naturals, Sequences

VARIABLES
  answer,   \* for every connection, the answers to its requests in their order
  shut      \* for every connection, whether it was shut

ledger == <<answer, shut>>

Answers == {"resolved", "rejected"}
Waiting(s) == {i \in DOMAIN answer[s]: answer[s][i] = "waiting"}

Init == answer = <<>> /\ shut = <<>>

Open ==
  /\ answer' = Append(answer, <<>>)
  /\ shut' = Append(shut, FALSE)

Send(s) ==
  /\ ~shut[s]
  /\ answer' = [answer EXCEPT ![s] = Append(@, "waiting")]
  /\ UNCHANGED shut

Answered(s, requests, a) ==
  [i \in DOMAIN answer[s] |-> IF i \in requests THEN a ELSE answer[s][i]]

Settle(s, requests, a) ==
  /\ requests # {}
  /\ requests \subseteq Waiting(s)
  /\ answer' = [answer EXCEPT ![s] = Answered(s, requests, a)]
  /\ UNCHANGED shut

Shut(connections) ==
  /\ answer' = [s \in DOMAIN answer |->
                  IF s \in connections THEN Answered(s, Waiting(s), "rejected")
                                       ELSE answer[s]]
  /\ shut' = [s \in DOMAIN shut |-> shut[s] \/ s \in connections]

Next ==
  \/ Open
  \/ \E s \in DOMAIN answer:
       \/ Send(s)
       \/ \E requests \in SUBSET Waiting(s), a \in Answers: Settle(s, requests, a)
  \/ \E connections \in SUBSET DOMAIN answer: Shut(connections)

Spec == Init /\ [][Next]_ledger
=============================================================================
