-------------------------------- MODULE MCMcp --------------------------------
\* Instances of Mcp for TLC.
EXTENDS Mcp, TLC

CONSTANTS near, far, tools, lister, caller

\* One call lists both servers in turn, the other calls a tool of the second or
\* refreshes its listing.
MCPages == (near :> 2) @@ (far :> 1)
MCCalls == {lister, caller}
MCWanted ==
  (lister :> {[op |-> [kind |-> "list", of |-> tools], names |-> <<near, far>>]}) @@
  (caller :> {[op |-> [kind |-> "call"], names |-> <<far>>],
              [op |-> [kind |-> "list", of |-> tools], names |-> <<far>>]})
=============================================================================
