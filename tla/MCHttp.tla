-------------------------------- MODULE MCHttp --------------------------------
(***************************************************************************)
(* The constants of the MCP HTTP transport: three POSTs of one session and *)
(* one of another; room for two calls in flight, two of a session, and for *)
(* one session in the table.                                               *)
(***************************************************************************)
EXTENDS McpHttp, TLC

CONSTANTS r1, r2, r3, r4, alice, bob

MCCall == {r1, r2, r3, r4}
MCSessionOf == [r \in MCCall |-> IF r = r4 THEN bob ELSE alice]
MCSymmetry == Permutations({r1, r2, r3})
=============================================================================
