------------------------------- MODULE MCPush -------------------------------
(* Two registrations of one device, the first with a price request, and a  *)
(* deletion of the first by its ID and of the device by its address; a     *)
(* quote published here and a post that comes from another relay.          *)
EXTENDS Push
MCReg ==
    [r1 |-> [key |-> "k1", author |-> "bob", owner |-> "bob", pub |-> "b1", remote |-> FALSE, here |-> TRUE, price |-> TRUE, wants |-> {"post"}],
     r2 |-> [key |-> "k1", author |-> "bob", owner |-> "bob", pub |-> "b1", remote |-> FALSE, here |-> TRUE, price |-> FALSE, wants |-> {"post", "quote"}]]
MCPost ==
    [p |-> [kind |-> "quote", author |-> "ann", to |-> {"bob"}, dev |-> "none", far |-> FALSE],
     f |-> [kind |-> "post", author |-> "ann", to |-> {}, dev |-> "none", far |-> TRUE]]
MCDel ==
    [d |-> [by |-> "bob", ids |-> {"r1"}, keys |-> {"k1"}, kinds |-> TRUE]]
=============================================================================
