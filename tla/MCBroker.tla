------------------------------ MODULE MCBroker ------------------------------
(* An instance of Broker for TLC: two goroutines of the daemon ask for the *)
(* Dev token and one for the Reviewer's; a git-credential process asks for *)
(* the Dev token and finds its secret in a file.                           *)
EXTENDS BrokerProperties, TLC

CONSTANTS d1, d2, r1, h1, dev, reviewer

MCRoleOf == (d1 :> dev) @@ (d2 :> dev) @@ (r1 :> reviewer) @@ (h1 :> dev)
MCSecret == [c \in {d1, d2, r1, h1} |-> IF c = h1 THEN "file" ELSE "env"]
=============================================================================
