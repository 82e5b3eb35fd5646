------------------------------- MODULE MCInit -------------------------------
(* An instance of InitCommand for TLC: one field of each class the code    *)
(* tells apart.  org: required.  remit: a bad path is only refused by      *)
(* config.Load, and any text is a path.  ceiling: an enumeration every     *)
(* check knows.  pool: may be omitted.  budget: a required number.         *)
(* flight: budget.max_usd_in_flight, which init has no prompt for.         *)
(*                                                                         *)
(* "cut" stands for a path like `docs #1`, which bare reads as "a", "quote"*)
(* for the same path in quotes, and "alias" for one like `*.md`, which     *)
(* bare is a syntax error.                                                 *)
EXTENDS InitProperties, TLC

MCPrompts == <<"org", "remit", "ceiling", "pool", "budget">>

MCValue == {"a", "b", "bad", "cut", "alias"}
MCText == MCValue \cup {"quote"}
MCScalar == [text \in MCText \cup {Unset} |-> CASE text = "cut" -> "a"
                                               [] text = "quote" -> "cut"
                                               [] text = "alias" -> Syntax
                                               [] OTHER -> text]

MCChoice == [f \in Field |-> CASE f = "remit" -> {"cut"}
                              [] f = "budget" -> {"a", "bad"}
                              [] OTHER -> {"b"}]

Full == [f \in Prompted |-> IF f = "pool" THEN Unset ELSE "a"]
MCFlags == {Full, [Full EXCEPT !["org"] = Unset]} \cup
           {[Full EXCEPT !["remit"] = path] : path \in {"bad", "alias"}}
MCEnv == {Nothing, [Nothing EXCEPT !["org"] = "b", !["ceiling"] = "bad", !["pool"] = "bad"]}

MCFound == {Empty, [[f \in Field |-> "a"] EXCEPT !["remit"] = "quote"]}
=============================================================================
