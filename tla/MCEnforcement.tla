---------------------------- MODULE MCEnforcement ----------------------------
(***************************************************************************)
(* Instances of Enforcement for TLC.  The spellings are strings: a and b   *)
(* are canonical, A is another spelling of a (an IPv6 address in upper     *)
(* case, as a log line may carry it), x is no address at all.              *)
(***************************************************************************)
EXTENDS Enforcement

CanonAliased  == [ip \in {"a", "A", "x"} |->
                    CASE ip = "x" -> Invalid [] OTHER -> "a"]
CanonDistinct == [ip \in {"a", "b"} |-> ip]
CanonSame == [ip \in {"a", "A"} |-> "a"]
CanonOne  == [ip \in {"a"} |-> ip]

Enforcing   == {[dryRun |-> FALSE, enabled |-> TRUE]}
Toggling    == [dryRun : {FALSE}, enabled : BOOLEAN]

=============================================================================
