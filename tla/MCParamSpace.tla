---------------------------- MODULE MCParamSpace ----------------------------
(***************************************************************************)
(* Model checking of ParamSpace: three parameters, one of them with three  *)
(* values and one with a line that gives a value twice; conditions that    *)
(* chain, clash and form cycles; and combinations that may forbid          *)
(* everything.                                                             *)
(***************************************************************************)
EXTENDS ParamSpace

MCNames  == {"p", "q", "r"}
MCValues == 0 .. 2

MCDomain(n) ==
  CASE n = "p" -> <<0, 1, 2>> [] n = "q" -> <<0, 1>> [] n = "r" -> <<1, 0, 1>>

(* No condition, or that another parameter be 1: p and q may guard each    *)
(* other.  One default is not in its domain, one condition is malformed.   *)
MCParamLines ==
  {[name |-> n, domain |-> MCDomain(n), default |-> 0,
    parent |-> m, allowed |-> {1}] :
     n \in MCNames, m \in {"p", "q", NoParent}}
  \cup {[name |-> "q", domain |-> <<0, 1>>, default |-> 2,
         parent |-> NoParent, allowed |-> {}],
        [name |-> "r", domain |-> <<0, 1>>, default |-> 0,
         parent |-> Malformed, allowed |-> {}]}

MCConditionLines ==
  [name : {"p", "q"}, parent : MCNames, allowed : {{0}}]

MCForbiddenLines ==
  {{<<"p", 1>>, <<"q", 1>>}, {<<"q", 0>>, <<"r", 0>>}, {<<"r", 0>>}, {<<"r", 1>>}}

=============================================================================
