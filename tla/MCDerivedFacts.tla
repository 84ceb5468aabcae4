---- MODULE MCDerivedFacts ----
(* DerivedFacts with two runs, the first of an earlier release. *)
EXTENDS DerivedFacts

\* Every payload of a failing run, and a passing run of another engine.
MCTraits ==
  [engine : {"py"}, failing : {TRUE}, payload : Payloads]
    \cup {[engine |-> "js", failing |-> FALSE, payload |-> "aggregate"]}
====
