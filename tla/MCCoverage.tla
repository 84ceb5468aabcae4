----------------------------- MODULE MCCoverage -----------------------------
(***************************************************************************)
(* Small payloads for TLC: every list of at most MaxRecords LCOV records   *)
(* and, for the other engines, lists of one or two entries over two files  *)
(* of two lines.                                                           *)
(***************************************************************************)
EXTENDS Coverage

CONSTANT MaxRecords

File == {"a", "b"}
Line == {1, 2}

Payload(engine, shape, docs) == [engine |-> engine, shape |-> shape, docs |-> docs, contexts |-> FALSE]

Records ==
  {[key |-> "SF", path |-> f] : f \in File} \cup {[key |-> "end_of_record"], [key |-> "TN"]}
    \cup {[key |-> "DA", line |-> 1, hits |-> h] : h \in {0, 1}}
    \cup {[key |-> "BRDA", line |-> 1, block |-> 0, branch |-> 0, hits |-> 1]}
    \cup {[key |-> k, n |-> 1] : k \in {"LF", "LH", "BRH"}} \cup {[key |-> k, n |-> 0] : k \in {"LF", "BRF"}}

Lcov == {Payload("cargo-test", "file", d) : d \in BoundedSeq(Records, MaxRecords)}

(* coverage.py: a test and the empty context on a line; a summary missing. *)
Python(exec, miss, ctx) ==
  [path |-> "a", exec |-> exec, miss |-> miss, stmts |-> Cardinality(exec \cup miss), contexts |-> ctx]
Pytest ==
  {Payload("pytest", s, <<Python(x, Line \ x, <<>>)>>) : s \in {"file", "none"}, x \in SUBSET Line}
    \cup {[Payload("pytest", "file", <<Python({1}, {2}, (1 :> {<<"t", "run">>, <<"", "">>}))>>)
             EXCEPT !.contexts = TRUE],
          Payload("pytest", "file", <<[path |-> "a", exec |-> {1}, miss |-> {}, contexts |-> <<>>]>>)}

Statement == [id : {1, 2}, line : Line, hits : {0, 1}]
Jest ==
  {Payload("jest", "file", <<[path |-> "a", statements |-> S]>>) : S \in kSubset(2, Statement)}
    \cup {Payload("jest", "file", <<[path |-> "a"]>>)}

JacocoLine == [nr : {1}, ci : {0, 1}, mi : {0, 1}] \cup [nr : {2}, ci : {1}, mi : {0}]
JacocoEntry == {[path |-> f, lines |-> {l, m}] : f \in File, l \in [nr : {1}, ci : {0, 1}, mi : {0, 1}],
                                               m \in [nr : {2}, ci : {1}, mi : {0}]}
Junit == {Payload("junit", s, <<<<d>>>>) : s \in {"file", "dir", "none"}, d \in JacocoEntry}
           \cup {Payload("junit", "file", <<<<[path |-> "a", lines |-> {}], d>>>>) :
                   d \in {e \in JacocoEntry : e.path = "b"}}

(* A class of one line, of two, and one whose methods share a line.        *)
Class == [path : File, lines : {{<<1, 0>>}, {<<1, 1>>}, {<<1, 0>>, <<2, 1>>}, {<<1, 1>>, <<2, 0>>},
                                {<<1, 0>>, <<1, 1>>}}]
Xunit == {Payload("xunit", "file", <<d>>) : d \in BoundedSeq(Class, 2)}
           \cup {Payload("xunit", "dir", <<<<c>>, <<d>>>>) : c, d \in Class}
           \cup {Payload("xunit", "dir", <<>>), Payload("xunit", "none", <<>>)}

Gotest == {Payload("go-test", "file", <<>>)}

MCPayloads == Lcov \cup Pytest \cup Jest \cup Junit \cup Xunit \cup Gotest
MCLater ==
  {Payload("cargo-test", "file", <<[key |-> "SF", path |-> f], [key |-> "DA", line |-> 1, hits |-> 1],
                                   [key |-> "end_of_record"]>>) : f \in File}
    \cup {Payload("xunit", "file", <<<<[path |-> "a", lines |-> {<<1, 1>>}]>>>>),
          Payload("jest", "file", <<[path |-> "b", statements |-> {[id |-> 1, line |-> 1, hits |-> 1]}]>>)}
============================================================================
