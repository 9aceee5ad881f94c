----------------------------- MODULE MCHeaders -----------------------------
(* An instance of Headers for TLC. Lists of at most two headers, of one name *)
(* of each sort and of each sort of value; timeouts of every size, scaled;   *)
(* a secure header and a binary one that an application may set itself.      *)
EXTENDS Headers

MCBases == {"x", "authorization", "user-agent"}

One(k) == [array |-> FALSE, parts |-> <<k>>]
Two(a, b) == [array |-> TRUE, parts |-> <<a, b>>]
MCValues == {One(k) : k \in Kind} \cup {Two("ascii", "ascii"), Two("ascii", "utf8")}

MCHeader ==
  [name : [base : {"x"}, bins : 0..1], value : MCValues]
    \cup [name : [base : {"authorization"}, bins : {0}], value : {One("ascii"), One("buffer")}]
    \cup [name : [base : {"user-agent"}, bins : {0}], value : {One("ascii"), One("utf8")}]

MCHeaderLists ==
  {<<>>} \cup {<<h>> : h \in MCHeader}
    \cup {p \in MCHeader \X MCHeader :
             /\ p[1].name # p[2].name
             /\ \A i \in 1..2 : p[i].value \notin {One("empty"), Two("ascii", "ascii")}}

MCTimeouts ==
  [kind : {"date"}, gap : -1..30 \cup 142..148 \cup 178..181, lower : {TRUE}]
    \cup [kind : {"date"}, gap : {3}, lower : {FALSE}]
    \cup [kind : {"interval"}, interval : Interval, lower : BOOLEAN]
    \cup [kind : {"bad"}, lower : BOOLEAN]

MCAsked ==
  [headers : MCHeaderLists, timeout : {None}, left : {None}]
    \cup [headers : {<<>>}, timeout : MCTimeouts, left : {-1, 6, 30, None}]
    \cup [headers : {<<[name |-> [base |-> "authorization", bins |-> 0], value |-> One("ascii")]>>},
           timeout : [kind : {"bad"}, lower : BOOLEAN], left : {None}]

MCPresets ==
  {[name |-> [base |-> "authorization", bins |-> 0], value |-> One("ascii")],
   [name |-> [base |-> "x", bins |-> 0], value |-> One("utf8")]}

MCPresetTimeouts == [kind : {"date"}, gap : {5}, lower : {TRUE}]

MCReplies ==
  {<<>>} \cup {<<[name |-> [base |-> "x", bins |-> 0], value |-> v]>> :
                 v \in {One("ascii"), Two("ascii", "utf8")}}
    \cup {<<[name |-> [base |-> "x", bins |-> 1], value |-> One("buffer")]>>}
=============================================================================
