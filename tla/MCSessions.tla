--------------------------- MODULE MCSessions ---------------------------
(* Sessions of one user: a phone beside a browser, and two tabs of the browser. *)
EXTENDS Sessions

CONSTANTS tab1, tab2

MCTab == {tab1, tab2}

MCScenario ==
  {[who |-> {"phone", tab1}, tokens |-> 3, events |-> 2, failures |-> 1],
   [who |-> {tab1, tab2},    tokens |-> 3, events |-> 1, failures |-> 0],
   [who |-> {tab1, tab2},    tokens |-> 3, events |-> 0, failures |-> 1]}
=============================================================================
