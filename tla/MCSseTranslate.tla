--------------------------- MODULE MCSseTranslate ---------------------------
(* Model-checking instances of SseTranslate: two tool indices, and the      *)
(* tool_calls arrays of one or two calls that tell the handlers apart; the  *)
(* arguments whose last piece came in the third chunk are cut.              *)
EXTENDS ToolLoop

Head0 == [index |-> 0, named |-> TRUE, args |-> FALSE]
Whole1 == [index |-> 1, named |-> TRUE, args |-> TRUE]
More(i) == [index |-> i, named |-> FALSE, args |-> TRUE]

MCCallLists == {<<>>, <<Head0>>, <<Whole1>>, <<Head0, Whole1>>, <<Head0, More(0)>>, <<More(0)>>, <<More(1), More(0)>>}

MCParses(text) == text # <<>> /\ Last(text).chunk # 3
=============================================================================
