----------------------------- MODULE MCAnalytics -----------------------------
EXTENDS Analytics

(* A row without a total, one without components, and a complete one.         *)
MCShapes == {[total |-> NoTotal, parts |-> 0], [total |-> 1, parts |-> 0],
             [total |-> 2, parts |-> 1]}
=============================================================================
