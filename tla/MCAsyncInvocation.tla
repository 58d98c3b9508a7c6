------------------------- MODULE MCAsyncInvocation -------------------------
(* Instances of AsyncInvocation for TLC. *)
EXTENDS AsyncInvocation

Someone == CHOOSE b \in Body : TRUE

(* No body blocks or is cancelled from afar; one blocks; one is cancelled.  *)
EachMode == {[blocking |-> {}, shared |-> {}], [blocking |-> {Someone}, shared |-> {}], [blocking |-> {}, shared |-> {Someone}]}
SharedMode == {[blocking |-> {}, shared |-> Body]}
=============================================================================
