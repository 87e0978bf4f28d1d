------------------------------ MODULE EsService ------------------------------
(***************************************************************************)
(* What the caller of es_query_asynchronous is promised: every request the *)
(* function accepts is answered once, with its own answer, in the order in *)
(* which the requests were accepted, and eventually.                       *)
(***************************************************************************)
EXTENDS Naturals, Sequences

CONSTANT Requests

VARIABLES
  accepted,   \* requests in the order in which 0 was returned for them
  answered    \* callbacks in the order in which they were made

esvars == <<accepted, answered>>

Init == accepted = <<>> /\ answered = <<>>

Accept(r) == /\ accepted' = Append(accepted, r)
             /\ UNCHANGED answered

Answer == /\ Len(answered) < Len(accepted)
          /\ LET r == accepted[Len(answered) + 1]
             IN answered' = Append(answered, [req |-> r, http |-> r])
          /\ UNCHANGED accepted

Next == Answer \/ \E r \in Requests : Accept(r)

(* Accepted requests do not wait for ever.                                 *)
Spec == Init /\ [][Next]_esvars /\ WF_esvars(Answer)
=============================================================================
