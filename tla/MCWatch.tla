------------------------------ MODULE MCWatch ------------------------------
(* An instance of Watch for TLC. *)
EXTENDS Watch

\* One key is a prefix of another, and a third is not
MCKey == {<<1>>, <<1, 2>>, <<2>>}

MCStored == {{<<1>>, <<1, 2>>}}

\* A batch deletes one key and puts another: on a full channel the put is lost
MCOperations ==
  {PipePut(<<1, 2>>), PipePut(<<2>>), PipeDelete(<<1, 2>>), PipeDeleteWithPrefix(<<1>>),
   Exec(<<PipeDelete(<<1, 2>>), PipePut(<<1>>)>>)}

\* An exact watch, and a prefix watch, with the initial state, and one without
MCRequests == {[key |-> <<1, 2>>, isPrefix |-> FALSE, initial |-> TRUE],
               [key |-> <<1>>, isPrefix |-> TRUE, initial |-> TRUE],
               [key |-> <<2>>, isPrefix |-> FALSE, initial |-> FALSE]}

=============================================================================
