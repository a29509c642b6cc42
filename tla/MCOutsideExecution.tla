------------------------- MODULE MCOutsideExecution -------------------------
(***************************************************************************)
(* Orders of two accounts: for anybody, for one executor and for a caller  *)
(* that is no address; of one call, of two and of none; with what is given *)
(* and what is asked for; executed alone and together.                     *)
(***************************************************************************)
EXTENDS OutsideExecution

Call(to, data) == [to |-> to, selector |-> 3, data |-> data]

MCOrders == {"plain", "two", "given", "wrong"}
MCAccount(o) == IF o = "given" THEN 11 ELSE 10
MCOptions(o) ==
  CASE o = "plain" -> [caller |-> <<"any">>, after |-> 0, before |-> 3]
    [] o = "two" -> [caller |-> <<"hex", 20>>, after |-> 1, before |-> 3]
    [] o = "wrong" -> [caller |-> <<"text">>, after |-> 0, before |-> 3]
    [] OTHER -> [caller |-> <<"hex", ANY_CALLER>>, after |-> 0, before |-> 2]
MCCallsOf(o) ==
  CASE o = "plain" -> <<Call(1, <<5, 1>>)>>
    [] o = "two" -> <<Call(1, <<>>), Call(2, <<6>>)>>
    [] OTHER -> <<>>
MCVersion(o) == IF o = "given" THEN "1" ELSE NotGiven
MCNonce(o) == CASE o = "given" -> 1 [] o = "two" -> 0 [] OTHER -> NoNonce
MCSupports == {{}, {"1", "2"}}
MCBatches == {<<"plain">>, <<"two">>, <<"plain", "two">>, <<"given", "plain">>}
=============================================================================
