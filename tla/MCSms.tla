--------------------------------- MODULE MCSms ---------------------------------
(***************************************************************************)
(* Small instances of Sms for TLC.                                         *)
(***************************************************************************)
EXTENDS Sms, TLC

CONSTANTS n1, n2

(* One number in one shape; what is typed twice, in shapes that the page   *)
(* takes for one and in shapes it does not; and what it does not take.     *)
Typed == {{<<"plus", n1>>},
          {<<"local", n1>>, <<"country code", n1>>, <<"local", n2>>, <<"plus local", n2>>},
          {<<"other", n1>>, <<"local", n2>>}}
Interchangeable == Permutations(Tabs)
=============================================================================
