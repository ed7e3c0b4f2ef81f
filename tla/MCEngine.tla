------------------------------ MODULE MCEngine ------------------------------
(* Model-checking instance of Engine.                                       *)
EXTENDS Engine, TLC

NoProtocol == <<>>
OneRule == <<"tpm2_validNonce">>

SomeServices == {{}, {"web"}, {"x3270", "rest"}}

(* One in each sink: of main's first entry, and of the terminal service's   *)
(* when it starts and when it fails to.                                     *)
OneOfEach ==
  {<<"db", [by |-> "main", n |-> INIT]>>, <<"logfile", [by |-> "x3270", n |-> Started]>>,
   <<"messaging", [by |-> "x3270", n |-> StartFailed]>>}
=============================================================================
