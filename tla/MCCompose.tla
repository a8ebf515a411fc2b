------------------------------ MODULE MCCompose ------------------------------
(* Instances of Compose for TLC. *)
EXTENDS Compose, TLC

CONSTANTS fa, fc, ft, ka, kb

MCLeaf == {fa, fc, ft}
MCComp == {ka, kb}

\* Calls over overlapping sets of futures, with a null entry and empty arrays; the
\* result of the call ka may be a member of a later call.
Calls ==
  { <<"all", <<fa, None, ft>>>>, <<"all", <<>>>>, <<"all", <<fc, ka>>>>,
    <<"race", <<fa, ft>>>>, <<"race", <<>>>>, <<"race", <<fc, ka>>>>, <<"timeout", <<fc, ft>>>> }

\* Two calls on one future.
Shared == { <<"race", <<fa, fc>>>>, <<"all", <<fa, ft>>>> }

TimeoutOnly == { <<"timeout", <<fa, ft>>>> }
=============================================================================
