---------------------------- MODULE MCTryCodegen ----------------------------
(***************************************************************************)
(* Every pair of try statements, one after the other or one inside the     *)
(* other, in one function or in two.                                       *)
(***************************************************************************)
EXTENDS TryCodegen

Statement(place, call, kind, t, c, f) ==
  [parent |-> place[1], where |-> place[2], call |-> call,
   catch |-> kind[1], finally |-> kind[2],
   exits |-> [r \in Region |-> CASE r = "try" -> t [] r = "catch" -> c [] OTHER -> f]]

Kinds == {<<TRUE, FALSE>>, <<TRUE, TRUE>>, <<FALSE, TRUE>>}

Statements(places, tries, catches) ==
  {Statement(place, call, kind, t, c, {"normal"}) :
     place \in places, call \in BOOLEAN, kind \in Kinds, t \in tries, c \in catches}

Falling == {"normal", "throw", "await"}
Returning == {"throw", "return"}

First == Statements({<<0, "body">>}, {Falling, Returning},
                    {{"normal"}, {"normal", "throw"}, Returning})
Second == Statements({<<0, "body">>, <<1, "try">>, <<1, "catch">>, <<1, "finally">>},
                     {Falling, Returning}, {{"normal", "throw"}, {"return"}})

WellFormed(p) == \A i \in DOMAIN p.stmts : p.stmts[i].where = "finally" => IsCall(p, i)

Pairs == {p \in {[async |-> a, stmts |-> <<s, t>>] : a \in BOOLEAN, s \in First, t \in Second} :
            WellFormed(p) /\ Supported(p)}

\* try { throw } catch (e) { throw e } finally { }
Rethrow ==
  {[async |-> FALSE,
    stmts |-> <<Statement(<<0, "body">>, FALSE, <<TRUE, TRUE>>, {"normal", "throw"}, {"normal", "throw"}, {"normal"})>>]}
=============================================================================
